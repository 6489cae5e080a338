---------------------------- MODULE DomesticIntel ---------------------------
(***************************************************************************)
(* Reachability reports fused on each device of a domestic mesh            *)
(* (core-supervisor/src/domestic_intel.rs): what a device saw itself, what *)
(* its peers gossiped, the score of a transport and the order of attempts. *)
(* The mesh is external: a payload may arrive late, twice or never, and,   *)
(* as the trust model of the code assumes, some participants make claims   *)
(* of any kind under any name. The counters of gossip sent, received and   *)
(* rejected are left out: no operation reads them.                         *)
(***************************************************************************)
EXTENDS Integers, Sequences, SequencesExt, FiniteSets, FiniteSetsExt, TLC

CONSTANTS
  IntelDevices, IntelTransports,
  IntelCandidates,    \* the caller's list of transports to order
  ObservationTtl,     \* OBSERVATION_TTL
  MaxIntelTime,       \* bound on the clock
  MaxFirstHand,       \* bound on first-hand results, over all devices
  MaxPayloads,        \* bound on gossip in the mesh
  MaxObserved         \* bound on the observations a device holds

ASSUME IntelAssumption ==
  /\ {ObservationTtl, MaxIntelTime, MaxFirstHand, MaxPayloads, MaxObserved} \subseteq Nat

VARIABLES
  intel,        \* device -> its observations, oldest first: [tr, works, peer, at]
  mesh,         \* payloads the mesh carries: who made it and its observations
  firstHand,    \* every first-hand result: [tr, works, peer, at]
  intelTime

intelVars == <<intel, mesh, firstHand, intelTime>>

Myself == "local"   \* peer_id = None
Stranger == "stranger"   \* a participant that need not run this code
IntelPeers == IntelDevices \cup {Stranger}

MaxReportsPerPeer == 3
LocalWeight == 10
PeerSuccessWeight == 1
PeerFailureWeight == 2

IsFresh(o) == intelTime - o.at <= ObservationTtl
IsLocal(o) == o.peer = Myself

PruneObservations(obs) == SelectSeq(obs, IsFresh)

IntelInit ==
  /\ intel = [d \in IntelDevices |-> <<>>] /\ mesh = {} /\ firstHand = {} /\ intelTime = 0

ObserveLocal(d, tr, works) ==
  LET o == [tr |-> tr, works |-> works, peer |-> Myself, at |-> intelTime]
  IN /\ Cardinality(firstHand) < MaxFirstHand /\ Len(intel[d]) < MaxObserved
     /\ intel' = [intel EXCEPT ![d] = PruneObservations(Append(@, o))]
     /\ firstHand' = firstHand \cup {[o EXCEPT !.peer = d]}
     /\ UNCHANGED <<mesh, intelTime>>

\* Mutant of Shareable: hearsay passed on with the first-hand results.
ShareableAll(o) == IsFresh(o)

Shareable(o) == IsLocal(o) /\ IsFresh(o)

GossipPayload(d) ==
  LET mine == SelectSeq(intel[d], Shareable)
      payload == [i \in DOMAIN mine |-> [mine[i] EXCEPT !.peer = d]]
  IN /\ Cardinality(mesh) < MaxPayloads /\ payload # <<>>
     /\ mesh' = mesh \cup {[from |-> d, items |-> payload]}
     /\ UNCHANGED <<intel, firstHand, intelTime>>

\* A participant that need not run this code puts any claim into the mesh.
ClaimAnything(tr, works, peer) ==
  LET claim == [tr |-> tr, works |-> works, peer |-> peer, at |-> intelTime]
  IN /\ Cardinality(mesh) < MaxPayloads
     /\ mesh' = mesh \cup {[from |-> Stranger, items |-> <<claim>>]}
     /\ UNCHANGED <<intel, firstHand, intelTime>>

\* Mutant of Acceptable: a claim to be the receiver's own record is let through.
AcceptableLocal(d, o) == o.peer # d /\ IsFresh(o)

\* A peer speaks neither for this device nor as it, and not about the past.
Acceptable(d, o) == ~IsLocal(o) /\ o.peer # d /\ IsFresh(o)

IngestGossip(d, payload) ==
  LET Accepts(o) == Acceptable(d, o)
      accepted == SelectSeq(payload, Accepts)
  IN /\ Len(intel[d]) + Len(accepted) <= MaxObserved
     /\ intel' = [intel EXCEPT ![d] = PruneObservations(@ \o accepted)]
     /\ UNCHANGED <<mesh, firstHand, intelTime>>

ClearIntel(d) ==
  /\ intel' = [intel EXCEPT ![d] = <<>>]
  /\ UNCHANGED <<mesh, firstHand, intelTime>>

IntelClock ==
  /\ intelTime < MaxIntelTime /\ intelTime' = intelTime + 1
  /\ UNCHANGED <<intel, mesh, firstHand>>

IntelNext ==
  \/ \E d \in IntelDevices, tr \in IntelTransports, w \in BOOLEAN : ObserveLocal(d, tr, w)
  \/ \E d \in IntelDevices : GossipPayload(d) \/ ClearIntel(d)
  \/ \E tr \in IntelTransports, w \in BOOLEAN, p \in IntelPeers \cup {Myself} : ClaimAnything(tr, w, p)
  \/ \E d \in IntelDevices, p \in mesh : IngestGossip(d, p.items)
  \/ IntelClock

-----------------------------------------------------------------------------
(* Fusion: score_from, prioritize. *)

\* Mutant of Counted: every report of a peer counts.
CountedAll(obs, tr) == {i \in DOMAIN obs : obs[i].tr = tr /\ IsFresh(obs[i])}

\* The first MaxReportsPerPeer fresh reports of each peer, and every local result.
Counted(obs, tr) ==
  LET fresh == {i \in DOMAIN obs : obs[i].tr = tr /\ IsFresh(obs[i])}
      Earlier(i) == {j \in fresh : j < i /\ obs[j].peer = obs[i].peer}
  IN {i \in fresh : IsLocal(obs[i]) \/ Cardinality(Earlier(i)) < MaxReportsPerPeer}

ObservationWeight(o) ==
  CASE IsLocal(o) -> IF o.works THEN LocalWeight ELSE -LocalWeight
    [] OTHER -> IF o.works THEN PeerSuccessWeight ELSE -PeerFailureWeight

ScoreFrom(obs, tr) == MapThenSumSet(LAMBDA i : ObservationWeight(obs[i]), Counted(obs, tr))

\* Mutant of RanksBefore: ties go against the caller's order.
RanksBeforeLate(score, i, j) == score[i] > score[j] \/ (score[i] = score[j] /\ i > j)

RanksBefore(score, i, j) == score[i] > score[j] \/ (score[i] = score[j] /\ i < j)

\* prioritize: best score first, ties in the caller's order.
Prioritize(obs, candidates) ==
  LET score == [i \in DOMAIN candidates |-> ScoreFrom(obs, candidates[i])]
      order == SortSeq([i \in DOMAIN candidates |-> i], LAMBDA i, j : RanksBefore(score, i, j))
  IN [i \in DOMAIN candidates |-> candidates[order[i]]]

IntelTypeOK ==
  /\ intelTime \in 0..MaxIntelTime /\ Cardinality(mesh) <= MaxPayloads
  /\ \A d \in IntelDevices : Len(intel[d]) <= MaxObserved

-----------------------------------------------------------------------------
\* Whatever is claimed in the mesh, delayed, repeated or passed around, what a
\* device holds as its own and what it tells others are results it saw itself,
\* and nothing comes back to it under its name (observe_local, ingest_gossip's
\* "A peer may never impersonate this device or forge a local record",
\* gossip_payload's "Only first-hand results are shared").  What it holds under
\* a peer's name is whatever somebody claimed under that name.
OwnWordIsFirstHand ==
  /\ \A d \in IntelDevices : \A i \in DOMAIN intel[d] :
       /\ intel[d][i].peer # d
       /\ IsLocal(intel[d][i]) => [intel[d][i] EXCEPT !.peer = d] \in firstHand
  /\ \A p \in mesh : p.from # Stranger => ToSet(p.items) \subseteq firstHand

\* What is held under one name moves a transport's score by no more than its
\* capped reports do, whatever is claimed under it and however often it is
\* delivered (score_from's cap).  Nothing caps the names.
PeerInfluenceCapped ==
  \A d \in IntelDevices, p \in IntelPeers, tr \in IntelTransports :
    LET NotFrom(o) == o.peer # p
        swing == ScoreFrom(intel[d], tr) - ScoreFrom(SelectSeq(intel[d], NotFrom), tr)
    IN /\ swing <= MaxReportsPerPeer * PeerSuccessWeight
       /\ swing >= -(MaxReportsPerPeer * PeerFailureWeight)

\* Whatever a device was told, prioritize keeps every candidate, tries those
\* believed to work before the unknown and these before the blocked, and leaves
\* the unknown in the caller's order.
AttemptsReordered ==
  \A d \in IntelDevices :
    LET out == Prioritize(intel[d], IntelCandidates)
        class == [i \in DOMAIN out |-> ScoreFrom(intel[d], out[i])]
        Unknown(c) == c \notin {intel[d][i].tr : i \in DOMAIN intel[d]}
    IN /\ IsInjective(out) /\ ToSet(out) = ToSet(IntelCandidates)
       /\ \A i, j \in DOMAIN out : class[i] > 0 /\ class[j] <= 0 => i < j
       /\ \A i, j \in DOMAIN out : class[i] = 0 /\ class[j] < 0 => i < j
       /\ SelectSeq(out, Unknown) = SelectSeq(IntelCandidates, Unknown)

\* domestic_intel.rs, trust model: "Local observation always outranks hearsay. A
\* first-hand result beats any number of remote claims": with one fresh local
\* result, the sign of the score is that result's.  It does not hold: the cap is
\* per name, and enough names outweigh LOCAL_WEIGHT.
LocalOutranksHearsay ==
  \A d \in IntelDevices, tr \in IntelTransports :
    LET own == {i \in DOMAIN intel[d] : intel[d][i].tr = tr /\ IsLocal(intel[d][i])
                                        /\ IsFresh(intel[d][i])}
    IN Cardinality(own) = 1 =>
         \A i \in own : intel[d][i].works <=> ScoreFrom(intel[d], tr) > 0
=============================================================================
