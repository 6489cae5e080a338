-------------------------- MODULE FrontingWhitelist -------------------------
(***************************************************************************)
(* The name whitelist, the fronting engine that picks an outer name from   *)
(* it and the in-TLS sessions opened under that name                       *)
(* (core-supervisor/src/sni_whitelist.rs, domain_fronting.rs, in_tls.rs).  *)
(* The whitelist keeps a set and a list of entries behind two locks: add   *)
(* releases the first before it takes the second, remove holds both.       *)
(***************************************************************************)
EXTENDS Integers, Sequences, SequencesExt, FiniteSets, FiniteSetsExt

CONSTANTS
  SniDefaults,    \* the whitelist's entries at construction
  SniOffered,     \* entries an operator may add
  FrontConfigs,   \* [front, real] pairs that may be configured
  RealHosts,
  Adders, Openers,
  MaxSessions

VARIABLES
  domainSet,      \* domain_set
  sniEntries,     \* entries, in insertion order
  frontConfigs,   \* active_configs
  adder,          \* per thread, the entries its add still has to put in the list
  opener,         \* per thread, establish in progress
  sequence,       \* total_sessions
  tlsSessions,    \* sessions, in the order they were pushed
  removedMidAdd   \* names removed between the two halves of their add (history)

frontVars == <<domainSet, sniEntries, frontConfigs, adder, opener, sequence, tlsSessions, removedMidAdd>>

Listed == {sniEntries[i].sni : i \in DOMAIN sniEntries}

FrontTypeOK ==
  /\ domainSet \subseteq {e.sni : e \in ToSet(SniDefaults) \cup SniOffered}
  /\ \A t \in Adders : Cardinality(adder[t]) <= 1
  /\ sequence \in 0..MaxSessions

NotOpening == [pc |-> "idle", real |-> "", outer |-> "", id |-> 0]

FrontInit ==
  /\ sniEntries = SniDefaults /\ domainSet = {e.sni : e \in ToSet(SniDefaults)}
  /\ frontConfigs = <<>>
  /\ adder = [t \in Adders |-> {}] /\ opener = [t \in Openers |-> NotOpening]
  /\ sequence = 0 /\ tlsSessions = <<>> /\ removedMidAdd = {}

\* Replace the first of the entries of that name, or append it.
Upsert(seq, e, hits) == IF hits = {} THEN Append(seq, e) ELSE [seq EXCEPT ![Min(hits)] = e]

\* Mutant of UpsertSni: appending without looking for an entry of that name.
UpsertSniAppends(e) == Append(sniEntries, e)

UpsertSni(e) == Upsert(sniEntries, e, {i \in DOMAIN sniEntries : sniEntries[i].sni = e.sni})

BeingAdded == {e.sni : e \in UNION {adder[t] : t \in Adders}}

AddToSet(t, e) ==
  /\ adder[t] = {}
  /\ domainSet' = domainSet \cup {e.sni}
  /\ adder' = [adder EXCEPT ![t] = {e}]
  /\ removedMidAdd' = removedMidAdd \ {e.sni}
  /\ UNCHANGED <<sniEntries, frontConfigs, opener, sequence, tlsSessions>>

AddToEntries(t) ==
  /\ adder[t] # {}
  /\ sniEntries' = UpsertSni(CHOOSE e \in adder[t] : TRUE)
  /\ adder' = [adder EXCEPT ![t] = {}]
  /\ UNCHANGED <<domainSet, frontConfigs, opener, sequence, tlsSessions, removedMidAdd>>

RemoveSni(s) ==
  /\ domainSet' = domainSet \ {s}
  /\ sniEntries' = SelectSeq(sniEntries, LAMBDA e : e.sni # s)
  /\ removedMidAdd' = IF s \in BeingAdded THEN removedMidAdd \cup {s} ELSE removedMidAdd \ {s}
  /\ UNCHANGED <<frontConfigs, adder, opener, sequence, tlsSessions>>

\* set_reachable; rotate_front marks the blocked front the same way.
SetReachable(s, r) ==
  /\ s \in Listed
  /\ LET i == Min({j \in DOMAIN sniEntries : sniEntries[j].sni = s})
     IN sniEntries' = [sniEntries EXCEPT ![i].reachable = r]
  /\ UNCHANGED <<domainSet, frontConfigs, adder, opener, sequence, tlsSessions, removedMidAdd>>

AddConfig(c) ==
  /\ frontConfigs' = Upsert(frontConfigs, c, {i \in DOMAIN frontConfigs : frontConfigs[i].front = c.front})
  /\ UNCHANGED <<domainSet, sniEntries, adder, opener, sequence, tlsSessions, removedMidAdd>>

----------------------------------------------------------------------------
ReachableEntries == {i \in DOMAIN sniEntries : sniEntries[i].reachable}

\* best_for_category: the lowest priority value, the earliest on a tie; {} when none.
BestForCategory(cats) ==
  LET inCat == {i \in ReachableEntries : sniEntries[i].category \in cats}
      cands == IF inCat = {} THEN ReachableEntries ELSE inCat
      better(i, j) == sniEntries[i].priority < sniEntries[j].priority
                      \/ (sniEntries[i].priority = sniEntries[j].priority /\ i <= j)
  IN {sniEntries[i].sni : i \in {i \in cands : \A j \in cands : better(i, j)}}

\* The configured front of a destination; {} when there is none.
ConfiguredFront(real) ==
  LET hits == {i \in DOMAIN frontConfigs : frontConfigs[i].real = real}
  IN IF hits = {} THEN {} ELSE {frontConfigs[Min(hits)].front}

\* fronted_handshake's choice: best_for_category already falls back to any name.
FrontChoice(real) ==
  IF ConfiguredFront(real) # {} THEN ConfiguredFront(real) ELSE BestForCategory({"Banking"})

\* establish, up to the outer name.
PickFront(t, real) ==
  /\ opener[t].pc = "idle" /\ FrontChoice(real) # {}
  /\ opener' = [opener EXCEPT ![t] = [pc |-> "picked", real |-> real, id |-> 0,
                                      outer |-> CHOOSE f \in FrontChoice(real) : TRUE]]
  /\ UNCHANGED <<domainSet, sniEntries, frontConfigs, adder, sequence, tlsSessions, removedMidAdd>>

\* A name that is not whitelisted ends the attempt (establish returns None).
CheckFront(t) ==
  /\ opener[t].pc = "picked"
  /\ opener' = [opener EXCEPT ![t] = IF opener[t].outer \in domainSet
                                     THEN [opener[t] EXCEPT !.pc = "valid"] ELSE NotOpening]
  /\ UNCHANGED <<domainSet, sniEntries, frontConfigs, adder, sequence, tlsSessions, removedMidAdd>>

\* Mutant of NextSequence: the sequence is the number of sessions already listed.
NextSequenceListed == Len(tlsSessions)

NextSequence == sequence

AllocateId(t) ==
  /\ opener[t].pc = "valid" /\ sequence < MaxSessions
  /\ sequence' = sequence + 1
  /\ opener' = [opener EXCEPT ![t].pc = "numbered", ![t].id = NextSequence]
  /\ UNCHANGED <<domainSet, sniEntries, frontConfigs, adder, tlsSessions, removedMidAdd>>

PushSession(t) ==
  /\ opener[t].pc = "numbered"
  /\ tlsSessions' = Append(tlsSessions, [id |-> opener[t].id, outer |-> opener[t].outer, inner |-> opener[t].real])
  /\ opener' = [opener EXCEPT ![t] = NotOpening]
  /\ UNCHANGED <<domainSet, sniEntries, frontConfigs, adder, sequence, removedMidAdd>>

FrontNext ==
  \/ \E t \in Adders : AddToEntries(t) \/ \E e \in SniOffered : AddToSet(t, e)
  \/ \E e \in ToSet(SniDefaults) \cup SniOffered :
       RemoveSni(e.sni) \/ \E r \in BOOLEAN : SetReachable(e.sni, r)
  \/ \E c \in FrontConfigs : AddConfig(c)
  \/ \E t \in Openers :
       \/ \E r \in RealHosts : PickFront(t, r)
       \/ CheckFront(t) \/ AllocateId(t) \/ PushSession(t)

----------------------------------------------------------------------------
(* Session ids are never reused: "concurrent successful handshakes cannot  *)
(* reuse one even within the same clock tick".                             *)
SessionIdsUnique ==
  \A i, j \in DOMAIN tlsSessions : tlsSessions[i].id = tlsSessions[j].id => i = j

(* is_whitelisted (the set) and list (the entries) name the same hosts     *)
(* whenever no add is under way.  It does not hold: a name removed between *)
(* the halves of its add stays listed though is_whitelisted refuses it.    *)
ListedIsWhitelisted == BeingAdded = {} => Listed = domainSet

(* What the two locks do keep: no host is listed twice, a whitelisted one  *)
(* is listed unless its add is under way, and a listed one is whitelisted  *)
(* unless it was removed between the halves of its last add, until the     *)
(* next add or remove of it (add, remove).                                 *)
WhitelistAgrees ==
  /\ domainSet \subseteq Listed \cup BeingAdded
  /\ Listed \subseteq domainSet \cup removedMidAdd
  /\ Cardinality(Listed) = Len(sniEntries)
=============================================================================
