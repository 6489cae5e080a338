---------------------------- MODULE ReverseRelay ----------------------------
(***************************************************************************)
(* The reverse-tunnel engine: edge relays that dial out to the core, and   *)
(* the manager that keeps the health of the fallback transports and the    *)
(* list of tunnels (reverse_relay.rs, fallback_transport.rs).              *)
(*                                                                         *)
(* success_rate and avg_rtt_ms only rank the transports and decide the     *)
(* "success_rate > 0.3" test: the rank is any order that puts unavailable  *)
(* transports (score 0.0) last, the test is the flag good.                 *)
(*                                                                         *)
(* Health, tunnels and edges are behind different locks: connect_edge      *)
(* takes the chain, looks at each transport, establishes and records in a  *)
(* step each, handle_disconnect closes, marks, ranks and blames in a step  *)
(* each, and calls for one edge may cross.  establish_tunnel's push and    *)
(* the success it records concern different state and are one step.        *)
(***************************************************************************)
EXTENDS Integers, Sequences, SequencesExt, FiniteSets, FiniteSetsExt

CONSTANTS
  Edges, Kinds, NoKind, NoEdge,
  Dialers,      \* threads that connect edges
  MaxTunnels,   \* bound on the tunnels established
  MaxReports    \* bound on the outcomes and disconnects reported from outside

ASSUME RelayAssumption == /\ NoKind \notin Kinds /\ NoEdge \notin Edges
                          /\ MaxTunnels \in Nat /\ MaxReports \in Nat

VARIABLES
  health,     \* Kinds -> [available, failures, good]
  tunnels,    \* every tunnel ever established, oldest first
  relays,     \* Edges -> [healthy, transport]
  attempts,   \* Edges -> failed connects since the last success
  dialing,    \* thread -> its connect_edge or tick: [pc, edge, rest, kind, tunnel, todo, lost]
  dropping,   \* Edges -> what handle_disconnect does next: mark, rank, or blame a kind
  reports,    \* outcomes and disconnects reported from outside
  outdated    \* edges recorded by a connect whose tunnel was closed meanwhile (history)

relayVars == <<health, tunnels, relays, attempts, dialing, dropping, reports, outdated>>

\* The counter of failed attempts runs on in the code; its delay stops growing
\* at the 6th, and nothing else reads it.
MaxAttempts == 1

NotDialing ==
  [pc |-> "idle", edge |-> NoEdge, rest |-> <<>>, kind |-> NoKind, tunnel |-> 0,
   todo |-> {}, lost |-> FALSE]

KindHealth == [available : BOOLEAN, failures : 0..3, good : BOOLEAN]

RelayTypeOK ==
  /\ health \in [Kinds -> KindHealth]
  /\ tunnels \in Seq([edge : Edges, transport : Kinds, active : BOOLEAN])
  /\ relays \in [Edges -> [healthy : BOOLEAN, transport : Kinds \cup {NoKind}]]
  /\ attempts \in [Edges -> 0..MaxAttempts]
  /\ dropping \in [Edges -> {"none", "mark", "rank"} \cup Kinds]
  /\ \A t \in Dialers : dialing[t].todo \subseteq Edges /\ dialing[t].tunnel \in 0..Len(tunnels)

FreshHealth == [k \in Kinds |-> [available |-> TRUE, failures |-> 0, good |-> TRUE]]

RelayInit ==
  /\ health = FreshHealth
  /\ tunnels = <<>>
  /\ relays = [e \in Edges |-> [healthy |-> TRUE, transport |-> NoKind]]
  /\ attempts = [e \in Edges |-> 0]
  /\ dialing = [t \in Dialers |-> NotDialing]
  /\ dropping = [e \in Edges |-> "none"] /\ reports = 0 /\ outdated = {}

-----------------------------------------------------------------------------
(* Health of one transport: what it may be after a success or a failure.   *)
(* A failure may take the rate to 0.3 or below, a success may lift it      *)
(* over, and a success never lowers a good rate.                           *)

AfterSuccess(h) ==
  {[available |-> TRUE, failures |-> 0, good |-> g] :
      g \in IF h.good THEN {TRUE} ELSE BOOLEAN}

\* The counter runs on past 3 in the code; nothing tells 3 from more.
AfterFailure(h) ==
  LET n == IF h.failures = 3 THEN 3 ELSE h.failures + 1 IN
  {[available |-> h.available /\ n < 3, failures |-> n, good |-> g] :
      g \in IF h.good THEN BOOLEAN ELSE {FALSE}}

\* fallback_chain: every order with the unavailable transports at the end.
Chains(hs) ==
  {c \in SetToSeqs(Kinds) : \A i, j \in 1..Len(c) :
      hs[c[i]].available /\ ~hs[c[j]].available => i < j}

\* Mutant of Usable: availability is not asked for.
UsableUnlessLow(h) == h.good

Usable(h) == h.available /\ h.good

\* A dialer that has checked k before it went out of service (history).
Losing(k) ==
  [t \in Dialers |-> IF dialing[t].pc = "establish" /\ dialing[t].kind = k
                      THEN [dialing[t] EXCEPT !.lost = TRUE] ELSE dialing[t]]

RecordSuccess(k) ==
  /\ reports < MaxReports /\ reports' = reports + 1
  /\ \E h \in AfterSuccess(health[k]) : health' = [health EXCEPT ![k] = h]
  /\ UNCHANGED <<tunnels, relays, attempts, dialing, dropping, outdated>>

ChargeFailure(k) ==
  \E h \in AfterFailure(health[k]) :
    /\ health' = [health EXCEPT ![k] = h]
    /\ dialing' = IF h.available THEN dialing ELSE Losing(k)

RecordFailure(k) ==
  /\ reports < MaxReports /\ reports' = reports + 1
  /\ ChargeFailure(k)
  /\ UNCHANGED <<tunnels, relays, attempts, dropping, outdated>>

\* close_tunnel closes the oldest tunnel of the edge, closed already or not.
CloseTunnel(e) ==
  LET mine == {i \in 1..Len(tunnels) : tunnels[i].edge = e} IN
  IF mine = {} THEN tunnels ELSE [tunnels EXCEPT ![Min(mine)].active = FALSE]

-----------------------------------------------------------------------------
(* connect_edge, called directly or by tick for one edge after another.    *)

Dial(t, e, todo) == [dialing EXCEPT ![t] = [NotDialing EXCEPT !.pc = "chain", !.edge = e, !.todo = todo]]

\* The call returns; a tick turns to the next of its edges.
Dialed(t) ==
  IF dialing[t].todo = {} THEN dialing' = [dialing EXCEPT ![t] = NotDialing]
  ELSE \E e \in dialing[t].todo : dialing' = Dial(t, e, dialing[t].todo \ {e})

Connect(t, e) ==
  /\ dialing[t].pc = "idle"
  /\ dialing' = Dial(t, e, {})
  /\ UNCHANGED <<health, tunnels, relays, attempts, dropping, reports, outdated>>

\* tick takes the unhealthy edges and those not seen for two minutes.
TickStart(t) ==
  /\ dialing[t].pc = "idle"
  /\ \E stale \in SUBSET Edges :
       LET todo == stale \cup {e \in Edges : ~relays[e].healthy}
       IN IF todo = {} THEN UNCHANGED dialing
          ELSE \E e \in todo : dialing' = Dial(t, e, todo \ {e})
  /\ UNCHANGED <<health, tunnels, relays, attempts, dropping, reports, outdated>>

\* auto_failover takes the chain ...
TakeChain(t) ==
  /\ dialing[t].pc = "chain"
  /\ \E c \in Chains(health) : dialing' = [dialing EXCEPT ![t].pc = "check", ![t].rest = c]
  /\ UNCHANGED <<health, tunnels, relays, attempts, dropping, reports, outdated>>

\* ... and looks at one transport after the other for a usable one.
CheckKind(t) ==
  LET k == Head(dialing[t].rest)
  IN /\ dialing[t].pc = "check" /\ dialing[t].rest # <<>>
     /\ dialing' = [dialing EXCEPT ![t] =
          IF Usable(health[k]) THEN [@ EXCEPT !.pc = "establish", !.kind = k, !.rest = <<>>]
          ELSE [@ EXCEPT !.rest = Tail(@)]]
     /\ UNCHANGED <<health, tunnels, relays, attempts, dropping, reports, outdated>>

\* None was: record_failed_attempt.
ConnectFails(t) ==
  LET e == dialing[t].edge
  IN /\ dialing[t].pc = "check" /\ dialing[t].rest = <<>>
     /\ attempts' = [attempts EXCEPT ![e] = Min({@ + 1, MaxAttempts})]
     /\ Dialed(t)
     /\ UNCHANGED <<health, tunnels, relays, dropping, reports, outdated>>

\* establish_tunnel.
EstablishTunnel(t) ==
  LET d == dialing[t]
  IN /\ d.pc = "establish" /\ Len(tunnels) < MaxTunnels
     /\ tunnels' = Append(tunnels, [edge |-> d.edge, transport |-> d.kind, active |-> TRUE])
     /\ \E h \in AfterSuccess(health[d.kind]) : health' = [health EXCEPT ![d.kind] = h]
     /\ dialing' = [dialing EXCEPT ![t].pc = "record", ![t].tunnel = Len(tunnels')]
     /\ UNCHANGED <<relays, attempts, dropping, reports, outdated>>

\* connect_edge once auto_failover has returned.
ConnectRecord(t) ==
  LET d == dialing[t]
  IN /\ d.pc = "record"
     /\ relays' = [relays EXCEPT ![d.edge] = [healthy |-> TRUE, transport |-> d.kind]]
     /\ attempts' = [attempts EXCEPT ![d.edge] = 0]
     /\ outdated' = IF tunnels[d.tunnel].active THEN outdated \ {d.edge} ELSE outdated \cup {d.edge}
     /\ Dialed(t)
     /\ UNCHANGED <<health, tunnels, dropping, reports>>

\* register_edge, for an edge seen before as well: the record starts anew.
RegisterEdge(e) ==
  /\ relays' = [relays EXCEPT ![e] = [healthy |-> TRUE, transport |-> NoKind]]
  /\ outdated' = outdated \ {e}
  /\ UNCHANGED <<health, tunnels, attempts, dialing, dropping, reports>>

Heartbeat(e, ok) ==
  /\ relays' = [relays EXCEPT ![e].healthy = ok]
  /\ UNCHANGED <<health, tunnels, attempts, dialing, dropping, reports, outdated>>

\* Mutant of RelayDown: the transport is still reported.
RelayDownHalf(e) == [relays EXCEPT ![e].healthy = FALSE]

RelayDown(e) == [relays EXCEPT ![e] = [healthy |-> FALSE, transport |-> NoKind]]

\* handle_disconnect closes the tunnel, ...
HandleDisconnect(e) ==
  /\ dropping[e] = "none"
  /\ reports < MaxReports /\ reports' = reports + 1
  /\ tunnels' = CloseTunnel(e)
  /\ dropping' = [dropping EXCEPT ![e] = "mark"]
  /\ UNCHANGED <<health, relays, attempts, dialing, outdated>>

\* ... marks the edge down, ...
DisconnectMark(e) ==
  /\ dropping[e] = "mark"
  /\ dropping' = [dropping EXCEPT ![e] = "rank"]
  /\ relays' = RelayDown(e)
  /\ outdated' = outdated \ {e}
  /\ UNCHANGED <<health, tunnels, attempts, dialing, reports>>

\* ... takes the head of the chain ...
DisconnectRank(e) ==
  /\ dropping[e] = "rank"
  /\ \E c \in Chains(health) : dropping' = [dropping EXCEPT ![e] = c[1]]
  /\ UNCHANGED <<health, tunnels, relays, attempts, dialing, reports, outdated>>

\* ... and records a failure for it.
DisconnectBlame(e) ==
  /\ dropping[e] \in Kinds
  /\ ChargeFailure(dropping[e])
  /\ dropping' = [dropping EXCEPT ![e] = "none"]
  /\ UNCHANGED <<tunnels, relays, attempts, reports, outdated>>

DialStep(t) ==
  \/ TakeChain(t) \/ CheckKind(t) \/ ConnectFails(t) \/ EstablishTunnel(t) \/ ConnectRecord(t)

RelayNext ==
  \/ \E k \in Kinds : RecordSuccess(k) \/ RecordFailure(k)
  \/ \E t \in Dialers : DialStep(t) \/ TickStart(t) \/ \E e \in Edges : Connect(t, e)
  \/ \E e \in Edges :
       \/ RegisterEdge(e) \/ HandleDisconnect(e)
       \/ DisconnectMark(e) \/ DisconnectRank(e) \/ DisconnectBlame(e)
  \/ \E e \in Edges, ok \in BOOLEAN : Heartbeat(e, ok)

-----------------------------------------------------------------------------
(* What must hold.                                                         *)

LiveTunnel(e, k) ==
  \E i \in 1..Len(tunnels) : tunnels[i] = [edge |-> e, transport |-> k, active |-> TRUE]

\* The transport an edge reports as active has a live tunnel of that edge.  It
\* does not hold: active_transport is set and cleared under another lock than
\* the tunnel, so a disconnect that falls into a connect leaves it behind.
ActiveTransportLive ==
  \A e \in Edges : relays[e].transport # NoKind => LiveTunnel(e, relays[e].transport)

\* What connect_edge and handle_disconnect keep of it, whatever reconnects,
\* disconnects and registrations came before: a transport reported without a
\* live tunnel is that of an edge whose disconnect is between closing the tunnel
\* and marking the edge, or of a connect whose tunnel was closed before it
\* recorded the edge; the edge's next disconnect, connect or registration ends
\* the latter.
ReportedTransportUp ==
  \A e \in Edges :
    \/ relays[e].transport = NoKind
    \/ LiveTunnel(e, relays[e].transport)
    \/ dropping[e] = "mark"
    \/ e \in outdated

\* A tunnel is opened over a transport that three failures have taken out of
\* service only if the third came between the check of auto_failover and the
\* tunnel: establish_tunnel does not look again and puts it back in service.
NoTunnelOverDeadKind ==
  [][\A t \in Dialers : Len(tunnels') > Len(tunnels) /\ dialing[t].pc = "establish"
                                                   /\ dialing'[t].pc = "record"
        => health[dialing[t].kind].available \/ dialing[t].lost]_relayVars

\* handle_disconnect: "Record failure for current transport to drive
\* fallback": the failure is charged to the transport the edge was using.  It
\* does not hold: the head of the chain is charged.
DisconnectBlamesCurrent ==
  [][\A e \in Edges : dropping[e] = "mark" /\ dropping'[e] = "rank" /\ relays[e].transport # NoKind
        => \A c \in Chains(health) : c[1] = relays[e].transport]_relayVars
=============================================================================
