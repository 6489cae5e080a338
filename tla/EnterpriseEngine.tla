-------------------------- MODULE EnterpriseEngine --------------------------
(***************************************************************************)
(* The engine's tick (core-supervisor/src/enterprise.rs) over the parts it *)
(* changes: it reacts to the blackout signal, outside Normal walks the     *)
(* deterministic fallback chain (deterministic_fallback.rs), and then lets *)
(* the reverse relay reconnect its edges.  The chain has a tunnel manager  *)
(* of its own: what it learns of a transport the relay does not know.  The *)
(* anomaly detector, the race and the statistics of a tick change nothing  *)
(* that the rest of it reads.  Ticks take &self, so they may overlap.      *)
(***************************************************************************)
EXTENDS ReverseRelay

CONSTANTS
  MaxEngineTicks,   \* bound on the ticks made
  MaxChainFailures, \* bound on the failures others record with the chain's manager
  MaxChainTunnels   \* bound on the tunnels the chain establishes

VARIABLES
  chainHealth,    \* the health of the chain's own manager
  chainTunnels,   \* tunnels the chain has established for "edge-auto"
  chainSteps,     \* steps: Kinds -> [tried, success]
  ticks,          \* thread -> its tick: [pc, rest, kind, ok]
  reported,       \* thread -> [winner, steps, complete] of its last fallback, or {}
  engineTicks,    \* ticks made
  chainFailures,  \* failures recorded from outside
  disturbed       \* threads whose fallback another one overlapped (history)

chainVars == <<chainHealth, chainTunnels, chainSteps, ticks, reported, engineTicks, chainFailures, disturbed>>
engineVars == <<chainVars, relayVars>>

NotTried == [k \in Kinds |-> [tried |-> FALSE, success |-> FALSE]]
NotTicking == [pc |-> "idle", rest |-> <<>>, kind |-> NoKind, ok |-> FALSE]

ChainInit ==
  /\ chainHealth = FreshHealth /\ chainTunnels = 0 /\ chainSteps = NotTried
  /\ ticks = [t \in Dialers |-> NotTicking] /\ reported = [t \in Dialers |-> {}]
  /\ engineTicks = 0 /\ chainFailures = 0 /\ disturbed = {}

EngineInit == RelayInit /\ ChainInit

EngineTypeOK ==
  /\ chainHealth \in [Kinds -> KindHealth] /\ chainTunnels \in 0..MaxChainTunnels
  /\ chainSteps \in [Kinds -> [tried : BOOLEAN, success : BOOLEAN]]
  /\ \A t \in Dialers : Cardinality(reported[t]) <= 1

----------------------------------------------------------------------------
(* Every step of the chain leaves the relay alone.                         *)

Goto(t, pc) == ticks' = [ticks EXCEPT ![t].pc = pc]

InFallback == {t \in Dialers : ticks[t].pc \in {"chain", "try", "establish", "charge", "note", "return"}}

\* react_fast says how bad it is; outside Normal, fallback first forgets the last walk.
EngineTick(t, normal) ==
  /\ ticks[t].pc = "idle" /\ engineTicks < MaxEngineTicks
  /\ engineTicks' = engineTicks + 1
  /\ Goto(t, IF normal THEN "relay" ELSE "chain")
  /\ chainSteps' = IF normal THEN chainSteps ELSE NotTried
  /\ disturbed' = IF normal THEN disturbed
                  ELSE IF InFallback = {} THEN disturbed \ {t} ELSE disturbed \cup InFallback \cup {t}
  /\ UNCHANGED <<chainHealth, chainTunnels, reported, chainFailures, relayVars>>

FallbackChain(t) ==
  /\ ticks[t].pc = "chain"
  /\ \E c \in Chains(chainHealth) : ticks' = [ticks EXCEPT ![t].pc = "try", ![t].rest = c]
  /\ UNCHANGED <<chainHealth, chainTunnels, chainSteps, reported, engineTicks, chainFailures, disturbed, relayVars>>

\* try_transport looks at the health of the next transport ...
TryTransport(t) ==
  LET k == Head(ticks[t].rest)
      h == chainHealth[k]
  IN /\ ticks[t].pc = "try" /\ ticks[t].rest # <<>>
     /\ ticks' = [ticks EXCEPT ![t] = [@ EXCEPT !.kind = k, !.ok = Usable(h), !.rest = Tail(@),
                    !.pc = IF Usable(h) THEN "establish" ELSE IF h.available THEN "charge" ELSE "note"]]
     /\ UNCHANGED <<chainHealth, chainTunnels, chainSteps, reported, engineTicks, chainFailures, disturbed, relayVars>>

\* ... and establishes a tunnel over it, or charges it for its low rate.
ChainEstablish(t) ==
  LET k == ticks[t].kind
  IN /\ ticks[t].pc = "establish" /\ chainTunnels < MaxChainTunnels
     /\ chainTunnels' = chainTunnels + 1
     /\ \E h \in AfterSuccess(chainHealth[k]) : chainHealth' = [chainHealth EXCEPT ![k] = h]
     /\ Goto(t, "note")
     /\ UNCHANGED <<chainSteps, reported, engineTicks, chainFailures, disturbed, relayVars>>

ChainCharge(t) ==
  LET k == ticks[t].kind
  IN /\ ticks[t].pc = "charge"
     /\ \E h \in AfterFailure(chainHealth[k]) : chainHealth' = [chainHealth EXCEPT ![k] = h]
     /\ Goto(t, "note")
     /\ UNCHANGED <<chainTunnels, chainSteps, reported, engineTicks, chainFailures, disturbed, relayVars>>

\* Mutant of NoteStep: a walk that fails leaves the steps as they are.
NoteStepOnSuccess(t) ==
  /\ ticks[t].pc = "note"
  /\ chainSteps' = IF ticks[t].ok THEN [chainSteps EXCEPT ![ticks[t].kind] = [tried |-> TRUE, success |-> TRUE]]
                   ELSE chainSteps
  /\ Goto(t, IF ticks[t].ok THEN "return" ELSE "try")
  /\ UNCHANGED <<chainHealth, chainTunnels, reported, engineTicks, chainFailures, disturbed, relayVars>>

NoteStep(t) ==
  /\ ticks[t].pc = "note"
  /\ chainSteps' = [chainSteps EXCEPT ![ticks[t].kind] = [tried |-> TRUE, success |-> ticks[t].ok]]
  /\ Goto(t, IF ticks[t].ok THEN "return" ELSE "try")
  /\ UNCHANGED <<chainHealth, chainTunnels, reported, engineTicks, chainFailures, disturbed, relayVars>>

\* The walk ends with a winner, at the end of the chain, or once a transport
\* has been tried and the 200 ms are over.
FallbackReturn(t) ==
  LET x == ticks[t]
  IN /\ x.pc = "return" \/ (x.pc = "try" /\ (x.rest = <<>> \/ x.kind # NoKind))
     /\ reported' = [reported EXCEPT ![t] = {[winner |-> IF x.pc = "return" THEN x.kind ELSE NoKind,
                                              steps |-> chainSteps, complete |-> x.rest = <<>>]}]
     /\ ticks' = [ticks EXCEPT ![t] = [NotTicking EXCEPT !.pc = "relay"]]
     /\ UNCHANGED <<chainHealth, chainTunnels, chainSteps, engineTicks, chainFailures, disturbed, relayVars>>

\* The relay's tick, and the end of the engine's.
RelayTick(t) ==
  /\ ticks[t].pc = "relay" /\ TickStart(t) /\ Goto(t, "relaying")
  /\ UNCHANGED <<chainHealth, chainTunnels, chainSteps, reported, engineTicks, chainFailures, disturbed>>

EngineTickEnds(t) ==
  /\ ticks[t].pc = "relaying" /\ dialing[t].pc = "idle" /\ Goto(t, "idle")
  /\ UNCHANGED <<chainHealth, chainTunnels, chainSteps, reported, engineTicks, chainFailures, disturbed, relayVars>>

\* manager().record_failure, from outside and between the ticks.
ChainRecordFailure(k) ==
  /\ \A t \in Dialers : ticks[t].pc = "idle"
  /\ chainFailures < MaxChainFailures
  /\ chainFailures' = chainFailures + 1
  /\ \E h \in AfterFailure(chainHealth[k]) : chainHealth' = [chainHealth EXCEPT ![k] = h]
  /\ UNCHANGED <<chainTunnels, chainSteps, ticks, reported, engineTicks, disturbed, relayVars>>

EngineStep(t) ==
  \/ \E normal \in BOOLEAN : EngineTick(t, normal)
  \/ FallbackChain(t) \/ TryTransport(t) \/ ChainEstablish(t) \/ ChainCharge(t) \/ NoteStep(t)
  \/ FallbackReturn(t) \/ RelayTick(t) \/ EngineTickEnds(t)
  \/ DialStep(t) /\ UNCHANGED chainVars

EngineNext ==
  \/ \E t \in Dialers : EngineStep(t)
  \/ \E k \in Kinds : ChainRecordFailure(k)

----------------------------------------------------------------------------
\* A fallback's answer and the steps it returns tell one story: the winner is the
\* one step that succeeded, without a winner none did, and then every transport
\* was tried unless the budget ended the walk.  Overlapping fallbacks share the
\* steps and are excepted: each erases what the other has noted.
StepsExplainWinner ==
  \A t \in Dialers \ disturbed : \A r \in reported[t] :
    /\ {k \in Kinds : r.steps[k].success} = {r.winner} \ {NoKind}
    /\ r.winner = NoKind /\ r.complete => \A k \in Kinds : r.steps[k].tried
    /\ r.winner # NoKind => r.steps[r.winner].tried
=============================================================================
