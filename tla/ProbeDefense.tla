----------------------------- MODULE ProbeDefense ---------------------------
(***************************************************************************)
(* The active-probing defence (core-supervisor/src/active_defense.rs and   *)
(* active_probing_honeypot.rs).  handle adds a connection's hellos to its  *)
(* source, reads the total back under another lock, counts the verdict,    *)
(* picks a decoy and counts the interception: five steps per connection.   *)
(***************************************************************************)
EXTENDS Integers, FiniteSets, FiniteSetsExt

CONSTANTS
  Sources, Handlers, MaxHellos,   \* hellos one source may send in all
  Decoys          \* endpoint -> priority

VARIABLES
  probeSources,   \* probe_sources: hellos seen per source
  incomplete,     \* hellos a source sent on connections that never completed
  blockedSources, \* blocked_sources: interceptions per source
  defenseStats,   \* total_probes, intercepted_count, legitimate_count
  decoyHealthy,   \* endpoints that are healthy
  handler         \* per thread: [pc, src, verdict, decoy]

defenseVars == <<probeSources, incomplete, blockedSources, defenseStats, decoyHealthy, handler>>

NoVerdict == "none"
HandlerIdle == [pc |-> "idle", src |-> CHOOSE s \in Sources : TRUE, verdict |-> NoVerdict, decoy |-> {}]

DefenseTypeOK ==
  /\ probeSources \in [Sources -> 0..MaxHellos] /\ decoyHealthy \subseteq DOMAIN Decoys
  /\ \A t \in Handlers : handler[t].verdict \in {NoVerdict, "Legitimate", "Probe", "Uncertain"}

DefenseInit ==
  /\ probeSources = [s \in Sources |-> 0] /\ incomplete = [s \in Sources |-> 0]
  /\ blockedSources = [s \in Sources |-> 0]
  /\ defenseStats = [probes |-> 0, intercepted |-> 0, legitimate |-> 0]
  /\ decoyHealthy = DOMAIN Decoys /\ handler = [t \in Handlers |-> HandlerIdle]

SetDecoyHealthy(d, h) ==
  /\ decoyHealthy' = IF h THEN decoyHealthy \cup {d} ELSE decoyHealthy \ {d}
  /\ UNCHANGED <<probeSources, incomplete, blockedSources, defenseStats, handler>>

\* detect_probe: a completed handshake is legitimate whatever the source sent before.
TrackSource(t, s, n, completed) ==
  /\ handler[t].pc = "idle" /\ probeSources[s] + n <= MaxHellos
  /\ probeSources' = [probeSources EXCEPT ![s] = @ + n]
  /\ incomplete' = IF completed THEN incomplete ELSE [incomplete EXCEPT ![s] = @ + n]
  /\ handler' = [handler EXCEPT ![t] =
       [pc |-> IF completed THEN "honeypot" ELSE "judge", src |-> s, decoy |-> {},
        verdict |-> IF completed THEN "Legitimate" ELSE NoVerdict]]
  /\ UNCHANGED <<blockedSources, defenseStats, decoyHealthy>>

\* Mutant of Verdict: three hellos are enough.
VerdictEager(count) == IF count >= 3 THEN "Probe" ELSE "Uncertain"

Verdict(count) == IF count > 3 THEN "Probe" ELSE "Uncertain"

JudgeSource(t) ==
  LET v == Verdict(probeSources[handler[t].src])
  IN /\ handler[t].pc = "judge"
     /\ defenseStats' = IF v = "Probe" THEN [defenseStats EXCEPT !.probes = @ + 1] ELSE defenseStats
     /\ handler' = [handler EXCEPT ![t].pc = "honeypot", ![t].verdict = v]
     /\ UNCHANGED <<probeSources, incomplete, blockedSources, decoyHealthy>>

\* handle_connection: count first, then look for a decoy.
CountConnection(t) ==
  /\ handler[t].pc = "honeypot"
  /\ defenseStats' = IF handler[t].verdict = "Legitimate"
                     THEN [defenseStats EXCEPT !.legitimate = @ + 1]
                     ELSE [defenseStats EXCEPT !.intercepted = @ + 1]
  /\ handler' = [handler EXCEPT ![t] = IF @.verdict = "Legitimate" THEN HandlerIdle ELSE [@ EXCEPT !.pc = "decoy"]]
  /\ UNCHANGED <<probeSources, incomplete, blockedSources, decoyHealthy>>

\* best_endpoint: among the healthy ones of the lowest priority value (any of them).
BestEndpoint ==
  {d \in decoyHealthy : \A e \in decoyHealthy : Decoys[d] <= Decoys[e]}

PickDecoy(t) ==
  /\ handler[t].pc = "decoy"
  /\ \E d \in IF BestEndpoint = {} THEN {{}} ELSE {{b} : b \in BestEndpoint} :
       handler' = [handler EXCEPT ![t].pc = "block", ![t].decoy = d]
  /\ UNCHANGED <<probeSources, incomplete, blockedSources, defenseStats, decoyHealthy>>

\* Mutant of BlockSource: only a probe is recorded.
BlockSourceProbes(t) ==
  /\ handler[t].pc = "block"
  /\ blockedSources' = IF handler[t].verdict = "Probe"
                       THEN [blockedSources EXCEPT ![handler[t].src] = @ + 1] ELSE blockedSources
  /\ handler' = [handler EXCEPT ![t] = HandlerIdle]
  /\ UNCHANGED <<probeSources, incomplete, defenseStats, decoyHealthy>>

\* handle records every interception against its source.
BlockSource(t) ==
  /\ handler[t].pc = "block"
  /\ blockedSources' = [blockedSources EXCEPT ![handler[t].src] = @ + 1]
  /\ handler' = [handler EXCEPT ![t] = HandlerIdle]
  /\ UNCHANGED <<probeSources, incomplete, defenseStats, decoyHealthy>>

DefenseNext ==
  \/ \E d \in DOMAIN Decoys, h \in BOOLEAN : SetDecoyHealthy(d, h)
  \/ \E t \in Handlers :
       \/ \E s \in Sources, n \in 1..2, c \in BOOLEAN : TrackSource(t, s, n, c)
       \/ JudgeSource(t) \/ CountConnection(t) \/ PickDecoy(t) \/ BlockSource(t)

----------------------------------------------------------------------------
(* Interceptions are attributed: the honeypot's counter is the sum of what *)
(* is recorded against the sources and of the connections between the two  *)
(* counters.                                                               *)
InterceptionsAttributed ==
  defenseStats.intercepted =
    MapThenSumSet(LAMBDA s : blockedSources[s], Sources)
      + Cardinality({t \in Handlers : handler[t].pc \in {"decoy", "block"}})

(* "First few incomplete hellos" are uncertain: a source is called a probe *)
(* only after more than three hellos, also when two of its connections are *)
(* judged at the same time.                                                *)
ProbeNeedsHellos ==
  \A t \in Handlers : handler[t].verdict = "Probe" => probeSources[handler[t].src] > 3

(* "If many hellos without handshake -> probe": the hellos of a source     *)
(* called a probe include more than three that never completed a           *)
(* handshake.                                                              *)
ProbeOnlyIncomplete ==
  \A t \in Handlers : handler[t].verdict = "Probe" => incomplete[handler[t].src] > 3
=============================================================================
