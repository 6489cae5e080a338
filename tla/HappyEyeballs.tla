---------------------------- MODULE HappyEyeballs ---------------------------
(***************************************************************************)
(* The staggered connection race of happy_eyeballs.rs: one thread per      *)
(* candidate waits its turn, probes unless the race is over and sends its  *)
(* outcome; the caller takes the first success, cancels the others, drains *)
(* the channel for a while, joins every thread and collects what is left.  *)
(* Time is nondeterministic: a stagger delay, a probe, the overall         *)
(* deadline and the 10 ms drain may each end at any point.                 *)
(***************************************************************************)
EXTENDS Integers, Sequences, SequencesExt, FiniteSets, FiniteSetsExt

CONSTANT EyeCandidates   \* [id, ipv6, priority], in the caller's order

ASSUME EyeAssumption == EyeCandidates \in Seq([id : STRING, ipv6 : BOOLEAN, priority : Nat])

VARIABLES
  threads,     \* 1..N -> "waiting", "probing", "sent" or "quit"
  channel,     \* outcomes sent and not received: [cand, success]
  cancelled,
  caller,      \* "racing", "draining", "joining" or "done"
  probeOutcomes, \* all_outcomes
  winner       \* the winning outcome, or {}

eyeVars == <<threads, channel, cancelled, caller, probeOutcomes, winner>>

\* race sorts stably: IPv6 first, then by ascending priority.
Precedes(a, b) ==
  IF EyeCandidates[a].ipv6 # EyeCandidates[b].ipv6 THEN EyeCandidates[a].ipv6
  ELSE \/ EyeCandidates[a].priority < EyeCandidates[b].priority
       \/ EyeCandidates[a].priority = EyeCandidates[b].priority /\ a < b

Order == SetToSortSeq(DOMAIN EyeCandidates, Precedes)

Turns == DOMAIN Order

EyeTypeOK ==
  /\ threads \in [Turns -> {"waiting", "probing", "sent", "quit"}]
  /\ channel \in Seq([cand : Turns, success : BOOLEAN])
  /\ probeOutcomes \in Seq([cand : Turns, success : BOOLEAN])
  /\ cancelled \in BOOLEAN
  /\ caller \in {"racing", "draining", "joining", "done"}
  /\ Cardinality(winner) <= 1

EyeInit ==
  /\ threads = [t \in Turns |-> "waiting"]
  /\ channel = <<>> /\ probeOutcomes = <<>> /\ winner = {}
  /\ cancelled = FALSE /\ caller = "racing"

-----------------------------------------------------------------------------
\* The delay is the stagger times the turn: a thread never starts before the
\* thread of the turn before it has.
StartProbe(t) ==
  /\ threads[t] = "waiting" /\ ~cancelled
  /\ \A u \in 1..(t - 1) : threads[u] # "waiting"
  /\ threads' = [threads EXCEPT ![t] = "probing"]
  /\ UNCHANGED <<channel, cancelled, caller, probeOutcomes, winner>>

QuitProbe(t) ==
  /\ threads[t] = "waiting" /\ cancelled
  /\ threads' = [threads EXCEPT ![t] = "quit"]
  /\ UNCHANGED <<channel, cancelled, caller, probeOutcomes, winner>>

\* A probe ends either way; one that notices the cancellation fails.
SendOutcome(t, ok) ==
  /\ threads[t] = "probing"
  /\ threads' = [threads EXCEPT ![t] = "sent"]
  /\ channel' = Append(channel, [cand |-> t, success |-> ok])
  /\ UNCHANGED <<cancelled, caller, probeOutcomes, winner>>

Take == /\ channel # <<>>
        /\ probeOutcomes' = Append(probeOutcomes, Head(channel))
        /\ channel' = Tail(channel)

ReceiveWinner ==
  /\ caller = "racing"
  /\ Take
  /\ Head(channel).success
  /\ winner' = {Head(channel)}
  /\ cancelled' = TRUE
  /\ caller' = "draining"
  /\ UNCHANGED threads

\* Mutant of ReceiveLoser: the first success is recorded like any outcome.
ReceiveAny ==
  /\ caller = "racing"
  /\ Take
  /\ UNCHANGED <<threads, cancelled, caller, winner>>

ReceiveLoser ==
  /\ caller = "racing"
  /\ Take
  /\ ~Head(channel).success
  /\ UNCHANGED <<threads, cancelled, caller, winner>>

ReceiveExtra ==
  /\ caller = "draining"
  /\ Take
  /\ UNCHANGED <<threads, cancelled, caller, winner>>

\* The overall deadline, a disconnected channel, or 10 ms without an outcome.
StopReceiving ==
  /\ caller \in {"racing", "draining"}
  /\ caller' = "joining"
  /\ UNCHANGED <<threads, channel, cancelled, probeOutcomes, winner>>

\* Mutant of AllJoined: the probe threads are not joined.
AllJoinedNot == TRUE

AllJoined == \A t \in Turns : threads[t] \in {"sent", "quit"}

Fresh == SelectSeq(channel, LAMBDA o : \A i \in DOMAIN probeOutcomes : probeOutcomes[i].cand # o.cand)

\* Every thread is joined, then the channel is emptied without waiting.
JoinAndCollect ==
  /\ caller = "joining"
  /\ AllJoined
  /\ probeOutcomes' = probeOutcomes \o Fresh
  /\ channel' = <<>>
  /\ caller' = "done"
  /\ UNCHANGED <<threads, cancelled, winner>>

EyeNext ==
  \/ \E t \in Turns : StartProbe(t) \/ QuitProbe(t)
  \/ \E t \in Turns, ok \in BOOLEAN : SendOutcome(t, ok)
  \/ ReceiveWinner \/ ReceiveLoser \/ ReceiveExtra
  \/ StopReceiving \/ JoinAndCollect

-----------------------------------------------------------------------------
\* When race returns, every candidate that was ever probed is reported exactly
\* once, whichever of the three receive loops picked its outcome up, and a
\* candidate that was cancelled while waiting is not reported at all.
ProbedReportedOnce ==
  caller = "done" =>
    \A t \in Turns : Cardinality({i \in DOMAIN probeOutcomes : probeOutcomes[i].cand = t})
                       = IF threads[t] = "sent" THEN 1 ELSE 0

\* The winner is the first success among the outcomes, and a winner means the
\* candidates still waiting were cancelled.
WinnerIsFirstSuccess ==
  winner # {} =>
    LET good == {i \in DOMAIN probeOutcomes : probeOutcomes[i].success}
    IN cancelled /\ good # {} /\ probeOutcomes[Min(good)] \in winner

\* race is documented to "return first successful outcome (if any) and all
\* outcomes": with a success among the outcomes there is a winner.
WinnerIfAnySuccess ==
  caller = "done" /\ (\E i \in DOMAIN probeOutcomes : probeOutcomes[i].success) => winner # {}
=============================================================================
