--------------------------- MODULE TransportRace ---------------------------
(***************************************************************************)
(* connect_tcp of core-supervisor/src/tor.rs and the concurrent race over   *)
(* it of core-supervisor/src/multipath.rs.  A script is what one endpoint's *)
(* network does: how long the lookup takes, and for each address how the    *)
(* connection attempt ends and after how long.  Time is counted in ticks.   *)
(***************************************************************************)
EXTENDS Integers, SequencesExt, FiniteSets

CONSTANTS Racers,         \* the transports raced, a sequence of names
          Scripts,        \* [lookup, fails, addresses] records
          ConnectTimeout, \* ConnectOptions::timeout
          RaceTimeout     \* the timeout argument of race()

ASSUME RaceAssumption == ConnectTimeout \in Nat \ {0} /\ RaceTimeout \in Nat

VARIABLES raceClock, \* Instant::now() since the race began
          racePc,    \* where the calling thread is
          attempt,   \* per transport: what its connect() returns, and when
          channel,   \* the mpsc channel
          sent,      \* worker threads that have sent and ended
          attempts,  \* outcome.attempts
          winner     \* outcome.winner, a set of at most one transport

raceVars == <<raceClock, racePc, attempt, channel, sent, attempts, winner>>

RacerNames == ToSet(Racers)

\* Mutant of TryAddress: each address gets the whole timeout again.
TryAddressAnew(state, address) ==
    IF state.result # "trying" THEN state
    ELSE [result |-> CASE address.how = "accepts" -> "connected"
                       [] address.how = "refuses" -> "refused"
                       [] address.how = "fails" -> "trying",
          at |-> state.at + (IF address.takes > ConnectTimeout THEN ConnectTimeout ELSE address.takes)]

\* One turn of connect_tcp's loop over the resolved addresses.
TryAddress(state, address) ==
    IF state.result # "trying" THEN state
    ELSE IF address.takes > ConnectTimeout - state.at
    THEN [result |-> "timeout", at |-> ConnectTimeout]
    ELSE [result |-> CASE address.how = "accepts" -> "connected"
                       [] address.how = "refuses" -> "refused"
                       [] address.how = "fails" -> "trying",
          at |-> state.at + address.takes]

\* connect_tcp: lookup under the timeout, then every address under what is
\* left of it; the round trip reported counts from before the lookup.
ConnectTcp(script) ==
    IF script.lookup > ConnectTimeout THEN [result |-> "timeout", at |-> ConnectTimeout]
    ELSE IF script.fails THEN [result |-> "dnsFailed", at |-> script.lookup]
    ELSE LET end == FoldLeft(TryAddress, [result |-> "trying", at |-> script.lookup],
                             script.addresses)
         IN IF end.result = "trying" THEN [end EXCEPT !.result = "ioError"] ELSE end

Established(t) == attempt[t].result = "connected"

RaceInit ==
    /\ raceClock = 0
    /\ racePc = "spawn"
    /\ attempt = [t \in RacerNames |-> [result |-> "trying", at |-> 0]]
    /\ channel = <<>>
    /\ sent = {}
    /\ attempts = <<>>
    /\ winner = {}

\* race(): one worker per transport.
RaceSpawn ==
    /\ racePc = "spawn"
    /\ \E script \in [RacerNames -> Scripts] :
          attempt' = [t \in RacerNames |-> ConnectTcp(script[t])]
    /\ racePc' = "receive"
    /\ UNCHANGED <<raceClock, channel, sent, attempts, winner>>

RaceSend(t) ==
    /\ racePc \in {"receive", "join"}
    /\ t \notin sent /\ raceClock >= attempt[t].at
    /\ channel' = Append(channel, t)
    /\ sent' = sent \union {t}
    /\ UNCHANGED <<raceClock, racePc, attempt, attempts, winner>>

\* Mutant of RaceReceive: messages that wait at the deadline are still taken.
RaceReceiveLate ==
    /\ racePc \in {"receive", "join"}
    /\ channel # <<>>
    /\ attempts' = Append(attempts, [name |-> Head(channel), established |-> Established(Head(channel))])
    /\ channel' = Tail(channel)
    /\ UNCHANGED <<raceClock, racePc, attempt, sent, winner>>

RaceReceive ==
    /\ racePc = "receive" /\ raceClock < RaceTimeout
    /\ channel # <<>>
    /\ attempts' = Append(attempts, [name |-> Head(channel), established |-> Established(Head(channel))])
    /\ channel' = Tail(channel)
    /\ UNCHANGED <<raceClock, racePc, attempt, sent, winner>>

\* The deadline, or every sender gone with nothing left to receive.
RaceStop ==
    /\ racePc = "receive"
    /\ raceClock >= RaceTimeout \/ (sent = RacerNames /\ channel = <<>>)
    /\ racePc' = "join"
    /\ UNCHANGED <<raceClock, attempt, channel, sent, attempts, winner>>

RaceTick ==
    /\ racePc \in {"receive", "join"}
    /\ sent # RacerNames
    /\ \A t \in RacerNames \ sent : raceClock < attempt[t].at
    /\ raceClock' = raceClock + 1
    /\ UNCHANGED <<racePc, attempt, channel, sent, attempts, winner>>

Attempted == {attempts[i].name : i \in DOMAIN attempts}

\* Mutant of Missing: every transport is recorded as late.
MissingAll == Racers

\* The transports recorded as having missed the deadline.
Missing == SelectSeq(Racers, LAMBDA t : t \notin Attempted)

\* Workers are joined, the lowest round trip wins, the first received on a tie.
RaceFinish ==
    /\ racePc = "join" /\ sent = RacerNames
    /\ LET connected == {i \in DOMAIN attempts : attempts[i].established}
           better(i, j) == \/ attempt[attempts[i].name].at < attempt[attempts[j].name].at
                           \/ attempt[attempts[i].name].at = attempt[attempts[j].name].at /\ i <= j
       IN winner' = {attempts[i].name : i \in {k \in connected : \A j \in connected : better(k, j)}}
    /\ attempts' = attempts \o [i \in DOMAIN Missing |-> [name |-> Missing[i], established |-> FALSE]]
    /\ racePc' = "done"
    /\ UNCHANGED <<raceClock, attempt, channel, sent>>

RaceNext ==
    \/ RaceSpawn
    \/ \E t \in RacerNames : RaceSend(t)
    \/ RaceReceive
    \/ RaceStop
    \/ RaceTick
    \/ RaceFinish

-----------------------------------------------------------------------------
RaceTypeOK ==
    /\ racePc \in {"spawn", "receive", "join", "done"}
    /\ raceClock \in 0..ConnectTimeout
    /\ sent \subseteq RacerNames
    /\ winner \subseteq RacerNames

\* Every transport is accounted for once in the outcome, whatever the order in
\* which the workers answered, missed the deadline or failed (race()).
EveryAttemptOnce ==
    racePc = "done" => /\ Attempted = RacerNames
                       /\ Len(attempts) = Cardinality(RacerNames)

\* The winner answered before the deadline and no transport that the outcome
\* shows as established beats it; there is a winner exactly when some transport
\* is shown as established (race(), min_by_key over what was received).
WinnerFastestInTime ==
    racePc = "done" =>
        LET shown == {attempts[i].name : i \in {j \in DOMAIN attempts : attempts[j].established}}
        IN /\ (winner = {}) = (shown = {})
           /\ \A w \in winner : /\ Established(w)
                                /\ attempt[w].at < RaceTimeout
                                /\ \A t \in shown : attempt[w].at <= attempt[t].at

\* A connect never outlasts its timeout, lookup and all addresses together
\* (connect_tcp re-reads the remaining time before each address).
ConnectWithinTimeout ==
    \A t \in RacerNames : attempt[t].at <= ConnectTimeout

\* "`timeout` bounds the whole race" (doc comment of race()).
RaceWithinTimeout == racePc = "done" => raceClock <= RaceTimeout
=============================================================================
