---------------------------- MODULE ProbeCadence ----------------------------
(***************************************************************************)
(* The retry governor of core-supervisor/src/probe_cadence.rs.  Durations   *)
(* are milliseconds.  next_due is kept as the time left until it, which is  *)
(* all the code compares it by.  set_level and note_failure each take two   *)
(* locks one after the other, so each is two steps here; set_level has one  *)
(* caller at a time (&mut self in advanced_integration.rs), note_failure    *)
(* any number.  Below, sharing no state with it, the classifier of the      *)
(* isolation level.                                                         *)
(***************************************************************************)
EXTENDS Integers, FiniteSets

CONSTANTS CadenceTransports, \* names the probe loop asks about
          Percents,          \* outcomes of the jitter, within 75..125
          MaxBackoff,        \* bound on consecutive_failures
          MaxOutstanding     \* bound on the unreported probes of a transport

VARIABLES cadenceLevel, \* level
          known,        \* keys of transports
          failures,     \* consecutive_failures
          wait,         \* next_due minus now, 0 when due
          inFlight,     \* probes allowed and not reported yet
          sinceFail,    \* time since a failure noted at isolation, or -1
          noting,       \* note_failure between its locks: {<<transport, level read>>}
          capping,      \* set_level between its locks: the ceiling to apply, or -1
          overtaken     \* the level its schedule was made at, if left meanwhile (history)

cadenceVars == <<cadenceLevel, known, failures, wait, inFlight, sinceFail, noting, capping,
                 overtaken>>

FLOOR_INTERVAL == 500
CONFIRMED_ISOLATION_INTERVAL == 30000
TOTAL_ISOLATION_INTERVAL == 60000
MAX_INTERVAL == 300000
MAX_BACKOFF_SHIFT == 8
Confirmed == 3

AtMost(a, b) == IF a < b THEN a ELSE b
AtLeast(a, b) == IF a > b THEN a ELSE b

\* base_interval_for, by severity of the level.
BaseInterval(level) ==
    CASE level <= 1 -> FLOOR_INTERVAL
      [] level = 2 -> 5000
      [] level = 3 -> CONFIRMED_ISOLATION_INTERVAL
      [] level = 4 -> TOTAL_ISOLATION_INTERVAL

Grown(count) == FLOOR_INTERVAL * 2 ^ AtMost(count, MAX_BACKOFF_SHIFT)

Jitter(interval, percent) ==
    AtMost(AtLeast((interval * percent) \div 100, 1), MAX_INTERVAL)

\* Mutant of Chosen: the level's base is a ceiling instead of a floor.
ChosenBelowBase(count, level) ==
    AtMost(AtMost(Grown(count), BaseInterval(level)), MAX_INTERVAL)

Chosen(count, level) ==
    AtMost(AtLeast(Grown(count), BaseInterval(level)), MAX_INTERVAL)

CadenceInit ==
    /\ cadenceLevel = 0
    /\ known = {}
    /\ failures = [t \in CadenceTransports |-> 0]
    /\ wait = [t \in CadenceTransports |-> 0]
    /\ inFlight = [t \in CadenceTransports |-> 0]
    /\ sinceFail = [t \in CadenceTransports |-> -1]
    /\ noting = {}
    /\ capping = -1
    /\ overtaken = [t \in CadenceTransports |-> 0]

SetLevel(level) ==
    /\ capping = -1
    /\ cadenceLevel' = level
    /\ capping' = IF level < cadenceLevel THEN BaseInterval(level) ELSE -1
    /\ UNCHANGED <<known, failures, wait, inFlight, sinceFail, noting, overtaken>>

\* Mutant of SetLevelCap: schedules made under the old level are kept.
SetLevelCapNothing ==
    /\ capping # -1
    /\ capping' = -1
    /\ UNCHANGED <<cadenceLevel, known, failures, wait, inFlight, sinceFail, noting, overtaken>>

SetLevelCap ==
    /\ capping # -1
    /\ wait' = [t \in CadenceTransports |-> AtMost(wait[t], capping)]
    /\ sinceFail' = [t \in CadenceTransports |-> -1]
    /\ capping' = -1
    /\ overtaken' = [t \in CadenceTransports |-> 0]
    /\ UNCHANGED <<cadenceLevel, known, failures, inFlight, noting>>

\* Mutant of TryProbe: a transport that is not due is probed as well.
TryProbeAlways(t) ==
    /\ inFlight[t] < MaxOutstanding
    /\ known' = known \union {t}
    /\ inFlight' = [inFlight EXCEPT ![t] = @ + 1]
    /\ UNCHANGED <<cadenceLevel, failures, wait, sinceFail, noting, capping, overtaken>>

\* A transport that is due may be probed again while a probe of it is out.
TryProbe(t) ==
    /\ inFlight[t] < MaxOutstanding
    /\ known' = known \union {t}
    /\ inFlight' = [inFlight EXCEPT ![t] = IF wait[t] = 0 THEN @ + 1 ELSE @]
    /\ UNCHANGED <<cadenceLevel, failures, wait, sinceFail, noting, capping, overtaken>>

\* A probe of t is out that nobody is reporting as failed.
Unreported(t) == inFlight[t] > Cardinality({n \in noting : n[1] = t})

NoteFailure(t) ==
    /\ Unreported(t)
    /\ <<t, cadenceLevel>> \notin noting
    /\ noting' = noting \union {<<t, cadenceLevel>>}
    /\ UNCHANGED <<cadenceLevel, known, failures, wait, inFlight, sinceFail, capping, overtaken>>

NoteFailureSchedule(percent) ==
    /\ \E n \in noting :
          LET t == n[1]
              level == n[2]
              count == AtMost(failures[t] + 1, MaxBackoff)
          IN /\ known' = known \union {t}
             /\ failures' = [failures EXCEPT ![t] = count]
             /\ wait' = [wait EXCEPT ![t] = Jitter(Chosen(count, level), percent)]
             /\ inFlight' = [inFlight EXCEPT ![t] = @ - 1]
             /\ sinceFail' = [sinceFail EXCEPT ![t] = IF level >= Confirmed THEN 0 ELSE -1]
             /\ overtaken' = [overtaken EXCEPT ![t] = IF level > cadenceLevel THEN level ELSE 0]
             /\ noting' = noting \ {n}
    /\ UNCHANGED <<cadenceLevel, capping>>

NoteSuccess(t) ==
    /\ Unreported(t)
    /\ known' = known \union {t}
    /\ failures' = [failures EXCEPT ![t] = 0]
    /\ wait' = [wait EXCEPT ![t] = 0]
    /\ inFlight' = [inFlight EXCEPT ![t] = @ - 1]
    /\ sinceFail' = [sinceFail EXCEPT ![t] = -1]
    /\ overtaken' = [overtaken EXCEPT ![t] = 0]
    /\ UNCHANGED <<cadenceLevel, noting, capping>>

ForceDue(t) ==
    /\ known' = known \union {t}
    /\ wait' = [wait EXCEPT ![t] = 0]
    /\ sinceFail' = [sinceFail EXCEPT ![t] = -1]
    /\ overtaken' = [overtaken EXCEPT ![t] = 0]
    /\ UNCHANGED <<cadenceLevel, failures, inFlight, noting, capping>>

ForceAllDue ==
    /\ wait' = [t \in CadenceTransports |-> IF t \in known THEN 0 ELSE wait[t]]
    /\ sinceFail' = [t \in CadenceTransports |-> IF t \in known THEN -1 ELSE sinceFail[t]]
    /\ overtaken' = [t \in CadenceTransports |-> IF t \in known THEN 0 ELSE overtaken[t]]
    /\ UNCHANGED <<cadenceLevel, known, failures, inFlight, noting, capping>>

\* Time runs to the moment some transport becomes due, or half-way to it.
\* `now` is an argument of every method, so no time passes for a call between
\* its two locks.
CadenceElapse ==
    /\ noting = {} /\ capping = -1
    /\ \E t \in CadenceTransports, part \in {1, 2} :
          LET passed == wait[t] \div part
          IN /\ passed > 0
             /\ wait' = [u \in CadenceTransports |-> AtLeast(wait[u] - passed, 0)]
             /\ sinceFail' = [u \in CadenceTransports |->
                    IF sinceFail[u] = -1 THEN -1
                    ELSE AtMost(sinceFail[u] + passed, CONFIRMED_ISOLATION_INTERVAL)]
    /\ UNCHANGED <<cadenceLevel, known, failures, inFlight, noting, capping, overtaken>>

CadenceNext ==
    \/ \E level \in 0..4 : SetLevel(level)
    \/ SetLevelCap
    \/ \E t \in CadenceTransports :
          TryProbe(t) \/ NoteFailure(t) \/ NoteSuccess(t) \/ ForceDue(t)
    \/ \E percent \in Percents : NoteFailureSchedule(percent)
    \/ ForceAllDue
    \/ CadenceElapse

CadenceTypeOK ==
    /\ cadenceLevel \in 0..4
    /\ known \subseteq CadenceTransports
    /\ failures \in [CadenceTransports -> 0..MaxBackoff]
    /\ wait \in [CadenceTransports -> 0..MAX_INTERVAL]
    /\ inFlight \in [CadenceTransports -> 0..MaxOutstanding]

\* The longest wait that t's own failures and the base interval of level justify.
Justified(t, level) == Jitter(AtLeast(Grown(failures[t]), BaseInterval(level)), 125)

\* "A recovery is never delayed by a stale blackout-era schedule" (set_level):
\* no transport waits longer than its own back-off and the base interval of
\* the level now in force justify, jitter included.  It does not hold:
\* note_failure may read the level before set_level lowers it and store its
\* schedule after set_level has capped the others.
RecoveryNotDelayed ==
    capping = -1 => \A t \in CadenceTransports : wait[t] <= Justified(t, cadenceLevel)

\* What set_level and note_failure achieve of it: a transport waits no longer
\* than its own back-off and the level now in force justify, except one whose
\* last failure was noted across a descent; that one waits at most the interval
\* of the level its note_failure had read, once: a success, a wake-up, the next
\* failure or the next descent ends it.
ScheduleBounded ==
    capping = -1 => \A t \in CadenceTransports :
        wait[t] <= AtLeast(Justified(t, cadenceLevel), Justified(t, overtaken[t]))

\* One probe per transport per isolation interval (BLACKOUT_BOUNDS.md, enforced
\* by note_failure and try_probe): after a failure noted at ConfirmedIsolation
\* or above no further probe is allowed sooner than the base interval less the
\* jitter, unless a success, a wake-up, a lower level or a failure that had
\* read a lower level intervened.  Probes that were already out do not count.
NoRetryStorm ==
    [][\A t \in CadenceTransports :
          (inFlight'[t] > inFlight[t] /\ sinceFail[t] >= 0) =>
              sinceFail[t] >= (CONFIRMED_ISOLATION_INTERVAL * 75) \div 100]_cadenceVars
------------------------------------------------------------------------------
(* The debounced isolation classifier of                                    *)
(* core-supervisor/src/isolation.rs: probe failures raise the level one     *)
(* step at a time, the first success drops it to Nominal.                   *)

CONSTANTS DebounceThreshold, \* the argument of IsolationCorrelator::new
          MaxFailRun         \* bound on the failures counted in a row

ASSUME DebounceAssumption == DebounceThreshold \in Nat /\ MaxFailRun \in Nat

VARIABLES isoLevel,          \* IsolationLevel, by severity
          isoFailures,       \* consecutive_failures
          oobHealthy,        \* out_of_band_healthy
          recoveryTriggered, \* recovery_triggered
          failRun            \* failures observed since the last success

isolationVars == <<isoLevel, isoFailures, oobHealthy, recoveryTriggered, failRun>>

Nominal == 0
Degraded == 1
Escalated == 2
ConfirmedIsolation == 3
TotalIsolation == 4
IsolationLevels == Nominal..TotalIsolation

\* debounce_threshold.max(1)
Debounce == IF DebounceThreshold = 0 THEN 1 ELSE DebounceThreshold

IsolationInit ==
    /\ isoLevel = Nominal
    /\ isoFailures = 0
    /\ oobHealthy = FALSE
    /\ recoveryTriggered = FALSE
    /\ failRun = 0

\* Mutant of AdvanceOneLevel: the out-of-band uplink is not consulted.
AdvanceIgnoringOob(level) == IF level = TotalIsolation THEN level ELSE level + 1

AdvanceOneLevel(level) ==
    CASE level = TotalIsolation -> TotalIsolation
      [] level = ConfirmedIsolation /\ oobHealthy -> ConfirmedIsolation
      [] OTHER -> level + 1

SetOutOfBandHealthy(healthy) ==
    /\ oobHealthy' = healthy
    /\ UNCHANGED <<isoLevel, isoFailures, recoveryTriggered, failRun>>

\* Mutant of ObserveFailure: the counter survives the step it has paid for.
ObserveFailureKeepsCount ==
    /\ failRun < MaxFailRun
    /\ isoFailures' = IF isoFailures < Debounce THEN isoFailures + 1 ELSE isoFailures
    /\ isoLevel' = IF isoLevel = Nominal \/ isoFailures' >= Debounce
                     THEN AdvanceOneLevel(isoLevel) ELSE isoLevel
    /\ failRun' = failRun + 1
    /\ UNCHANGED <<oobHealthy, recoveryTriggered>>

ObserveFailure ==
    /\ failRun < MaxFailRun
    /\ LET threshold == IF isoLevel = Nominal THEN 1 ELSE Debounce
           reached == isoFailures + 1 >= threshold
       IN /\ isoLevel' = IF reached THEN AdvanceOneLevel(isoLevel) ELSE isoLevel
          /\ isoFailures' = IF reached THEN 0 ELSE isoFailures + 1
    /\ failRun' = failRun + 1
    /\ UNCHANGED <<oobHealthy, recoveryTriggered>>

ObserveSuccess ==
    /\ recoveryTriggered' = (recoveryTriggered \/ isoLevel > Nominal)
    /\ isoLevel' = Nominal
    /\ isoFailures' = 0
    /\ failRun' = 0
    /\ UNCHANGED oobHealthy

TakeRecoveryTriggered ==
    /\ recoveryTriggered' = FALSE
    /\ UNCHANGED <<isoLevel, isoFailures, oobHealthy, failRun>>

IsolationNext ==
    \/ \E healthy \in BOOLEAN : SetOutOfBandHealthy(healthy)
    \/ ObserveFailure
    \/ ObserveSuccess
    \/ TakeRecoveryTriggered

-----------------------------------------------------------------------------
IsolationTypeOK ==
    /\ isoLevel \in IsolationLevels
    /\ isoFailures \in 0..Debounce
    /\ {oobHealthy, recoveryTriggered} \subseteq BOOLEAN
    /\ failRun \in 0..MaxFailRun

\* A level above Nominal is only ever reached through an unbroken run of
\* failures: one for Degraded and a whole debounce window for each further
\* step, whatever successes and out-of-band reports came before the run
\* (observe_failure, advance_one_level).
DebouncedRise ==
    isoLevel > Nominal =>
        failRun >= 1 + (isoLevel - 1) * (IF DebounceThreshold = 0 THEN 1 ELSE DebounceThreshold)

\* The level climbs one step at a time, enters TotalIsolation only while no
\* out-of-band uplink is healthy, and falls only straight to Nominal, leaving
\* recovery_triggered set for the caller (advance_one_level, observe_success).
LevelDiscipline ==
    [][/\ isoLevel' > isoLevel =>
            isoLevel' = isoLevel + 1 /\ (isoLevel' = TotalIsolation => ~oobHealthy)
       /\ isoLevel' < isoLevel => isoLevel' = Nominal /\ recoveryTriggered']_isolationVars
==============================================================================
