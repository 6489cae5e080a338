---------------------------- MODULE LiveSignals ----------------------------
(***************************************************************************)
(* The live signal monitor (live_signals.rs): each cycle probes every      *)
(* configured anchor, adds what it saw to a sliding window, and classifies *)
(* the isolation level once the window is full.  Which endpoint answered   *)
(* how is counted, not named.  Below, sharing no state with it, the        *)
(* forecast made from health samples.                                      *)
(***************************************************************************)
EXTENDS Integers, Sequences, SequencesExt, FiniteSetsExt, FiniteSets

CONSTANTS
  SignalConfigs,   \* the configurations offered: [intl, dom, tls, dns, window]
  TcpSeen,         \* the outcomes that occur: [ok, reset] of a cycle's connections,
  DnsSeen,         \* [valid, bad] of its queries,
  TlsSeen          \* and where and by what a handshake ended: [at, by]

MaxWindow == 3     \* the streaks below are counted up to this

VARIABLES
  signalConfig,
  cycles,          \* the window: totals of the last cycles, oldest first
  signalReport,    \* [samples, ready, level] of the last sample
  deadStreak,      \* last cycles in a row without an international success
  quietStreak      \* last cycles in a row without reset, truncation or mismatch

signalVars == <<signalConfig, cycles, signalReport, deadStreak, quietStreak>>

MinWindowCycles == 2
MaxWindowCycles == 60
MaxTargetsPerKind == 16
MinInternational == 2
MinDns == 2

\* LiveSignalConfig.validate, without its checks of ports, names and paths.
Validate(c) ==
  /\ c.window \in MinWindowCycles..MaxWindowCycles
  /\ \A n \in {c.intl + c.dom, c.tls, c.dns} : n > 0 /\ n <= MaxTargetsPerKind
  /\ c.intl >= MinInternational /\ c.dom >= 1 /\ c.dns >= MinDns

Level == {"none", "Normal", "DpiBlocking", "RoutingSevered", "FullIsolation"}

SignalTypeOK ==
  /\ Validate(signalConfig)
  /\ cycles \in Seq([ip : Nat, dom : Nat, resets : Nat, truncs : Nat, valid : Nat, bad : Nat, failed : Nat])
  /\ signalReport.level \in Level /\ signalReport.samples \in Nat
  /\ deadStreak \in 0..MaxWindow /\ quietStreak \in 0..MaxWindow

SignalInit ==
  /\ signalConfig \in {c \in SignalConfigs : Validate(c)}
  /\ cycles = <<>>
  /\ signalReport = [samples |-> 0, ready |-> FALSE, level |-> "none"]
  /\ deadStreak = 0 /\ quietStreak = 0

----------------------------------------------------------------------------
(* probe_tcp: of n connections some succeed, some are reset, and the rest  *)
(* fail or time out.                                                       *)
TcpOutcomes(n) == {o \in TcpSeen : o.ok + o.reset <= n}

\* probe_dns: of n queries some match the pinned answer, some contradict it.
DnsOutcomes(n) == {o \in DnsSeen : o.valid + o.bad <= n}

\* probe_tls and probe_tls_blocking: the outcome of a handshake that ended `at`
\* the connection, the handshake or not at all ("done"), `by` what ended it.
ProbeTls(e) ==
  CASE e.by = "deadline" -> "Timeout"
    [] e.at = "done" -> "Success"
    [] e.at = "connect" /\ e.by = "reset" -> "TcpReset"
    [] e.at = "handshake" /\ e.by = "reset" -> "HandshakeReset"
    [] e.at = "handshake" /\ e.by = "eof" -> "Truncated"
    [] OTHER -> "Failed"

\* Mutant of TruncatedBy: a timed-out handshake counted as a truncated one.
TruncatedByAll(o) == IF o \in {"Truncated", "HandshakeReset", "Timeout"} THEN 1 ELSE 0

TruncatedBy(o) == IF o \in {"Truncated", "HandshakeReset"} THEN 1 ELSE 0
ResetBy(o) == IF o \in {"TcpReset", "HandshakeReset"} THEN 1 ELSE 0

SumOverWindow(o, op(_)) == FoldFunction(LAMBDA x, n : n + op(x), 0, o)

\* measure_cycle: the totals of one cycle's outcomes.
MeasureCycle(intl, dom, tls, dns) ==
  [ip |-> intl.ok, dom |-> dom.ok,
   resets |-> intl.reset + dom.reset + SumOverWindow(tls, ResetBy),
   truncs |-> SumOverWindow(tls, TruncatedBy),
   valid |-> dns.valid, bad |-> dns.bad,
   failed |-> (signalConfig.intl - intl.ok) + (signalConfig.dom - dom.ok)
              + (signalConfig.dns - dns.valid) + Cardinality({t \in DOMAIN tls : tls[t] # "Success"})]

\* Mutant of SlideWindow: a window that only ever grows.
SlideWindowGrow(c) == Append(cycles, c)

SlideWindow(c) == Append(IF Len(cycles) = signalConfig.window THEN Tail(cycles) ELSE cycles, c)

Total(w, field) == FoldFunction(LAMBDA c, n : n + c[field], 0, w)

AtLeastHalf(n, d) == 2 * n >= d      \* ratio >= ACTIVE_RATE; d is never zero

\* LiveSignalTotals.signal and blackout::classify.
ClassifyWindow(w) ==
  LET tcp == Len(w) * (signalConfig.intl + signalConfig.dom)
      tls == Len(w) * signalConfig.tls
      severed == Total(w, "ip") = 0
      dpi == \/ AtLeastHalf(Total(w, "resets"), tcp + tls)
             \/ AtLeastHalf(Total(w, "truncs"), tls)
             \/ AtLeastHalf(Total(w, "bad"), Len(w) * signalConfig.dns)
  IN CASE severed /\ Total(w, "valid") > 0 -> "RoutingSevered"
       [] severed /\ Total(w, "valid") = 0 -> "FullIsolation"
       [] ~severed /\ dpi -> "DpiBlocking"
       [] OTHER -> "Normal"

Streak(n, holds) == IF holds THEN Min({n + 1, MaxWindow}) ELSE 0

\* One sample of run_live_signal_monitor's loop; its probes all end first.
Sample(intl, dom, tls, dns) ==
  LET c == MeasureCycle(intl, dom, [t \in DOMAIN tls |-> ProbeTls(tls[t])], dns)
      w == SlideWindow(c)
      ready == Len(w) >= signalConfig.window
  IN /\ cycles' = w
     /\ signalReport' = [samples |-> Len(w), ready |-> ready,
                         level |-> IF ready THEN ClassifyWindow(w) ELSE "none"]
     /\ deadStreak' = Streak(deadStreak, intl.ok = 0)
     /\ quietStreak' = Streak(quietStreak,
          /\ intl.reset + dom.reset + dns.bad = 0
          /\ \A t \in DOMAIN tls : tls[t].by \notin {"reset", "eof"})
     /\ UNCHANGED signalConfig

SignalNext ==
  \E intl \in TcpOutcomes(signalConfig.intl), dom \in TcpOutcomes(signalConfig.dom),
     tls \in [1..signalConfig.tls -> TlsSeen], dns \in DnsOutcomes(signalConfig.dns) :
       Sample(intl, dom, tls, dns)

----------------------------------------------------------------------------
(* Once the window is full the monitor reports the international route as  *)
(* severed exactly when every international anchor failed in each of the   *)
(* last window_cycles cycles: an older cycle neither delays the report nor *)
(* keeps it up.                                                            *)
SeveredExactly ==
  signalReport.ready =>
    (signalReport.level \in {"RoutingSevered", "FullIsolation"} <=> deadStreak >= signalConfig.window)

(* "A timeout is not mislabeled": when no probe of the last window_cycles  *)
(* cycles was reset, truncated or contradicted, the level is never         *)
(* DpiBlocking, however many probes failed or timed out.                   *)
TimeoutNotInterference ==
  quietStreak >= signalConfig.window => signalReport.level # "DpiBlocking"

(* The doc of LiveSignalReport: classification waits for a full window "so *)
(* a single failed packet cannot escalate a network state".                *)
SingleFailureCannotEscalate ==
  signalReport.level \in {"DpiBlocking", "RoutingSevered", "FullIsolation"} => Total(cycles, "failed") >= 2
------------------------------------------------------------------------------
(* The forecaster that watches health samples and advises to warm or to    *)
(* switch transports before the fallback engine reacts                     *)
(* (core-supervisor/src/dpi_forecast.rs, thresholds of policy.rs). Rates   *)
(* are percentages; pressures are fixed point, Scale standing for 1.0.     *)

CONSTANTS
  HealthSamples,       \* samples offered: [success, rst, trunc, dns]
  HistoryLen,          \* HISTORY
  MaxForecastSamples   \* bound on the samples observed

MinForecastSamples == 4     \* MIN_SAMPLES
Scale == 10000
PrewarmHazard == 45 * Scale     \* PREWARM_HAZARD and SWITCH_HAZARD, times 100
SwitchHazard == 75 * Scale

ASSUME ForecastAssumption ==
  /\ HistoryLen \in Nat /\ HistoryLen >= MinForecastSamples /\ MaxForecastSamples \in Nat
  /\ \A s \in HealthSamples : \A f \in DOMAIN s : s[f] \in 0..100

VARIABLES
  pressures,       \* the ring of raw pressures, oldest first
  smoothed,        \* EWMA of the pressure
  forecastSeeded,
  forecast,        \* the forecast of the last report
  observedSamples, \* the samples observed since the last reset
  sampleCount      \* samples observed in all

forecastVars == <<pressures, smoothed, forecastSeeded, forecast, observedSamples, sampleCount>>

Clamped(x) == Max({0, Min({x, Scale})})

\* HealthSample.pressure: the progress of the closest of the three conditions.
Pressure(s) ==
  Clamped(Max({(Max({s.rst, s.trunc}) * Scale) \div 30,
               ((100 - s.success) * Scale) \div 15,
               (s.dns * Scale) \div 50}))

\* What FallbackEngine.decide acts on, once it has its own samples.
ReactiveTrips(s) == s.dns > 50 \/ s.rst > 30 \/ s.trunc > 30 \/ s.success < 85

\* The least-squares slope as <<numerator, denominator>>, over doubled offsets.
Slope(h) ==
  LET dx(i) == 2 * (i - 1) - (Len(h) - 1)
  IN <<2 * MapThenSumSet(LAMBDA i : dx(i) * h[i], DOMAIN h),
       MapThenSumSet(LAMBDA i : dx(i) * dx(i), DOMAIN h)>>

\* The hazard times 100; the trend is projected 8 ticks ahead.
Hazard(s, slope) ==
  LET ahead == IF slope[2] = 0 THEN 0 ELSE (8 * slope[1]) \div slope[2]
  IN 55 * Clamped(s) + 45 * Clamped(s + ahead)

\* Mutant of EnoughSamples: a forecast one sample late.
EnoughSamplesLate(n) == n > MinForecastSamples

EnoughSamples(n) == n >= MinForecastSamples

\* The forecast that observe and current read off a history and its smoothing.
ForecastOf(h, s) ==
  LET slope == Slope(h)
      hazard == Hazard(s, slope)
  IN CASE ~EnoughSamples(Len(h)) -> "Stable"
       [] EnoughSamples(Len(h)) /\ hazard >= SwitchHazard -> "SwitchAdvised"
       [] EnoughSamples(Len(h)) /\ hazard < SwitchHazard /\ hazard >= PrewarmHazard -> "PrewarmAdvised"
       [] OTHER -> IF hazard < PrewarmHazard /\ slope[1] > 0 /\ s > Scale \div 20 THEN "Rising" ELSE "Stable"

ForecastInit ==
  /\ pressures = <<>> /\ smoothed = 0 /\ forecastSeeded = FALSE
  /\ forecast = "Stable" /\ observedSamples = <<>> /\ sampleCount = 0

\* Mutant of SmoothedWith: samples without pressure are not smoothed in.
SmoothedWithSkips(p) ==
  IF forecastSeeded /\ p > 0 THEN (2 * p + 3 * smoothed) \div 5 ELSE Max({p, smoothed})

SmoothedWith(p) == IF forecastSeeded THEN (2 * p + 3 * smoothed) \div 5 ELSE p

ObserveHealth(s) ==
  LET p == Pressure(s)
  IN /\ sampleCount < MaxForecastSamples /\ sampleCount' = sampleCount + 1
     /\ smoothed' = SmoothedWith(p) /\ forecastSeeded' = TRUE
     /\ pressures' = Append(IF Len(pressures) = HistoryLen THEN Tail(pressures) ELSE pressures, p)
     /\ observedSamples' = Append(observedSamples, s)
     /\ forecast' = ForecastOf(pressures', smoothed')

\* Mutant of ResetForecast: leaves the history in place.
ResetForecastKeeps ==
  /\ smoothed' = 0 /\ forecastSeeded' = FALSE
  /\ forecast' = "Stable" /\ observedSamples' = <<>> /\ UNCHANGED <<pressures, sampleCount>>

\* reset, on a confirmed recovery.
ResetForecast ==
  /\ pressures' = <<>> /\ smoothed' = 0 /\ forecastSeeded' = FALSE
  /\ forecast' = "Stable" /\ observedSamples' = <<>> /\ UNCHANGED sampleCount

ForecastNext == (\E s \in HealthSamples : ObserveHealth(s)) \/ ResetForecast

ForecastTypeOK ==
  /\ smoothed \in 0..Scale /\ Len(pressures) <= HistoryLen /\ sampleCount \in 0..MaxForecastSamples
  /\ forecast \in {"Stable", "Rising", "PrewarmAdvised", "SwitchAdvised"}

-----------------------------------------------------------------------------
Recent(n) == ToSet(SubSeq(observedSamples, Len(observedSamples) - n + 1, Len(observedSamples)))

\* Once MIN_SAMPLES samples in a row would each trip the fallback engine, a
\* switch is advised, whatever came before them: the forecast is never behind a
\* sustained block (observe, hazard).
SustainedBlockAdvised ==
  Len(observedSamples) >= MinForecastSamples
    /\ (\A s \in Recent(MinForecastSamples) : ReactiveTrips(s)) => forecast = "SwitchAdvised"

\* Advice follows the samples held since the reset: a switch takes MIN_SAMPLES
\* of them and more than one bad one, and a full history without pressure ends
\* every advice, whatever the smoothing still remembers of an earlier block.
AdviceFollowsHistory ==
  /\ forecast = "SwitchAdvised" =>
       /\ Len(observedSamples) >= MinForecastSamples
       /\ Cardinality({i \in DOMAIN pressures : pressures[i] > 0}) >= 2
  /\ Len(observedSamples) >= HistoryLen /\ (\A s \in Recent(HistoryLen) : Pressure(s) = 0)
       => forecast = "Stable"
==============================================================================
