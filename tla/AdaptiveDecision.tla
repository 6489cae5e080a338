-------------------------- MODULE AdaptiveDecision --------------------------
(***************************************************************************)
(* The deterministic decision path of core-supervisor: RollingSuccess       *)
(* (telemetry.rs) feeding LocalDecider (decider.rs) and FallbackEngine      *)
(* (policy.rs), and the window of the anomaly detector                      *)
(* (anomaly_detector.rs).  A rate is kept as wins out of n and compared by  *)
(* cross-multiplication.                                                    *)
(***************************************************************************)
EXTENDS Integers, SequencesExt

CONSTANTS Cascade,       \* DEFAULT_CASCADE or the cascade of a policy
          Window,        \* window of the decider
          MinSamples,    \* min_samples
          DetectorWindow,\* window_size of the detector
          SampleKinds,   \* [loss, ack, rtt] records a TcpSample may hold
          MaxHistory     \* bound on the samples remembered for the properties

ASSUME WindowAssumption == Window \in Nat /\ MinSamples \in Nat /\ DetectorWindow \in Nat \ {0}

VARIABLES current,  \* LocalDecider::current
          rings,    \* success, rst, trunc, dns: [samples, idx, filled]
          outcomes, \* outcomes on the current protocol, newest last
          tcpWindow,\* AnomalyDetector::window
          report,   \* the last of AnomalyDetector::reports
          tcpSeen   \* samples observed, newest last

deciderVars == <<current, rings, outcomes, tcpWindow, report, tcpSeen>>

Signals4 == {"success", "rst", "trunc", "dns"}
FailKinds == {"RstInjection", "TlsTruncation", "DnsAnomaly", "Generic"}
WindowLen == IF Window = 0 THEN 1 ELSE Window

EmptyRing == [samples |-> [i \in 0..(WindowLen - 1) |-> FALSE], idx |-> 0, filled |-> FALSE]

\* Mutant of Record: the ring counts as filled one sample too early.
RecordFillsEarly(ring, value) ==
    LET next == (ring.idx + 1) % WindowLen
    IN [samples |-> [ring.samples EXCEPT ![ring.idx] = value], idx |-> next,
        filled |-> ring.filled \/ next = WindowLen - 1]

Record(ring, value) ==
    LET next == (ring.idx + 1) % WindowLen
    IN [samples |-> [ring.samples EXCEPT ![ring.idx] = value], idx |-> next,
        filled |-> ring.filled \/ next = 0]

\* stats: sample count and wins; an empty ring reports the rate 1.
Stats(ring) ==
    LET n == IF ring.filled THEN WindowLen ELSE ring.idx
        won == Len(SelectSeq([i \in 1..WindowLen |-> ring.samples[i - 1]], LAMBDA b : b))
    IN IF n = 0 THEN [n |-> 1, wins |-> 1, count |-> 0] ELSE [n |-> n, wins |-> won, count |-> n]

\* rate > num/den
Exceeds(stats, num, den) == stats.wins * den > num * stats.n

\* next_after
NextAfter(protocol) ==
    LET i == SelectInSeq(Cascade, LAMBDA q : q = protocol)
    IN IF i > 0 /\ i < Len(Cascade) THEN [what |-> "Switch", to |-> Cascade[i + 1]]
       ELSE [what |-> "Escalate", to |-> protocol]

\* Mutant of Decide: the number of samples is not looked at.
DecideEagerly ==
    LET s == Stats(rings["success"])
    IN IF s.wins * 100 < 85 * s.n THEN NextAfter(current) ELSE [what |-> "Keep", to |-> current]

\* FallbackEngine::decide with DNS_ESCALATE_RATE 0.5, DPI_SWITCH_RATE 0.3 and
\* DEFAULT_SWITCH_THRESHOLD 0.85.
Decide ==
    LET s == [k \in Signals4 |-> Stats(rings[k])]
    IN IF s["success"].count < MinSamples THEN [what |-> "Keep", to |-> current]
       ELSE IF Exceeds(s["dns"], 1, 2) THEN [what |-> "Escalate", to |-> current]
       ELSE IF \/ Exceeds(s["rst"], 3, 10) \/ Exceeds(s["trunc"], 3, 10)
               \/ s["success"].wins * 100 < 85 * s["success"].n
       THEN NextAfter(current)
       ELSE [what |-> "Keep", to |-> current]

DeciderInit ==
    /\ current = Head(Cascade)
    /\ rings = [k \in Signals4 |-> EmptyRing]
    /\ outcomes = <<>>
    /\ tcpWindow = <<>> /\ report = "none" /\ tcpSeen = <<>>

\* The last WindowLen outcomes are all the properties need.
Remember(seq, x, bound) == LET longer == Append(seq, x)
                           IN IF Len(longer) > bound THEN Tail(longer) ELSE longer

Observe(outcome) ==
    /\ rings' = [k \in Signals4 |->
           Record(rings[k], CASE k = "success" -> outcome = "ok"
                              [] k = "rst" -> outcome = "RstInjection"
                              [] k = "trunc" -> outcome = "TlsTruncation"
                              [] k = "dns" -> outcome = "DnsAnomaly")]
    /\ outcomes' = Remember(outcomes, outcome, WindowLen)
    /\ UNCHANGED <<current, tcpWindow, report, tcpSeen>>

AdvanceTo(protocol) ==
    /\ current' = protocol
    /\ rings' = [k \in Signals4 |-> EmptyRing]
    /\ outcomes' = <<>>
    /\ UNCHANGED <<tcpWindow, report, tcpSeen>>

\* A caller that follows the decision; Keep and Escalate leave the decider be.
FollowDecision == Decide.what = "Switch" /\ AdvanceTo(Decide.to)

\* --- AnomalyDetector -------------------------------------------------------
SumOver(seq, f(_)) == FoldLeft(LAMBDA acc, x : acc + f(x), 0, seq)

\* predict: loss rate, then the variance of the round trips, then the slope of
\* the ACK delays, against the thresholds 0.3, 0.15, 10000 and 5.
Predict(win) ==
    LET n == Len(win)
        losses == SumOver(win, LAMBDA s : IF s.loss THEN 1 ELSE 0)
        rtts == SumOver(win, LAMBDA s : s.rtt)
        squares == SumOver(win, LAMBDA s : s.rtt * s.rtt)
        centred(i) == 2 * (i - 1) - (n - 1)
        index == [i \in 1..n |-> i]
        num == SumOver(index, LAMBDA i : centred(i) * win[i].ack)
        den == SumOver(index, LAMBDA i : centred(i) * centred(i))
    IN IF n < 5 THEN "Stable"
       ELSE IF losses * 10 > 3 * n THEN "DropImminent"
       ELSE IF losses * 100 > 15 * n THEN "RisingLoss"
       ELSE IF n * squares - rtts * rtts > 10000 * n * n THEN "HighVariance"
       ELSE IF 2 * num > 5 * den THEN "AckStall"
       ELSE "Stable"

\* Mutant of Slide: nothing leaves the window.
SlideNothing(win, s) == Append(win, s)

Slide(win, s) == LET longer == Append(win, s)
                 IN IF Len(longer) > DetectorWindow THEN Tail(longer) ELSE longer

\* AnomalyDetector::observe
ObserveSample(s) ==
    /\ Len(tcpSeen) < MaxHistory
    /\ tcpWindow' = Slide(tcpWindow, s)
    /\ report' = Predict(tcpWindow')
    /\ tcpSeen' = Append(tcpSeen, s)
    /\ UNCHANGED <<current, rings, outcomes>>

ShouldFailoverEarly == report \in {"DropImminent", "RisingLoss", "AckStall"}

DeciderNext ==
    \/ \E outcome \in {"ok"} \union FailKinds : tcpSeen = <<>> /\ Observe(outcome)
    \/ FollowDecision
    \/ \E s \in SampleKinds : outcomes = <<>> /\ current = Head(Cascade) /\ ObserveSample(s)

-----------------------------------------------------------------------------
DeciderTypeOK ==
    /\ current \in ToSet(Cascade)
    /\ \A k \in Signals4 : rings[k].idx \in 0..(WindowLen - 1)
    /\ tcpWindow \in Seq(SampleKinds)

Count(what) == Len(SelectSeq(outcomes, LAMBDA o : o = what))

\* What the rings report is what really happened over the last window of
\* outcomes on this protocol, through any number of wrap-arounds and switches
\* (record, stats, advance_to); an engine fed anything else would switch away
\* from a protocol that works.
RatesExact ==
    LET n == Len(outcomes)
        reported(k) == Stats(rings[k])
    IN IF n = 0 THEN reported("success").count = 0
       ELSE /\ reported("success").count = n
            /\ reported("success").wins = Count("ok")
            /\ reported("rst").wins = Count("RstInjection")
            /\ reported("trunc").wins = Count("TlsTruncation")
            /\ reported("dns").wins = Count("DnsAnomaly")

\* The decider never leaves a protocol before it has seen MinSamples outcomes
\* on that protocol, so a burst that caused one switch cannot cause the next
\* ("reset the observation windows so stale signals do not carry over",
\* advance_to; "Not enough samples -> Keep", decide).
SwitchOnFreshEvidence ==
    [][current' # current => Len(outcomes) >= MinSamples]_deciderVars

\* An early failover is advised only on evidence inside the detector's window:
\* with the last DetectorWindow samples free of loss and of growing delays the
\* advice is gone (observe, predict, should_failover_early).
AdviceHasEvidence ==
    LET from == IF Len(tcpSeen) > DetectorWindow THEN Len(tcpSeen) - DetectorWindow + 1 ELSE 1
        recent == SubSeq(tcpSeen, from, Len(tcpSeen))
    IN ShouldFailoverEarly =>
           \/ \E i \in DOMAIN recent : recent[i].loss
           \/ \E i, j \in DOMAIN recent : i < j /\ recent[i].ack < recent[j].ack
=============================================================================
