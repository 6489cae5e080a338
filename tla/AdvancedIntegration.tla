------------------------ MODULE AdvancedIntegration ------------------------
(***************************************************************************)
(* The automatic reaction of core-supervisor/src/advanced_integration.rs    *)
(* over the blackout controller (blackout.rs), the traffic profiles         *)
(* (ai_dpi.rs), the last-resort tier, the probe cadence and the             *)
(* store-and-forward queue.  react_automatic and recover_automatic take     *)
(* &mut self, so one of them runs at a time, but the registry, the cadence, *)
(* the queue and the observations they use are shared: each lock they take  *)
(* is a step (`stage`), and probes, enqueues and registrations fall between *)
(* them.  A queued item is only its lane: the queue itself is modelled in   *)
(* StoreAndForward.                                                         *)
(***************************************************************************)
EXTENDS LastResortTier, ProbeCadence

CONSTANTS QueueItems, \* max_items of the queue
          Watched,    \* transports whose results a caller reports
          MaxReacts   \* bound on the escalations

VARIABLES level,           \* blackout.level
          blackoutProfile, \* blackout.morpher's active profile
          profile,         \* morpher's active profile
          isolationActive, \* isolation_active
          markers,         \* Control items queued
          dataItems,       \* Bulk items queued
          forecastSamples, \* whether the forecaster holds samples
          intel,           \* observations held: <<transport, outcome>>
          stage,           \* where the call under way is, "idle" between calls
          observed,        \* what react_automatic has still to report to intel
          failedSince      \* transports with a failure noted since the last force_all_due (history)

queueVars == <<markers, dataItems>>
callVars == <<stage, observed>>
viewVars == <<level, blackoutProfile, profile, isolationActive>>
integrationVars == <<viewVars, queueVars, forecastSamples, intel, callVars, failedSince>>

Levels == {"Normal", "DpiBlocking", "RoutingSevered", "FullIsolation"}
Signals == [severed : BOOLEAN, dns : BOOLEAN, dpi : BOOLEAN]

Severity(l) == CASE l = "Normal" -> 0 [] l = "DpiBlocking" -> 1
                 [] l = "RoutingSevered" -> 2 [] l = "FullIsolation" -> 3

\* classify; dpi says that some signal rate is at or above ACTIVE_RATE.
Classify(signal) ==
    CASE signal.severed /\ signal.dns -> "RoutingSevered"
      [] signal.severed /\ ~ signal.dns -> "FullIsolation"
      [] ~ signal.severed /\ signal.dpi -> "DpiBlocking"
      [] OTHER -> "Normal"

RecommendedProfile(l) ==
    CASE l = "Normal" -> "https-browsing"
      [] l = "DpiBlocking" -> "aparat-vod"
      [] OTHER -> "shaparak-banking"

\* Mutant of LevelFromBlackout: a severed route is probed as if only degraded.
LevelFromBlackoutLow(l) ==
    CASE l = "Normal" -> 0 [] l = "DpiBlocking" -> 1
      [] l = "RoutingSevered" -> 1 [] l = "FullIsolation" -> 3

\* level_from_blackout, into the severities of isolation.rs.
LevelFromBlackout(l) ==
    CASE l = "Normal" -> 0 [] l = "DpiBlocking" -> 1
      [] l = "RoutingSevered" -> 2 [] l = "FullIsolation" -> 3

IntegrationInit ==
    /\ BridgeInit /\ TierInit /\ CadenceInit
    /\ level = "Normal"
    /\ blackoutProfile = "aparat-vod" /\ profile = "aparat-vod"
    /\ isolationActive = FALSE
    /\ markers = 0 /\ dataItems = 0
    /\ forecastSamples = FALSE
    /\ intel = {}
    /\ stage = "idle" /\ observed = {}
    /\ failedSince = {}

\* Mutant of EnqueueMarker: a marker is queued whether or not there is room.
EnqueueMarkerAlways == markers' = markers + 1 /\ UNCHANGED dataItems

\* try_enqueue under EvictOldest, for one item of either lane.
EnqueueMarker ==
    IF markers + dataItems < QueueItems THEN markers' = markers + 1 /\ UNCHANGED dataItems
    ELSE IF dataItems > 0 THEN markers' = markers + 1 /\ dataItems' = dataItems - 1
    ELSE UNCHANGED queueVars

EnqueueData ==
    /\ markers + dataItems < QueueItems
    /\ dataItems' = dataItems + 1
    /\ UNCHANGED <<viewVars, markers, forecastSamples, intel, callVars, failedSince,
                   bridgeVars, tierVars, cadenceVars>>

\* BlackoutController::react: level, its own morpher, and the escalation that
\* only a severed route triggers.
BlackoutReact(newLevel, reach) ==
    /\ level' = newLevel
    /\ blackoutProfile' = RecommendedProfile(newLevel)
    /\ IF newLevel = "RoutingSevered" THEN ApplyEscalate(reach) ELSE UNCHANGED bridgeVars

\* react_fast bonds the tier after the escalation; the race it also runs
\* (TransportRace) changes nothing here.
BlackoutReactFast(newLevel, reach, rtt) ==
    /\ BlackoutReact(newLevel, reach)
    /\ IF newLevel = "RoutingSevered" THEN BuildBond(reach, rtt) ELSE UNCHANGED <<bond, picks>>
    /\ UNCHANGED <<registry, healthy, artiStatus, preWarmed, bootstraps, granted, taking>>

Observed(newLevel, reach) ==
    LET found == Escalation(reach)
    IN (IF newLevel = "RoutingSevered" /\ found # <<>>
          THEN {<<Head(found).name, "Works">>} ELSE {})
       \union (IF newLevel = "FullIsolation" THEN {<<"primary-tls-core", "Blocked">>} ELSE {})

\* The call under way takes its next step.
Advance(from, to) == stage = from /\ stage' = to

\* Steps 0 to 3 of react_automatic: the forecaster, the blackout controller,
\* the profile and the flag, none of which anyone else writes.
ReactClassify(signal, reach, rtt) ==
    LET newLevel == Classify(signal)
    IN /\ Advance("idle", IF newLevel = "FullIsolation" THEN "queue" ELSE "adopt")
       /\ newLevel = "RoutingSevered" => failoverCount < MaxReacts
       /\ forecastSamples' = TRUE
       /\ BlackoutReactFast(newLevel, reach, rtt)
       /\ profile' = RecommendedProfile(newLevel)
       /\ isolationActive' = (Severity(newLevel) >= Severity("RoutingSevered"))
       /\ observed' = Observed(newLevel, reach)
       /\ UNCHANGED <<queueVars, intel, failedSince, cadenceVars>>

\* Step 4, at the hard bound only.
ReactQueue ==
    /\ Advance("queue", "adopt")
    /\ EnqueueMarker
    /\ UNCHANGED <<viewVars, forecastSamples, intel, observed, failedSince, bridgeVars, tierVars,
                   cadenceVars>>

\* Step 5, ProbeCadence::set_level, and its second lock if the level fell.
ReactAdopt ==
    /\ Advance("adopt", "adopted")
    /\ SetLevel(LevelFromBlackout(level))
    /\ UNCHANGED <<viewVars, queueVars, forecastSamples, intel, observed, failedSince, bridgeVars,
                   tierVars>>

CallCaps ==
    /\ SetLevelCap
    /\ UNCHANGED <<integrationVars, bridgeVars, tierVars>>

\* Step 6, the observations.
ReactObserve ==
    /\ Advance("adopted", "idle")
    /\ capping = -1
    /\ intel' = intel \union observed
    /\ observed' = {}
    /\ UNCHANGED <<viewVars, queueVars, forecastSamples, failedSince, bridgeVars, tierVars,
                   cadenceVars>>

\* recover_automatic after a healthy probe, one lock after the other.
RecoverFlag ==
    /\ Advance("idle", "clear")
    /\ isolationActive' = FALSE
    /\ forecastSamples' = FALSE
    /\ UNCHANGED <<level, blackoutProfile, profile, queueVars, intel, observed, failedSince,
                   bridgeVars, tierVars, cadenceVars>>

RecoverClear ==
    /\ Advance("clear", "lower")
    /\ intel' = {}
    /\ UNCHANGED <<viewVars, queueVars, forecastSamples, observed, failedSince, bridgeVars,
                   tierVars, cadenceVars>>

RecoverLower ==
    /\ Advance("lower", "force")
    /\ SetLevel(0)
    /\ UNCHANGED <<viewVars, queueVars, forecastSamples, intel, observed, failedSince, bridgeVars,
                   tierVars>>

\* Mutant of RecoverForce: the transports keep what set_level left them.
RecoverForceNone ==
    /\ Advance("force", "flush")
    /\ capping = -1
    /\ failedSince' = {}
    /\ UNCHANGED <<viewVars, queueVars, forecastSamples, intel, observed, bridgeVars, tierVars,
                   cadenceVars>>

RecoverForce ==
    /\ Advance("force", "flush")
    /\ capping = -1
    /\ ForceAllDue
    /\ failedSince' = {}
    /\ UNCHANGED <<viewVars, queueVars, forecastSamples, intel, observed, bridgeVars, tierVars>>

RecoverFlush ==
    /\ Advance("flush", "reset")
    /\ markers' = 0 /\ dataItems' = 0
    /\ UNCHANGED <<viewVars, forecastSamples, intel, observed, failedSince, bridgeVars, tierVars,
                   cadenceVars>>

\* The blackout controller is reset last; `morpher` keeps its profile.
RecoverReset ==
    /\ Advance("reset", "idle")
    /\ BlackoutReact(Classify([severed |-> FALSE, dns |-> TRUE, dpi |-> FALSE]), {})
    /\ UNCHANGED <<profile, isolationActive, queueVars, forecastSamples, intel, observed,
                   failedSince, tierVars, cadenceVars>>

ObserveTransportResult(name, worked) ==
    /\ stage = "idle"
    /\ intel' = intel \union {<<name, IF worked THEN "Works" ELSE "Blocked">>}
    /\ UNCHANGED <<viewVars, queueVars, forecastSamples, callVars, failedSince, bridgeVars,
                   tierVars, cadenceVars>>

\* The probe loop, which shares the cadence: it probes, reports, and waits.
\* One loop has one probe of a transport out at a time.
ProbeLoop ==
    /\ \/ \E t \in CadenceTransports : TryProbe(t) \/ NoteFailure(t) \/ NoteSuccess(t)
       \/ \E percent \in Percents : NoteFailureSchedule(percent)
       \/ CadenceElapse
    /\ \A t \in CadenceTransports : inFlight'[t] <= 1
    /\ failedSince' = failedSince \union {n[1] : n \in noting \ noting'}
    /\ UNCHANGED <<viewVars, queueVars, forecastSamples, intel, callVars, bridgeVars, tierVars>>

IntegrationNext ==
    \/ \E signal \in Signals, reach \in SUBSET EndpointNames :
          ReactClassify(signal, reach, [n \in EndpointNames |-> 100])
    \/ ReactQueue \/ ReactAdopt \/ ReactObserve
    \/ RecoverFlag \/ RecoverClear \/ RecoverLower \/ RecoverForce \/ RecoverFlush \/ RecoverReset
    \/ CallCaps
    \/ EnqueueData
    \/ \E name \in Watched, worked \in BOOLEAN : ObserveTransportResult(name, worked)
    \/ ProbeLoop
    \/ \E e \in Endpoints : RegisterEndpoint(e) /\ UNCHANGED <<integrationVars, bridgeVars, cadenceVars>>

-----------------------------------------------------------------------------
IntegrationTypeOK ==
    /\ level \in Levels
    /\ markers + dataItems <= QueueItems
    /\ intel \subseteq (Watched \union EndpointNames \union {"primary-tls-core"}) \X {"Works", "Blocked"}

\* The four views of the network agree between calls, however reactions and
\* recoveries alternate and whatever probes run meanwhile: the classified level,
\* the isolation flag shown to the user, the level the probe cadence runs at, and
\* the blackout controller's profile (react_automatic steps 1 to 5,
\* recover_automatic).
ViewsAgree ==
    stage = "idle" =>
        /\ isolationActive = (Severity(level) >= 2)
        /\ cadenceLevel = Severity(level)
        /\ level = "Normal" => blackoutProfile \in {"https-browsing", "aparat-vod"}
        /\ level # "Normal" => blackoutProfile = RecommendedProfile(level)

\* "Make every transport immediately probeable" (recover_automatic): after a
\* recovery a transport waits only for a failure stored after its force_all_due,
\* whatever failures and levels came before.  ScheduleBounded says how long it
\* then waits; the note_failure that stores it may have begun before the recovery.
RecoveryPrompt == \A t \in CadenceTransports : wait[t] > 0 => t \in failedSince

\* "preserve queued data" (react_automatic, step 7): a reaction never discards
\* data that waits in the queue.
QueuedDataPreserved ==
    [][dataItems' < dataItems => dataItems' = 0 /\ level' = "Normal"]_<<dataItems, level, markers>>

\* "profile selection is a pure function of isolation level" (react_automatic,
\* step 2): whenever the level changes, the profile on the wire becomes the
\* one the new level calls for.
ProfileFollowsLevel ==
    [][level' # level => profile' = RecommendedProfile(level')]_<<level, profile>>
=============================================================================
