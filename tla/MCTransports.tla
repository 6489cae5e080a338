---------------------------- MODULE MCTransports ----------------------------
(***************************************************************************)
(* The transports and their signals for TLC.  But for the engine, which    *)
(* drives the relay, the components share no state, so `focus` picks the   *)
(* one a behaviour exercises and the others rest in one of their initial   *)
(* states.                                                                 *)
(***************************************************************************)
EXTENDS
  ReverseRelay, EnterpriseEngine, QuicPaths, HappyEyeballs, SockRedirect,
  FrontingWhitelist, DomesticIntel, ProbeDefense, TrafficMorph,
  AdaptiveDecision, FecEngine, LiveSignals, TLC

CONSTANTS
  Focus,    \* the components to exercise
  t1, t2, k1, k2, f1, f2, s1, s2

VARIABLE focus

vars == <<focus,
  relayVars, chainVars, migrationVars, multipathVars, loopVars, eyeVars,
  sockVars, xdpVars, shadowVars, frontVars, intelVars, defenseVars, stackVars,
  deciderVars, morphVars, fecVars, forecastVars, signalVars>>

Symmetry == Permutations({t1, t2})

InterfaceRtt == [i \in {"wlan0", "rmnet0"} |-> IF i = "wlan0" THEN 20 ELSE 60]

MCEyes == <<[id |-> "tls", ipv6 |-> FALSE, priority |-> 2], [id |-> "v6", ipv6 |-> TRUE, priority |-> 3], [id |-> "doh", ipv6 |-> FALSE, priority |-> 1]>>

FrontDefaults == <<[sni |-> "shop", category |-> "ECommerce", priority |-> 20, reachable |-> TRUE]>>
FrontOffered == {[sni |-> "bank", category |-> "Banking", priority |-> 30, reachable |-> TRUE]}
FrontPairs == {[front |-> "shop", real |-> "core"]}

IntelCandidateList == <<"u1", "obfs4", "u2">>

DefenseDecoys == [shop |-> 10, video |-> 20]

MCCascade == <<"reality-vision", "hysteria2", "tuic-v5">>
MCSamples == {[loss |-> FALSE, ack |-> 10, rtt |-> 50], [loss |-> TRUE, ack |-> 10, rtt |-> 50], [loss |-> FALSE, ack |-> 90, rtt |-> 400]}

Residues == 0..23

FecPayloads == {<<7>>, <<0, 255, 3>>, <<5, 5, 129, 200>>}

OfferedHealth ==
  {[success |-> 100, rst |-> 0, trunc |-> 0, dns |-> 0], [success |-> 94, rst |-> 10, trunc |-> 12, dns |-> 0],
   [success |-> 84, rst |-> 0, trunc |-> 0, dns |-> 0], [success |-> 90, rst |-> 0, trunc |-> 20, dns |-> 51]}

SeenTls == {[at |-> "done", by |-> "none"], [at |-> "handshake", by |-> "reset"], [at |-> "handshake", by |-> "deadline"], [at |-> "connect", by |-> "refused"]}
OfferedConfigs == [intl : {1, 2}, dom : {1}, tls : {1}, dns : {2}, window : {1, 2}]
SeenTcp == {[ok |-> 0, reset |-> 0], [ok |-> 1, reset |-> 0], [ok |-> 2, reset |-> 0], [ok |-> 0, reset |-> 2]}
SeenDns == {[valid |-> 2, bad |-> 0], [valid |-> 0, bad |-> 1]}

Init ==
  /\ focus \in Focus
  /\ RelayInit
  /\ ChainInit
  /\ MigrationInit
  /\ MultipathInit
  /\ LoopInit
  /\ EyeInit
  /\ SockInit
  /\ XdpInit
  /\ ShadowInit
  /\ FrontInit
  /\ IntelInit
  /\ DefenseInit
  /\ StackInit
  /\ DeciderInit
  /\ MorphInit
  /\ FecInit /\ (focus # "fec" => fecConfig = ForLoss(Min(DataShards), 300000))
  /\ ForecastInit
  /\ SignalInit

\* Every component but f keeps its state.
OthersRest(f) ==
  /\ IF f \in {"relay", "engine"} THEN TRUE ELSE UNCHANGED relayVars
  /\ IF f = "engine" THEN TRUE ELSE UNCHANGED chainVars
  /\ IF f = "quic" THEN TRUE ELSE UNCHANGED migrationVars
  /\ IF f = "mpquic" THEN TRUE ELSE UNCHANGED multipathVars
  /\ IF f = "loop" THEN TRUE ELSE UNCHANGED loopVars
  /\ IF f = "eye" THEN TRUE ELSE UNCHANGED eyeVars
  /\ IF f = "sock" THEN TRUE ELSE UNCHANGED sockVars
  /\ IF f = "xdp" THEN TRUE ELSE UNCHANGED xdpVars
  /\ IF f = "shadow" THEN TRUE ELSE UNCHANGED shadowVars
  /\ IF f = "front" THEN TRUE ELSE UNCHANGED frontVars
  /\ IF f = "intel" THEN TRUE ELSE UNCHANGED intelVars
  /\ IF f = "probe" THEN TRUE ELSE UNCHANGED defenseVars
  /\ IF f = "stack" THEN TRUE ELSE UNCHANGED stackVars
  /\ IF f = "decider" THEN TRUE ELSE UNCHANGED deciderVars
  /\ IF f = "morph" THEN TRUE ELSE UNCHANGED morphVars
  /\ IF f = "fec" THEN TRUE ELSE UNCHANGED fecVars
  /\ IF f = "forecast" THEN TRUE ELSE UNCHANGED forecastVars
  /\ IF f = "live" THEN TRUE ELSE UNCHANGED signalVars

Next ==
  /\ UNCHANGED focus
  /\ \/ focus = "relay" /\ RelayNext /\ OthersRest("relay")
     \/ focus = "engine" /\ EngineNext /\ OthersRest("engine")
     \/ focus = "quic" /\ MigrationNext /\ OthersRest("quic")
     \/ focus = "mpquic" /\ MultipathNext /\ OthersRest("mpquic")
     \/ focus = "loop" /\ LoopNext /\ OthersRest("loop")
     \/ focus = "eye" /\ EyeNext /\ OthersRest("eye")
     \/ focus = "sock" /\ SockNext /\ OthersRest("sock")
     \/ focus = "xdp" /\ XdpNext /\ OthersRest("xdp")
     \/ focus = "shadow" /\ ShadowNext /\ OthersRest("shadow")
     \/ focus = "front" /\ FrontNext /\ OthersRest("front")
     \/ focus = "intel" /\ IntelNext /\ OthersRest("intel")
     \/ focus = "probe" /\ DefenseNext /\ OthersRest("probe")
     \/ focus = "stack" /\ StackNext /\ OthersRest("stack")
     \/ focus = "decider" /\ DeciderNext /\ OthersRest("decider")
     \/ focus = "morph" /\ MorphNext /\ OthersRest("morph")
     \/ focus = "fec" /\ FecNext /\ OthersRest("fec")
     \/ focus = "forecast" /\ ForecastNext /\ OthersRest("forecast")
     \/ focus = "live" /\ SignalNext /\ OthersRest("live")

Spec == Init /\ [][Next]_vars

\* Every component's state is well typed.
TypeOK ==
  /\ RelayTypeOK
  /\ EngineTypeOK
  /\ MigrationTypeOK
  /\ MultipathTypeOK
  /\ LoopTypeOK
  /\ EyeTypeOK
  /\ SockTypeOK
  /\ XdpTypeOK
  /\ ShadowTypeOK
  /\ FrontTypeOK
  /\ IntelTypeOK
  /\ DefenseTypeOK
  /\ StackTypeOK
  /\ DeciderTypeOK
  /\ MorphTypeOK
  /\ FecTypeOK
  /\ ForecastTypeOK
  /\ SignalTypeOK

(* Where one fact is kept in two places under two locks, the two differ    *)
(* only while a call is between its locks, or after two calls about the    *)
(* same item overlapped in the way the conjunct names: the relay's status  *)
(* and its tunnel, the map of paths and the list of active interfaces, the *)
(* whitelist's set and its entries, the two layers of the stack profile,   *)
(* the XDP mode and its adapter. With no call under way, a socket in       *)
(* migration has the shadow that ends it.                                  *)
TwoLockStateAgrees ==
  /\ ReportedTransportUp
  /\ PathsAgree
  /\ WhitelistAgrees
  /\ LayersAgree
  /\ XdpModeFits
  /\ NoStuckMigration

(* What happens once is counted once, however the callers interleave, and  *)
(* what goes in comes out: the paths carry no more bytes than were sent in *)
(* total, every loopback segment is held, acknowledged or evicted and the  *)
(* replay misses none that is held, every redirect and every interception  *)
(* has one outcome, a race that returned reports each candidate it probed  *)
(* once, session ids and incremental IP identifiers are not handed out     *)
(* twice, and a payload survives its morphing, its fingerprint and the     *)
(* loss of as many shards as the erasure code promises to cover.           *)
\* What is costly is evaluated for the behaviours of its component only.
NothingLostOrDoubled ==
  /\ PathBytesWithinTotal
  /\ LoopbackAccounted
  /\ focus = "loop" => ReplayComplete
  /\ RedirectsPartition
  /\ InterceptionsAttributed
  /\ ProbedReportedOnce
  /\ SessionIdsUnique
  /\ IncrementalIdsDistinct
  /\ MorphKeepsBytes
  /\ FingerprintComplete
  /\ AnyKShardsDecode
  /\ LossCovered

(* A verdict has the evidence the code asks for behind it: the mark of a   *)
(* validated path was earned by an answer since the path was taken, the    *)
(* winner of a race was the first to succeed, the steps of a fallback      *)
(* explain its answer, a device calls its own only what it saw itself      *)
(* whatever the mesh claims, hearsay moves a score by no more than the cap *)
(* per name and only reorders the attempts, a probe was seen to send       *)
(* hellos, and an outage is called severed, blocked or interfered with     *)
(* exactly when the window of samples says so.                             *)
\* What is costly is evaluated for the behaviours of its component only.
VerdictsFollowEvidence ==
  /\ MarkEarnedHere
  /\ WinnerIsFirstSuccess
  /\ StepsExplainWinner
  /\ OwnWordIsFirstHand
  /\ focus = "intel" => PeerInfluenceCapped /\ AttemptsReordered
  /\ ProbeNeedsHellos
  /\ RatesExact
  /\ AdviceHasEvidence
  /\ SustainedBlockAdvised
  /\ AdviceFollowsHistory
  /\ SeveredExactly
  /\ TimeoutNotInterference

(* What a step may never do: put up a tunnel of a kind that failures had   *)
(* taken out of service before auto_failover looked, leave bytes of a      *)
(* bonded send on no interface while every interface it read is still      *)
(* there, credit a redirect to a socket other than its destination, or     *)
(* switch the policy on fewer fresh outcomes than it asks for.             *)
StepsAreJustified ==
  /\ NoTunnelOverDeadKind
  /\ BondedConserves
  /\ CreditedToDestination
  /\ SwitchOnFreshEvidence
=============================================================================
