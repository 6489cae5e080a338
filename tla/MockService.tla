----------------------------- MODULE MockService ----------------------------
(***************************************************************************)
(* The supervisor's gRPC handlers (core-supervisor/src/grpc.rs) over the   *)
(* supervisor with its default in-process adapters: one MockCore shared by *)
(* every kind (core_adapters.rs). Handlers run concurrently; an await ends *)
(* a step, and a handler is dropped at an await when its client leaves.    *)
(* A MockCore keeps the entry of a stopped instance, so an instance id     *)
(* stands for the one record registered under it.                          *)
(***************************************************************************)
EXTENDS Naturals, Sequences, FiniteSets

CONSTANTS
  InstanceIds,
  ServiceCallers,     \* concurrent RPCs
  StartMessages,      \* start requests: [config, kind, protocol, json]
  WirePolicies,       \* policies on the wire: [revision, offsets, segments]
  MaxServiceCalls     \* bound on the calls made

VARIABLES
  mock,        \* MockCore.instances: id -> "absent", "Running" or "Stopped"
  mockRegistered,  \* CoreSupervisor.instances: the ids with a record
  coreRecords,     \* id -> its record, meaningful once registered
  rpc,         \* caller -> its call
  serviceCalls,
  startAnswers,   \* history: id -> start calls answered with success
  policyAnswers   \* history: id -> revisions answered as applied, in order

mockVars == <<mock, mockRegistered, coreRecords, rpc, serviceCalls, startAnswers, policyAnswers>>
supervised == <<mock, mockRegistered, coreRecords>>
rpcAnswers == <<startAnswers, policyAnswers>>

CoreKinds == <<"Unspecified", "Xray", "SingBox", "AmneziaWg", "Naive", "Persis">>

\* kind_from_proto: a discriminant on the wire, or no kind.
KindFromProto(k) == IF k \in 0..5 THEN CoreKinds[k + 1] ELSE "unknown"

\* default_adapters, without the external mode: the mock, for every kind but Unspecified.
Adapters == {"Xray", "SingBox", "AmneziaWg", "Naive", "Persis"}

\* core_config_from_proto and the check before it: the status a request is
\* refused with, or "none".
ConfigRefusal(m) ==
  IF ~m.config THEN "invalid_argument"
  ELSE IF KindFromProto(m.kind) = "unknown" THEN "internal"
  ELSE IF m.protocol /\ m.json THEN "none" ELSE "invalid_argument"

\* policy_from_proto keeps four offsets and the low byte of the segment count.
PolicyFromProto(p) ==
  [revision |-> p.revision, segments |-> p.segments % 256,
   offsets |-> SubSeq(p.offsets, 1, IF Len(p.offsets) < 4 THEN Len(p.offsets) ELSE 4)]

StatusFrom(error) ==
  CASE error = "InstanceNotFound" -> "not_found" [] error = "InstanceExists" -> "already_exists"
    [] error = "StalePolicy" -> "failed_precondition" [] OTHER -> "internal"

NoRpc == [at |-> "idle", id |-> CHOOSE i \in InstanceIds : TRUE, kind |-> "unknown", code |-> "none", listed |-> {}]
NewRecord(kind) == [kind |-> kind, swapped |-> FALSE, restarts |-> 0, revision |-> 0]

MockInit ==
  /\ mock = [i \in InstanceIds |-> "absent"] /\ mockRegistered = {} /\ serviceCalls = 0
  /\ coreRecords = [i \in InstanceIds |-> NewRecord("unknown")]
  /\ rpc = [c \in ServiceCallers |-> NoRpc]
  /\ startAnswers = [i \in InstanceIds |-> 0] /\ policyAnswers = [i \in InstanceIds |-> <<>>]

Goes(c, at) == rpc' = [rpc EXCEPT ![c].at = at]
Answered(c, code) == rpc' = [rpc EXCEPT ![c].at = "answered", ![c].code = code]

\* A call begins; `listed` is what was listed then (history).
Called(c, id, kind, at, code) ==
  /\ rpc[c].at = "idle" /\ serviceCalls < MaxServiceCalls /\ serviceCalls' = serviceCalls + 1
  /\ rpc' = [rpc EXCEPT ![c] = [at |-> at, id |-> id, kind |-> kind, code |-> code, listed |-> mockRegistered]]
  /\ UNCHANGED <<supervised, rpcAnswers>>

\* start_core up to the adapter's start: the request is converted, the id must
\* be free and its kind must have an adapter.
StartRpc(c, id, m) ==
  LET kind == KindFromProto(m.kind)
      refusal == IF ConfigRefusal(m) # "none" THEN ConfigRefusal(m)
                 ELSE IF id \in mockRegistered THEN StatusFrom("InstanceExists")
                 ELSE IF kind \in Adapters THEN "none" ELSE StatusFrom("Generic")
  IN Called(c, id, kind, IF refusal = "none" THEN "start" ELSE "answered", refusal)

\* Mutant of MockFree: the entry of a stopped instance may be taken again, while
\* one that runs is replaced.
MockFreeAlways(id) == TRUE

\* MockCore.start takes a vacant entry only.
MockFree(id) == mock[id] = "absent"

MockStart(c) ==
  /\ rpc[c].at = "start"
  /\ IF MockFree(rpc[c].id)
     THEN Goes(c, "ready") /\ mock' = [mock EXCEPT ![rpc[c].id] = "Running"]
     ELSE Answered(c, StatusFrom("InstanceExists")) /\ UNCHANGED mock
  /\ UNCHANGED <<mockRegistered, coreRecords, serviceCalls, rpcAnswers>>

\* The readiness probe succeeds and the record is registered.
RegisterStarted(c) ==
  LET id == rpc[c].id
  IN /\ rpc[c].at = "ready" /\ mock[id] = "Running"
     /\ mockRegistered' = mockRegistered \cup {id} /\ coreRecords' = [coreRecords EXCEPT ![id] = NewRecord(rpc[c].kind)]
     /\ startAnswers' = [startAnswers EXCEPT ![id] = @ + 1]
     /\ Answered(c, "ok") /\ UNCHANGED <<mock, serviceCalls, policyAnswers>>

\* The handlers that look a record up first.
RecordRpc(c, id, at) ==
  IF id \in mockRegistered THEN Called(c, id, "unknown", at, "none")
  ELSE Called(c, id, "unknown", "answered", StatusFrom("InstanceNotFound"))

\* Mutant of StopRecord: the record stays registered.
StopRecordKeeps(id) == mockRegistered

StopRecord(id) == mockRegistered \ {id}

\* stop_core's end: MockCore.stop, after its drain, and the removal of the
\* record, with no await between them.
MockStop(c) ==
  /\ rpc[c].at = "stop"
  /\ mock' = [mock EXCEPT ![rpc[c].id] = "Stopped"] /\ mockRegistered' = StopRecord(rpc[c].id)
  /\ Answered(c, "ok") /\ UNCHANGED <<coreRecords, serviceCalls, rpcAnswers>>

MockRestart(c) ==
  /\ rpc[c].at = "restart"
  /\ mock' = [mock EXCEPT ![rpc[c].id] = "Running"]
  /\ Goes(c, "restarted") /\ UNCHANGED <<mockRegistered, coreRecords, serviceCalls, rpcAnswers>>

\* The readiness wait of restart_core ends well, or at its deadline.
CountRestart(c) ==
  /\ rpc[c].at = "restarted"
  /\ IF mock[rpc[c].id] = "Running"
     THEN coreRecords' = [coreRecords EXCEPT ![rpc[c].id].restarts = @ + 1] /\ Answered(c, "ok")
     ELSE Answered(c, StatusFrom("Generic")) /\ UNCHANGED coreRecords
  /\ UNCHANGED <<mock, mockRegistered, serviceCalls, rpcAnswers>>

HotSwap(c) ==
  /\ rpc[c].at = "swap" /\ coreRecords' = [coreRecords EXCEPT ![rpc[c].id].swapped = TRUE]
  /\ Answered(c, "ok") /\ UNCHANGED <<mock, mockRegistered, serviceCalls, rpcAnswers>>

\* Mutant of Stale: a policy with the effective revision is applied again.
StaleOlder(revision, effective) == revision < effective

Stale(revision, effective) == revision <= effective

ApplyPolicy(c, p) ==
  LET id == rpc[c].id  policy == PolicyFromProto(p)
  IN /\ rpc[c].at = "policy"
     /\ IF Stale(policy.revision, coreRecords[id].revision)
        THEN Answered(c, StatusFrom("StalePolicy")) /\ UNCHANGED <<coreRecords, policyAnswers>>
        ELSE /\ coreRecords' = [coreRecords EXCEPT ![id].revision = policy.revision]
             /\ policyAnswers' = [policyAnswers EXCEPT ![id] = Append(@, policy.revision)]
             /\ Answered(c, "ok")
     /\ UNCHANGED <<mock, mockRegistered, serviceCalls, startAnswers>>

\* healthy, and health_check's answer.
Healthy == \A i \in mockRegistered : mock[i] = "Running"

\* CoreSupervisor.list_cores: an entry per record; metrics that cannot be had
\* are the default ones.
ListedCores == {[id |-> i, restarts |-> coreRecords[i].restarts] : i \in mockRegistered}

\* The service's list_cores says Running of each of them.
ListCores == {[id |-> l.id, kind |-> "Unspecified", status |-> "Running", restarts |-> l.restarts] : l \in ListedCores}

\* The client takes the answer, or leaves while the handler waits.
Finish(c) ==
  /\ rpc[c].at \in {"answered", "start", "stop", "restart", "restarted", "swap", "policy"}
  /\ rpc' = [rpc EXCEPT ![c] = NoRpc] /\ UNCHANGED <<supervised, serviceCalls, rpcAnswers>>

\* stop_core's lookup; at least a millisecond is left for the drain.
StopRpc(c, id) == RecordRpc(c, id, "stop")

MockNext ==
  \E c \in ServiceCallers :
    \/ \E id \in InstanceIds :
         \/ \E m \in StartMessages : StartRpc(c, id, m)
         \/ StopRpc(c, id)
         \/ \E at \in {"restart", "swap", "policy"} : RecordRpc(c, id, at)
    \/ MockStart(c) \/ RegisterStarted(c) \/ MockStop(c) \/ MockRestart(c) \/ CountRestart(c)
    \/ HotSwap(c) \/ (\E p \in WirePolicies : ApplyPolicy(c, p)) \/ Finish(c)

MockTypeOK ==
  /\ mock \in [InstanceIds -> {"absent", "Running", "Stopped"}] /\ mockRegistered \subseteq InstanceIds
  /\ serviceCalls \in 0..MaxServiceCalls

-----------------------------------------------------------------------------
Quiet == \A c \in ServiceCallers : rpc[c].at \in {"idle", "answered"}

\* Whatever calls interleave and whichever clients leave, an instance that is
\* listed when no call is under way runs, so the readiness probe answers
\* Serving and the status Running that list_cores reports is true.
ListedRuns == Quiet => Healthy /\ \A l \in ListCores : mock[l.id] = l.status

\* Of all the start calls made for an instance id, however they race with each
\* other and with stop, at most one is answered with success: the check of the
\* registered ids and MockCore's vacant entry together (start_core).
StartedOnce == \A i \in InstanceIds : startAnswers[i] <= 1

\* The revisions answered as applied to an instance strictly increase, and the
\* last of them is the one in effect (apply_policy, under the record's lock).
RevisionsIncrease ==
  \A i \in InstanceIds :
    /\ \A j, k \in DOMAIN policyAnswers[i] : j < k => policyAnswers[i][j] < policyAnswers[i][k]
    /\ policyAnswers[i] # <<>> => coreRecords[i].revision = policyAnswers[i][Len(policyAnswers[i])]

\* "Caller tried to start an instance id that already exists": a start refused
\* as already existing names an instance listed during the call.
ExistsMeansListed ==
  \A c \in ServiceCallers :
    rpc[c].at = "answered" /\ rpc[c].code = "already_exists" =>
      rpc[c].id \in rpc[c].listed \cup mockRegistered
=============================================================================
