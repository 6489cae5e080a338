----------------------------- MODULE CoreSupervisor -----------------------------
(***************************************************************************)
(* core-supervisor/src/supervisor.rs over the managed-process adapter: the *)
(* lifecycle RPCs, the record kept per instance and the health watcher     *)
(* spawned with every record.                                              *)
(*                                                                         *)
(* A caller is an RPC handler in progress; every await of a handler ends a *)
(* step.  A record is an Arc: a watcher keeps the record it was started    *)
(* with, also after the record has left `instances`, and stop_core does    *)
(* not end the watcher.  started_at.elapsed() < restart_window is kept as  *)
(* the flag `fresh`, which time may take away at any moment.               *)
(***************************************************************************)
EXTENDS ManagedProcessAdapter
LOCAL INSTANCE TLC

CONSTANTS Callers,      \* concurrent RPC handlers
          MaxRecords,   \* bound on successful start_core calls
          MaxRestarts,  \* CoreConfig.max_restarts
          MaxRevision,  \* bound on policy revisions
          MaxCancels    \* bound on handlers dropped by a disconnecting client

Recs == 1..MaxRecords
ASSUME TaskAssumption ==
  Tasks = Callers \union Recs /\ Callers \intersect Recs = {} /\ IsFiniteSet(Callers)
ASSUME BoundAssumption ==
  MaxRecords \in Nat /\ MaxRestarts \in Nat /\ MaxRevision \in Nat /\ MaxCancels \in Nat

VARIABLES
  instances,  \* instances[id]: the record registered for id, 0 if none
  rec,        \* rec[r]: the record itself
  pc,         \* where the handler, or the watcher of record r, stands
  on,         \* on[c]: the id the handler works on
  arc,        \* arc[c]: the record the handler has cloned, 0 if none
  respawned,  \* history: processes launched by the watcher of record r
  cancels     \* handlers dropped so far

supVars == <<instances, rec, on, arc, respawned, cancels>>
vars == <<adapterVars, supVars, pc>>

\* Handlers are interchangeable, which TLC may exploit where no fairness is assumed.
Symmetry == Permutations(Callers)

Goto(k, where) == pc' = [pc EXCEPT ![k] = where]
Used == {r \in Recs : pc[r] # "unborn"}
Starting(c) == pc[c] \in {"start", "start_wait", "start_probe", "start_retry", "register"}
CleaningUp(c) == pc[c] \in {"cleanup", "cleanup_kill"}

Init ==
  /\ AdapterInit
  /\ instances = [id \in Ids |-> 0]
  /\ rec = [r \in Recs |-> [id |-> CHOOSE id \in Ids : TRUE, restarts |-> 0,
                            fresh |-> FALSE, revision |-> 0]]
  /\ pc = [k \in Tasks |-> IF k \in Callers THEN "idle" ELSE "unborn"]
  /\ on = [c \in Callers |-> CHOOSE id \in Ids : TRUE]
  /\ arc = [c \in Callers |-> 0]
  /\ respawned = [r \in Recs |-> 0]
  /\ cancels = 0
--------------------------------------------------------------------------------
(***************************************************************************)
(* start_core                                                              *)
(***************************************************************************)
StartCore(c, id) ==
  /\ pc[c] = "idle" /\ instances[id] = 0
  /\ Cardinality(Used) + Cardinality({d \in Callers : Starting(d)}) < MaxRecords
  /\ Goto(c, "start")
  /\ on' = [on EXCEPT ![c] = id]
  /\ UNCHANGED <<adapterVars, instances, rec, arc, respawned, cancels>>

StartAdapter(c) ==
  /\ pc[c] = "start"
  /\ \E ok \in BOOLEAN :
       /\ AdapterStart(c, on[c], ok)
       /\ Goto(c, IF ok THEN "start_wait" ELSE "idle")
  /\ UNCHANGED supVars

\* wait_for_startup_readiness, up to the answer of one probe.
ReadyGet(c, wait, probe, retry) ==
  /\ pc[c] = wait
  /\ \E found \in BOOLEAN :
       /\ HealthGet(c, on[c], found)
       /\ Goto(c, IF found THEN probe ELSE retry)
  /\ UNCHANGED supVars

ReadyCheck(c, probe, retry, ready) ==
  /\ pc[c] = probe
  /\ \E status \in {"Running", "Degraded", "Failed", "Error"} :
       /\ HealthAnswer(c, on[c], status)
       /\ Goto(c, IF status = "Running" THEN ready ELSE retry)
  /\ UNCHANGED supVars

\* The deadline has not passed: sleep and probe again.
ReadyAgain(c, retry, wait) ==
  /\ pc[c] = retry
  /\ Goto(c, wait)
  /\ UNCHANGED <<adapterVars, supVars>>

ReadyDeadline(c, retry, giveUp) ==
  /\ pc[c] = retry
  /\ Goto(c, giveUp)
  /\ UNCHANGED <<adapterVars, supVars>>

CleanUp(c) ==
  /\ pc[c] = "cleanup"
  /\ \E ok \in BOOLEAN :
       /\ AdapterTake(c, on[c], ok)
       /\ Goto(c, IF ok THEN "cleanup_kill" ELSE "idle")
  /\ UNCHANGED supVars

CleanUpKill(c) ==
  /\ pc[c] = "cleanup_kill"
  /\ \E ok \in BOOLEAN : AdapterStopKill(c, ok)
  /\ Goto(c, "idle")
  /\ UNCHANGED supVars

\* healthy() keeps the read guard of the map's shard across its probe, and a
\* writer of the same shard waits for it.
ShardFree(id) == \A c \in Callers : ~(pc[c] \in {"healthy", "healthy_probe"} /\ on[c] = id)

\* Mutant of NewRecord: one past the next record.
SkippedRecord == Cardinality(Used) + 2

NewRecord == CHOOSE r \in Recs \ Used : \A q \in Recs \ Used : r <= q

\* The record replaces whatever is registered for the id; its watcher starts.
Register(c) ==
  /\ pc[c] = "register" /\ ShardFree(on[c])
  /\ rec' = [rec EXCEPT ![NewRecord] =
               [id |-> on[c], restarts |-> 0, fresh |-> TRUE, revision |-> 0]]
  /\ instances' = [instances EXCEPT ![on[c]] = NewRecord]
  /\ pc' = [pc EXCEPT ![c] = "idle", ![NewRecord] = "sleep"]
  /\ UNCHANGED <<adapterVars, on, arc, respawned, cancels>>
--------------------------------------------------------------------------------
(***************************************************************************)
(* stop_core, restart_core, hot_swap, apply_policy, healthy                *)
(***************************************************************************)
Lookup(c, id, where) ==
  /\ pc[c] = "idle" /\ instances[id] # 0
  /\ Goto(c, where)
  /\ on' = [on EXCEPT ![c] = id]
  /\ arc' = [arc EXCEPT ![c] = IF where = "healthy" THEN 0 ELSE instances[id]]
  /\ UNCHANGED <<adapterVars, instances, rec, respawned, cancels>>

StopCore(c, id) == Lookup(c, id, "stop")

StopTake(c) ==
  /\ pc[c] = "stop"
  /\ \E ok \in BOOLEAN :
       /\ AdapterTake(c, on[c], ok)
       /\ Goto(c, IF ok THEN "stop_kill" ELSE "idle")
  /\ UNCHANGED supVars

StopKill(c) ==
  /\ pc[c] = "stop_kill"
  /\ \E ok \in BOOLEAN :
       /\ AdapterStopKill(c, ok)
       /\ Goto(c, IF ok THEN "unregister" ELSE "idle")
  /\ UNCHANGED supVars

Unregister(c) ==
  /\ pc[c] = "unregister" /\ ShardFree(on[c])
  /\ instances' = [instances EXCEPT ![on[c]] = 0]
  /\ Goto(c, "idle")
  /\ UNCHANGED <<adapterVars, rec, on, arc, respawned, cancels>>

\* The guard on restarts is a bound: past max_restarts every count acts alike.
RestartCore(c, id) ==
  /\ instances[id] # 0 /\ rec[instances[id]].restarts <= MaxRestarts
  /\ Lookup(c, id, "restart")

RestartTake(c) ==
  /\ pc[c] = "restart"
  /\ \E ok \in BOOLEAN :
       /\ AdapterTake(c, on[c], ok)
       /\ Goto(c, IF ok THEN "restart_kill" ELSE "idle")
  /\ UNCHANGED supVars

RestartKill(c) ==
  /\ pc[c] = "restart_kill"
  /\ \E ok \in BOOLEAN :
       /\ AdapterRestartKill(c, on[c], ok)
       /\ Goto(c, IF ok THEN "restart_wait" ELSE "idle")
  /\ UNCHANGED supVars

Restarted(r) == [rec EXCEPT ![r].restarts = @ + 1, ![r].fresh = TRUE]

RestartDone(c) ==
  /\ pc[c] = "restarted"
  /\ rec' = Restarted(arc[c])
  /\ Goto(c, "idle")
  /\ UNCHANGED <<adapterVars, instances, on, arc, respawned, cancels>>

\* Only the record changes; the protocol id it names is left out.
HotSwap(id) ==
  /\ instances[id] # 0
  /\ rec' = [rec EXCEPT ![instances[id]].fresh = TRUE]
  /\ UNCHANGED <<adapterVars, instances, pc, on, arc, respawned, cancels>>

ApplyPolicy(id, revision) ==
  /\ instances[id] # 0
  /\ revision > rec[instances[id]].revision
  /\ rec' = [rec EXCEPT ![instances[id]].revision = revision]
  /\ UNCHANGED <<adapterVars, instances, pc, on, arc, respawned, cancels>>

Healthy(c, id) == Lookup(c, id, "healthy")

HealthyGet(c) ==
  /\ pc[c] = "healthy"
  /\ \E found \in BOOLEAN :
       /\ HealthGet(c, on[c], found)
       /\ Goto(c, IF found THEN "healthy_probe" ELSE "idle")
  /\ UNCHANGED supVars

HealthyCheck(c) ==
  /\ pc[c] = "healthy_probe"
  /\ \E status \in {"Running", "Degraded", "Failed", "Error"} : HealthAnswer(c, on[c], status)
  /\ Goto(c, "idle")
  /\ UNCHANGED supVars

\* tonic drops the handler of a client that went away, at an await point: also
\* at the last one of restart_core (149), the child restarted and not counted.
Cancel(c) ==
  /\ cancels < MaxCancels /\ cancels' = cancels + 1
  /\ pc[c] \notin {"idle", "register", "unregister"}
  /\ AdapterCancel(c)
  /\ Goto(c, "idle")
  /\ UNCHANGED <<instances, rec, on, arc, respawned>>
--------------------------------------------------------------------------------
(***************************************************************************)
(* watch_and_restart                                                       *)
(***************************************************************************)
WatchGet(r) ==
  /\ pc[r] = "sleep"
  /\ \E found \in BOOLEAN :
       /\ HealthGet(r, rec[r].id, found)
       /\ Goto(r, IF found THEN "probe" ELSE "budget")
  /\ UNCHANGED supVars

WatchCheck(r) ==
  /\ pc[r] = "probe"
  /\ \E status \in {"Running", "Degraded", "Failed", "Error"} :
       /\ HealthAnswer(r, rec[r].id, status)
       /\ Goto(r, IF status \in {"Failed", "Error"} THEN "budget" ELSE "sleep")
  /\ UNCHANGED supVars

\* Mutant of WithinBudget: only the window is checked.
WithinWindow(r) == rec[r].fresh

WithinBudget(r) == rec[r].restarts < MaxRestarts /\ rec[r].fresh

WatchBudget(r) ==
  /\ pc[r] = "budget"
  /\ Goto(r, IF WithinBudget(r) THEN "restart" ELSE "exited")
  /\ UNCHANGED <<adapterVars, supVars>>

\* A failed restart is logged and counted like a successful one.
WatchTake(r) ==
  /\ pc[r] = "restart"
  /\ \E ok \in BOOLEAN :
       /\ AdapterTake(r, rec[r].id, ok)
       /\ Goto(r, IF ok THEN "kill" ELSE "count")
  /\ UNCHANGED supVars

WatchKill(r) ==
  /\ pc[r] = "kill"
  /\ \E ok \in BOOLEAN :
       /\ AdapterRestartKill(r, rec[r].id, ok)
       /\ respawned' = [respawned EXCEPT ![r] = IF ok THEN @ + 1 ELSE @]
  /\ Goto(r, "count")
  /\ UNCHANGED <<instances, rec, on, arc, cancels>>

\* Mutant of WatchCount: the attempt is not counted.
WatchForgets(r) ==
  /\ pc[r] = "count"
  /\ rec' = [rec EXCEPT ![r].fresh = TRUE]
  /\ Goto(r, "sleep")
  /\ UNCHANGED <<adapterVars, instances, on, arc, respawned, cancels>>

WatchCount(r) ==
  /\ pc[r] = "count"
  /\ rec' = Restarted(r)
  /\ Goto(r, "sleep")
  /\ UNCHANGED <<adapterVars, instances, on, arc, respawned, cancels>>

\* restart_window passes; once the budget is spent it is not looked at again.
Age(r) ==
  /\ rec[r].fresh /\ rec[r].restarts < MaxRestarts
  /\ rec' = [rec EXCEPT ![r].fresh = FALSE]
  /\ UNCHANGED <<adapterVars, instances, pc, on, arc, respawned, cancels>>
--------------------------------------------------------------------------------
ProbeWait(k) == HealthWait(k) /\ UNCHANGED <<supVars, pc>>
ChildStep(p) == (Listen(p) \/ Exit(p)) /\ UNCHANGED <<supVars, pc>>

\* Mutant of Deadline: an unready core is not cleaned up.
DeadlineLeaks(c) ==
  \/ ReadyDeadline(c, "start_retry", "idle")
  \/ ReadyDeadline(c, "restart_retry", "idle")

Deadline(c) ==
  \/ ReadyDeadline(c, "start_retry", "cleanup")
  \/ ReadyDeadline(c, "restart_retry", "idle")

CallerStep(c) ==
  \/ StartAdapter(c) \/ Register(c) \/ CleanUp(c) \/ CleanUpKill(c)
  \/ ReadyGet(c, "start_wait", "start_probe", "start_retry")
  \/ ReadyCheck(c, "start_probe", "start_retry", "register")
  \/ ReadyAgain(c, "start_retry", "start_wait")
  \/ StopTake(c) \/ StopKill(c) \/ Unregister(c)
  \/ RestartTake(c) \/ RestartKill(c) \/ RestartDone(c)
  \/ ReadyGet(c, "restart_wait", "restart_probe", "restart_retry")
  \/ ReadyCheck(c, "restart_probe", "restart_retry", "restarted")
  \/ ReadyAgain(c, "restart_retry", "restart_wait")
  \/ HealthyGet(c) \/ HealthyCheck(c)
  \/ Deadline(c)

WatcherStep(r) ==
  \/ WatchGet(r) \/ WatchCheck(r) \/ WatchBudget(r)
  \/ WatchTake(r) \/ WatchKill(r) \/ WatchCount(r)

Call(c) ==
  \/ \E id \in Ids : StartCore(c, id) \/ StopCore(c, id) \/ RestartCore(c, id) \/ Healthy(c, id)
  \/ Cancel(c)

Next ==
  \/ \E c \in Callers : Call(c) \/ CallerStep(c)
  \/ \E r \in Recs : WatcherStep(r) \/ Age(r)
  \/ \E id \in Ids : HotSwap(id) \/ \E v \in 1..MaxRevision : ApplyPolicy(id, v)
  \/ \E k \in Tasks : ProbeWait(k)
  \/ \E p \in Pids : ChildStep(p)

Spec == Init /\ [][Next]_vars

(***************************************************************************)
(* Fairness.  tokio polls every woken task and its mutex is first come,    *)
(* first served, hence strong fairness for the steps that need the         *)
(* lifecycle lock; a readiness loop that keeps sleeping reaches its        *)
(* deadline, because every round takes at least the probe interval.        *)
(***************************************************************************)
Fairness ==
  /\ \A c \in Callers : SF_vars(CallerStep(c)) /\ SF_vars(Deadline(c))
  /\ \A r \in Recs : SF_vars(WatcherStep(r))
  /\ \A k \in Tasks : WF_vars(ProbeWait(k))

FairSpec == Spec /\ Fairness
--------------------------------------------------------------------------------
(***************************************************************************)
(* Properties                                                              *)
(***************************************************************************)
\* Types of the supervisor's state (CoreSupervisor and InstanceRecord, 26-42).
TypeOK ==
  /\ AdapterTypeOK
  /\ instances \in [Ids -> 0..MaxRecords]
  /\ rec \in [Recs -> [id : Ids, restarts : Nat, fresh : BOOLEAN, revision : 0..MaxRevision]]
  /\ on \in [Callers -> Ids] /\ arc \in [Callers -> 0..MaxRecords]
  /\ respawned \in [Recs -> Nat] /\ cancels \in 0..MaxCancels

\* At most one live child per instance id that anybody can still reach: a
\* restart (core_adapters.rs 427-446) never runs two children side by side,
\* except while a probe keeps the Arc of a child dropped from the map.
OneChild ==
  \A p, q \in Pids :
    Alive(p) /\ Alive(q) /\ owner[p] = owner[q] /\ p # q =>
      \E k \in Tasks \ lifecycle : grab[k] \in {p, q}

\* No live child escapes the adapter: it is in the map, in the hands of the task
\* that holds the lifecycle lock, or kept by a probe in flight.
NoEscape ==
  \A p \in Pids : Alive(p) => entry[owner[p]] = p \/ \E k \in Tasks : grab[k] = p

\* A child of the id is in the map, or about to be replaced by a restart.
Tracked(id) ==
  \/ entry[id] # 0
  \/ \E c \in Callers : pc[c] = "restart_kill" /\ on[c] = id
  \/ \E r \in Recs : pc[r] = "kill" /\ rec[r].id = id

\* A start of the id that has spawned its child will register or clean it up.
Launching(id) ==
  \E c \in Callers :
    on[c] = id /\ pc[c] \in {"start_wait", "start_probe", "start_retry", "register", "cleanup"}

Reachable(id) == Tracked(id) => instances[id] # 0 \/ Launching(id)

\* Nothing runs that no RPC can reach (supervisor.rs 66-132), however starts,
\* stops, restarts and probes of the id interleave.  As long as no handler is
\* dropped, the one step that leaves a child without a record is that of a
\* stop which removes a record registered since it looked up its own.
StaysReachable ==
  [][\A id \in Ids :
       Reachable(id) /\ cancels' = 0 =>
         \/ Reachable(id)'
         \/ \E c \in Callers : pc[c] = "unregister" /\ on[c] = id /\ instances[id] # arc[c]]_vars

\* A tracked child always has a record, or a start in progress.
AlwaysReachable == \A id \in Ids : Reachable(id)

\* "Restarts a core within max_restarts" (302-303): the watcher of a record
\* launches at most max_restarts children in its life, whatever the restart
\* RPCs and policy pushes on the same record do to its counter and its clock.
RestartBudget == \A r \in Recs : respawned[r] <= MaxRestarts

\* A restart attempt of the watcher of a registered core, nobody else being at
\* work and no system call having failed, leaves a child in the map.
RestartRestarts ==
  \A r \in Recs :
    /\ pc[r] = "count" /\ instances[rec[r].id] = r /\ faults = 0
    /\ \A c \in Callers : pc[c] = "idle"
    => entry[rec[r].id] # 0

\* The effective revision of a core that stays registered never goes down.
RevisionMonotonic ==
  [][\A id \in Ids : instances[id] # 0 /\ instances'[id] # 0 =>
        rec'[instances'[id]].revision >= rec[instances[id]].revision]_vars

\* Only a task that holds the lifecycle lock ends a live child: a probe does not.
ProbeHarmless ==
  [][\A p \in Pids : Alive(p) /\ proc'[p] = "dead" => \E k \in lifecycle : grab[k] = p]_vars

\* Every RPC handler returns: nobody waits forever for the lifecycle mutex, the
\* child's lock, the shard of the map or a core that never gets ready.
HandlersReturn == \A c \in Callers : pc[c] # "idle" ~> pc[c] = "idle"

\* The watcher of a core that was stopped for good ends: stop_core does not tell
\* it, but its probes fail until the restart budget is spent (304-346).  A start
\* dropped half way may leave it a child to probe forever, hence no cancellation.
WatcherEnds ==
  \A r \in Recs :
    <>[](pc[r] # "unborn" /\ instances[rec[r].id] = 0 /\ cancels = 0)
      => <>(pc[r] = "exited")
================================================================================
