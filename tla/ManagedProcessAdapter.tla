------------------------- MODULE ManagedProcessAdapter -------------------------
(***************************************************************************)
(* core-supervisor/src/core_adapters.rs, ManagedProcessAdapter: the owner  *)
(* of the child processes of external cores.                               *)
(*                                                                         *)
(* start, stop and restart run under the `lifecycle` mutex; health does    *)
(* not take it.  stop and restart take the instance out of the map and     *)
(* then await its death: two steps here.  health clones the Arc of the     *)
(* instance, asks the child under its lock whether it has exited, and only *)
(* then removes the id from the map or probes the listener: three steps,   *)
(* and the map may have changed in between.                                *)
(*                                                                         *)
(* Children are spawned with kill_on_drop: one dies with the last Arc that *)
(* refers to it, be that the map's or a task's.                            *)
(*                                                                         *)
(* The operators below are the adapter's part of a step of task k; the     *)
(* caller of the adapter (CoreSupervisor) says where k goes next.          *)
(***************************************************************************)
EXTENDS Integers, FiniteSets

CONSTANTS Ids,       \* instance ids
          Tasks,     \* tasks that call the adapter
          MaxPids,   \* process slots: a dead process nobody refers to is reused
          MaxFaults  \* bound on failing system calls

ASSUME PidAssumption == MaxPids \in Nat
ASSUME FaultAssumption == MaxFaults \in Nat
ASSUME IdAssumption == Ids # {}

VARIABLES
  entry,      \* entry[id]: process tracked for id in `instances`, 0 if none
  proc,       \* proc[p]: state of process p
  owner,      \* owner[p]: the id process p was spawned for
  lifecycle,  \* tasks that hold the lifecycle mutex (at most one)
  grab,       \* grab[k]: the instance task k has cloned or removed, 0 if none
  waited,     \* waited[k]: what try_wait told the health probe of task k
  faults      \* failing system calls so far

adapterVars == <<entry, proc, owner, lifecycle, grab, waited, faults>>

Pids == 1..MaxPids
Unused == {p \in Pids : /\ proc[p] \in {"unborn", "dead"}
                        /\ \A k \in Tasks : grab[k] # p
                        /\ \A id \in Ids : entry[id] # p}
Alive(p) == proc[p] \in {"starting", "listening"}
ExitedOrDead(p) == proc[p] \in {"exited", "dead"}
Fault == faults < MaxFaults /\ faults' = faults + 1

AdapterInit ==
  /\ entry = [id \in Ids |-> 0]
  /\ proc = [p \in Pids |-> "unborn"]
  /\ owner = [p \in Pids |-> CHOOSE id \in Ids : TRUE]
  /\ lifecycle = {}
  /\ grab = [k \in Tasks |-> 0]
  /\ waited = [k \in Tasks |-> "none"]
  /\ faults = 0

\* launch_contract and spawn_process succeed: a child and its map entry.
Spawned(id, p) ==
  /\ p \in Unused /\ \A q \in Unused : p <= q
  /\ owner' = [owner EXCEPT ![p] = id]
  /\ entry' = [entry EXCEPT ![id] = p]

AdapterStart(k, id, ok) ==
  /\ lifecycle = {}
  /\ \/ /\ ~ok /\ entry[id] # 0
        /\ UNCHANGED adapterVars
     \/ /\ ~ok /\ entry[id] = 0 /\ Fault
        /\ UNCHANGED <<entry, proc, owner, lifecycle, grab, waited>>
     \/ /\ ok /\ entry[id] = 0
        /\ \E p \in Pids : Spawned(id, p) /\ proc' = [proc EXCEPT ![p] = "starting"]
        /\ UNCHANGED <<lifecycle, grab, waited, faults>>

\* First half of stop and restart: lock, and remove the instance from the map.
AdapterTake(k, id, ok) ==
  /\ lifecycle = {}
  /\ ok <=> entry[id] # 0
  /\ IF ok
     THEN /\ grab' = [grab EXCEPT ![k] = entry[id]]
          /\ entry' = [entry EXCEPT ![id] = 0]
          /\ lifecycle' = {k}
          /\ UNCHANGED <<proc, owner, waited, faults>>
     ELSE UNCHANGED adapterVars

\* terminate fails for a child already reaped (start_kill), or when a system
\* call fails or the child outlives the timeout.
Terminates(k, ok) ==
  \/ ok /\ proc[grab[k]] # "dead" /\ UNCHANGED faults
  \/ ~ok /\ proc[grab[k]] = "dead" /\ UNCHANGED faults
  \/ ~ok /\ proc[grab[k]] # "dead" /\ Fault

\* Mutants of AdapterStopKill: the child survives; the lock is not released.
AdapterStopSpares(k, ok) ==
  /\ lifecycle = {k}
  /\ Terminates(k, ok)
  /\ lifecycle' = {}
  /\ grab' = [grab EXCEPT ![k] = 0]
  /\ UNCHANGED <<entry, proc, owner, waited>>
AdapterStopKeepsLock(k, ok) ==
  /\ lifecycle = {k}
  /\ Terminates(k, ok)
  /\ proc' = [proc EXCEPT ![grab[k]] = "dead"]
  /\ grab' = [grab EXCEPT ![k] = 0]
  /\ UNCHANGED <<entry, owner, lifecycle, waited>>

\* Second half of stop.  The child has been sent SIGKILL in every case in which
\* it was still running.
AdapterStopKill(k, ok) ==
  /\ lifecycle = {k}
  /\ Terminates(k, ok)
  /\ proc' = [proc EXCEPT ![grab[k]] = "dead"]
  /\ lifecycle' = {}
  /\ grab' = [grab EXCEPT ![k] = 0]
  /\ UNCHANGED <<entry, owner, waited>>

\* Mutant of AdapterRestartKill: the replacement is launched beside the old child.
AdapterRestartSpares(k, id, ok) ==
  /\ lifecycle = {k} /\ ok /\ UNCHANGED faults
  /\ \E p \in Pids : Spawned(id, p) /\ proc' = [proc EXCEPT ![p] = "starting"]
  /\ lifecycle' = {}
  /\ grab' = [grab EXCEPT ![k] = 0]
  /\ UNCHANGED waited

\* Second half of restart: terminate, then launch the replacement.  After a
\* failure of either, the old child is dead and the id no longer in the map.
AdapterRestartKill(k, id, ok) ==
  /\ lifecycle = {k}
  /\ Terminates(k, ok)
  /\ IF ok
     THEN \E p \in Pids :
            /\ Spawned(id, p)
            /\ proc' = [proc EXCEPT ![grab[k]] = "dead", ![p] = "starting"]
     ELSE /\ proc' = [proc EXCEPT ![grab[k]] = "dead"]
          /\ UNCHANGED <<entry, owner>>
  /\ lifecycle' = {}
  /\ grab' = [grab EXCEPT ![k] = 0]
  /\ UNCHANGED waited

\* health, first step: clone the Arc, or fail when the id is not in the map.
HealthGet(k, id, found) ==
  /\ found <=> entry[id] # 0
  /\ grab' = [grab EXCEPT ![k] = entry[id]]
  /\ UNCHANGED <<entry, proc, owner, lifecycle, waited, faults>>

\* health, second step: try_wait under the child's lock, which terminate holds
\* while it waits for the child.  An exited child is reaped.
HealthWait(k) ==
  /\ grab[k] # 0 /\ k \notin lifecycle /\ waited[k] = "none"
  /\ \A j \in lifecycle : grab[j] # grab[k]
  /\ waited' = [waited EXCEPT ![k] = IF ExitedOrDead(grab[k]) THEN "exited" ELSE "alive"]
  /\ proc' = [proc EXCEPT ![grab[k]] = IF ExitedOrDead(grab[k]) THEN "dead" ELSE @]
  /\ UNCHANGED <<entry, owner, lifecycle, grab, faults>>

\* kill_on_drop, once entry' and grab' are given: what nothing refers to dies.
DropArcs ==
  proc' = [p \in Pids |->
             IF proc[p] \in {"starting", "listening", "exited"}
                /\ (\A id \in Ids : entry'[id] # p) /\ (\A j \in Tasks : grab'[j] # p)
             THEN "dead" ELSE proc[p]]

\* health, last step.  An exited child takes the id out of the map, whichever
\* process the id stands for by now.  The TCP probe goes to the address in the
\* configuration: any listener of this id answers it.
HealthAnswer(k, id, status) ==
  /\ \/ /\ waited[k] = "exited" /\ status = "Failed"
        /\ entry' = [entry EXCEPT ![id] = 0]
        /\ UNCHANGED faults
     \/ /\ waited[k] = "alive" /\ status = "Running"
        /\ \E p \in Pids : owner[p] = id /\ proc[p] = "listening"
        /\ UNCHANGED <<entry, faults>>
     \/ /\ waited[k] = "alive" /\ status = "Degraded"
        /\ UNCHANGED <<entry, faults>>
     \/ /\ waited[k] = "none" /\ status = "Error" /\ Fault  \* try_wait failed
        /\ UNCHANGED entry
  /\ grab' = [grab EXCEPT ![k] = 0]
  /\ waited' = [waited EXCEPT ![k] = "none"]
  /\ DropArcs
  /\ UNCHANGED <<owner, lifecycle>>

\* Mutant of AdapterCancel: children are not spawned with kill_on_drop.
AdapterCancelSpares(k) ==
  /\ waited[k] # "exited"
  /\ lifecycle' = lifecycle \ {k}
  /\ grab' = [grab EXCEPT ![k] = 0]
  /\ waited' = [waited EXCEPT ![k] = "none"]
  /\ UNCHANGED <<entry, proc, owner, faults>>

\* The future of task k is dropped at an await point: the lock and the Arc go.
\* A terminate that had already sent SIGKILL has killed its child.
AdapterCancel(k) ==
  /\ waited[k] # "exited"  \* no await between try_wait and the removal
  /\ lifecycle' = lifecycle \ {k}
  /\ grab' = [grab EXCEPT ![k] = 0]
  /\ waited' = [waited EXCEPT ![k] = "none"]
  /\ UNCHANGED <<entry, owner, faults>>
  /\ \/ DropArcs
     \/ k \in lifecycle /\ proc' = [proc EXCEPT ![grab[k]] = "dead"]

(* The child processes themselves. *)
Listen(p) ==
  /\ proc[p] = "starting"
  /\ proc' = [proc EXCEPT ![p] = "listening"]
  /\ UNCHANGED <<entry, owner, lifecycle, grab, waited, faults>>

Exit(p) ==
  /\ Alive(p)
  /\ proc' = [proc EXCEPT ![p] = "exited"]
  /\ UNCHANGED <<entry, owner, lifecycle, grab, waited, faults>>

\* Types of the adapter's state (ManagedProcessAdapter, 243-250) and the children.
AdapterTypeOK ==
  /\ entry \in [Ids -> 0..MaxPids]
  /\ proc \in [Pids -> {"unborn", "starting", "listening", "exited", "dead"}]
  /\ owner \in [Pids -> Ids]
  /\ lifecycle \in SUBSET Tasks
  /\ grab \in [Tasks -> 0..MaxPids]
  /\ waited \in [Tasks -> {"none", "exited", "alive"}]
  /\ faults \in 0..MaxFaults
================================================================================
