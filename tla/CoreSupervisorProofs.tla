-------------------------- MODULE CoreSupervisorProofs --------------------------
(***************************************************************************)
(* Proofs about CoreSupervisor and the adapter below it, for every number  *)
(* of ids, handlers, records and process slots, with faults and cancelled  *)
(* handlers.  The adapter's invariants are proved once per operation of    *)
(* the adapter, the supervisor's once per handler step.                    *)
(***************************************************************************)
EXTENDS CoreSupervisor, FiniteSetTheorems, WellFoundedInduction, TLAPS

USE ZenonT(40)

CallerState == {"idle", "start", "start_wait", "start_probe", "start_retry", "register",
                "cleanup", "cleanup_kill", "stop", "stop_kill", "unregister",
                "restart", "restart_kill", "restart_wait", "restart_probe", "restart_retry",
                "restarted", "healthy", "healthy_probe"}
WatcherState == {"unborn", "sleep", "probe", "budget", "restart", "kill", "count", "exited"}
Probing == {"start_probe", "restart_probe", "healthy_probe", "probe"}
Killing == {"cleanup_kill", "stop_kill", "restart_kill", "kill"}

PcType ==
  /\ DOMAIN pc = Tasks
  /\ \A c \in Callers : pc[c] \in CallerState
  /\ \A r \in Recs : pc[r] \in WatcherState
Typed == TypeOK /\ PcType

IdOf(k) == IF k \in Callers THEN on[k] ELSE rec[k].id

\* The map names processes of its own id.
EntryOwner == \A id \in Ids : entry[id] # 0 => owner[entry[id]] = id

\* The lifecycle lock belongs to the one task that has taken an instance out
\* of the map and is about to kill it.
Locked ==
  \A k \in Tasks :
    /\ k \in lifecycle <=> pc[k] \in Killing
    /\ k \in lifecycle => /\ lifecycle = {k} /\ grab[k] # 0
                          /\ owner[grab[k]] = IdOf(k) /\ entry[IdOf(k)] = 0

\* An instance is held only by a probe or by a task about to kill it.
GrabPc == \A k \in Tasks : grab[k] # 0 => pc[k] \in Probing \union Killing

Owned == EntryOwner /\ Locked /\ GrabPc /\ NoEscape

\* Types of what the tasks refer to.
LEMMA TypeFacts ==
  ASSUME Typed
  PROVE  /\ \A k \in Tasks : IdOf(k) \in Ids /\ grab[k] \in 0..MaxPids
         /\ \A id \in Ids : entry[id] \in 0..MaxPids
         /\ \A k \in Tasks : grab[k] # 0 => grab[k] \in Pids
         /\ \A id \in Ids : entry[id] # 0 => entry[id] \in Pids
         /\ 0 \notin Pids
<1>1. /\ on \in [Callers -> Ids]
      /\ rec \in [Recs -> [id : Ids, restarts : Nat, fresh : BOOLEAN, revision : 0..MaxRevision]]
      /\ grab \in [Tasks -> 0..MaxPids] /\ entry \in [Ids -> 0..MaxPids]
  BY DEF Typed, TypeOK, AdapterTypeOK
<1>2. \A k \in Tasks : IdOf(k) \in Ids
  BY <1>1, TaskAssumption DEF IdOf
<1>3. 0 \notin Pids /\ \A n \in 0..MaxPids : n # 0 => n \in Pids
  BY PidAssumption, SMTT(40) DEF Pids
<1> QED
  BY <1>1, <1>2, <1>3

\* A step that leaves the adapter alone and moves no task across a lock.
LEMMA OwnedQuiet ==
  ASSUME Typed, Owned, UNCHANGED <<entry, proc, owner, lifecycle, grab>>,
         \A j \in Tasks : /\ pc'[j] \in Killing <=> pc[j] \in Killing
                          /\ pc[j] \in Probing => pc'[j] \in Probing
                          /\ pc[j] \in Killing => IdOf(j)' = IdOf(j)
  PROVE  Owned'
<1>1. UNCHANGED <<entry, proc, owner, lifecycle, grab>>
  OBVIOUS
<1>2. EntryOwner'
  BY <1>1 DEF Owned, EntryOwner
<1>3. Locked'
  <2> SUFFICES ASSUME NEW k \in Tasks
               PROVE  /\ k \in lifecycle <=> pc'[k] \in Killing
                      /\ k \in lifecycle => /\ lifecycle = {k} /\ grab[k] # 0
                                            /\ owner[grab[k]] = IdOf(k)' /\ entry[IdOf(k)'] = 0
    BY <1>1 DEF Locked
  <2> QED
    BY DEF Owned, Locked
<1>4. GrabPc'
  BY <1>1 DEF Owned, GrabPc
<1>5. NoEscape'
  BY <1>1 DEF Owned, NoEscape, Alive
<1> QED
  BY <1>2, <1>3, <1>4, <1>5 DEF Owned

Moves(k, v) == \A j \in Tasks : pc'[j] = IF j = k THEN v ELSE pc[j]
SameIds == \A j \in Tasks : IdOf(j)' = IdOf(j)
Outside == (CallerState \union WatcherState) \ (Probing \union Killing)

\* start: the child spawned is the one the map names.
LEMMA OwnedStart ==
  ASSUME Typed, Owned, NEW k \in Tasks, NEW id \in Ids, NEW ok \in BOOLEAN, AdapterStart(k, id, ok),
         NEW v \in Outside, Moves(k, v), SameIds, pc[k] \in Outside
  PROVE  Owned'
<1>t. /\ entry \in [Ids -> 0..MaxPids] /\ owner \in [Pids -> Ids]
      /\ proc \in [Pids -> {"unborn", "starting", "listening", "exited", "dead"}]
  BY DEF Typed, TypeOK, AdapterTypeOK
<1>m. \A j \in Tasks : /\ pc'[j] \in Killing <=> pc[j] \in Killing
                       /\ pc[j] \in Probing => pc'[j] \in Probing
  BY DEF Moves, Outside
<1>1. CASE UNCHANGED <<entry, proc, owner, lifecycle, grab>>
  BY <1>1, <1>m, OwnedQuiet DEF SameIds
<1>2. CASE ~UNCHANGED <<entry, proc, owner, lifecycle, grab>>
  <2>1. PICK p \in Pids : Spawned(id, p) /\ proc' = [proc EXCEPT ![p] = "starting"]
    BY <1>2 DEF AdapterStart, adapterVars
  <2>2. lifecycle = {} /\ entry[id] = 0 /\ lifecycle' = lifecycle /\ grab' = grab
    BY <1>2 DEF AdapterStart, adapterVars
  <2>3. /\ owner' = [owner EXCEPT ![p] = id] /\ entry' = [entry EXCEPT ![id] = p]
        /\ \A j \in Tasks : grab[j] # p
        /\ \A i \in Ids : entry[i] # p
    BY <2>1 DEF Spawned, Unused
  <2>4. EntryOwner'
    BY <1>t, <2>3, TypeFacts DEF Owned, EntryOwner
  <2>5. Locked'
    BY <1>m, <2>2 DEF Owned, Locked
  <2>6. GrabPc'
    BY <1>m, <2>2 DEF Owned, GrabPc
  <2>7. NoEscape'
    <3> SUFFICES ASSUME NEW q \in Pids, Alive(q)'
                 PROVE  entry'[owner'[q]] = q \/ \E j \in Tasks : grab'[j] = q
      BY DEF NoEscape
    <3>1. CASE q = p
      BY <1>t, <2>3, <3>1
    <3>2. CASE q # p
      <4>1. Alive(q) /\ owner'[q] = owner[q] /\ owner[q] \in Ids
        BY <1>t, <2>1, <2>3, <3>2 DEF Alive
      <4>2. entry[owner[q]] = q \/ \E j \in Tasks : grab[j] = q
        BY <4>1 DEF Owned, NoEscape
      <4>3. entry[owner[q]] = q => entry'[owner[q]] = q
        BY <1>t, <2>2, <2>3, <4>1, TypeFacts
      <4> QED
        BY <2>2, <4>1, <4>2, <4>3
    <3> QED
      BY <3>1, <3>2
  <2> QED
    BY <2>4, <2>5, <2>6, <2>7 DEF Owned
<1> QED
  BY <1>1, <1>2

\* stop and restart, first half: the instance goes from the map to the task.
LEMMA OwnedTake ==
  ASSUME Typed, Owned, NEW k \in Tasks, NEW ok \in BOOLEAN, AdapterTake(k, IdOf(k), ok),
         NEW v, Moves(k, v), SameIds, pc[k] \in Outside,
         IF ok THEN v \in Killing ELSE v \in Outside
  PROVE  Owned'
<1> DEFINE id == IdOf(k)
<1>t. /\ entry \in [Ids -> 0..MaxPids] /\ owner \in [Pids -> Ids] /\ grab \in [Tasks -> 0..MaxPids]
      /\ id \in Ids
  BY TypeFacts DEF Typed, TypeOK, AdapterTypeOK
<1> HIDE DEF id
<1>1. CASE ~ok
  <2>1. \A j \in Tasks : /\ pc'[j] \in Killing <=> pc[j] \in Killing
                         /\ pc[j] \in Probing => pc'[j] \in Probing
    BY <1>1 DEF Moves, Outside
  <2>2. UNCHANGED <<entry, proc, owner, lifecycle, grab>>
    BY <1>1 DEF AdapterTake, adapterVars
  <2> QED
    BY <2>1, <2>2, OwnedQuiet DEF SameIds
<1>2. CASE ok
  <2>1. /\ lifecycle = {} /\ entry[id] # 0
        /\ grab' = [grab EXCEPT ![k] = entry[id]] /\ entry' = [entry EXCEPT ![id] = 0]
        /\ lifecycle' = {k} /\ UNCHANGED <<proc, owner>>
    BY <1>2 DEF AdapterTake, id
  <2>2. \A j \in Tasks : pc[j] \notin Killing
    BY <2>1 DEF Owned, Locked
  <2>3. EntryOwner'
    BY <1>t, <2>1 DEF Owned, EntryOwner
  <2>4. Locked'
    <3>1. \A j \in Tasks : j \in lifecycle' <=> pc'[j] \in Killing
      BY <1>2, <2>1, <2>2 DEF Moves
    <3>2. grab'[k] # 0 /\ owner'[grab'[k]] = id /\ entry'[id] = 0 /\ IdOf(k)' = id
      BY <1>t, <2>1 DEF Owned, EntryOwner, SameIds, id
    <3>3. lifecycle' = {k}
      BY <2>1
    <3> QED
      BY <3>1, <3>2, <3>3 DEF Locked
  <2>5. GrabPc'
    BY <1>t, <1>2, <2>1 DEF Owned, GrabPc, Moves
  <2>6. NoEscape'
    <3> SUFFICES ASSUME NEW q \in Pids, Alive(q)'
                 PROVE  entry'[owner'[q]] = q \/ \E j \in Tasks : grab'[j] = q
      BY DEF NoEscape
    <3>1. Alive(q) /\ owner'[q] = owner[q] /\ owner[q] \in Ids
      BY <1>t, <2>1 DEF Alive
    <3>2. entry[owner[q]] = q \/ \E j \in Tasks : grab[j] = q
      BY <3>1 DEF Owned, NoEscape
    <3>3. CASE entry[owner[q]] = q
      BY <1>t, <2>1, <3>1, <3>3
    <3>4. ASSUME NEW j \in Tasks, grab[j] = q PROVE \E i \in Tasks : grab'[i] = q
      <4>1. grab[k] = 0
        BY DEF Owned, GrabPc, Outside
      <4>2. q # 0
        BY TypeFacts
      <4> QED
        BY <1>t, <2>1, <3>4, <4>1, <4>2
    <3> QED
      BY <3>1, <3>2, <3>3, <3>4
  <2> QED
    BY <2>3, <2>4, <2>5, <2>6 DEF Owned
<1> QED
  BY <1>1, <1>2

\* stop, second half: the child taken is dead and the lock is free.
LEMMA OwnedStopKill ==
  ASSUME Typed, Owned, NEW k \in Tasks, NEW ok \in BOOLEAN, AdapterStopKill(k, ok),
         NEW v \in Outside, Moves(k, v), SameIds
  PROVE  Owned'
<1>t. /\ grab \in [Tasks -> 0..MaxPids] /\ owner \in [Pids -> Ids]
      /\ proc \in [Pids -> {"unborn", "starting", "listening", "exited", "dead"}]
  BY DEF Typed, TypeOK, AdapterTypeOK
<1>1. /\ lifecycle = {k} /\ lifecycle' = {} /\ grab' = [grab EXCEPT ![k] = 0]
      /\ proc' = [proc EXCEPT ![grab[k]] = "dead"] /\ UNCHANGED <<entry, owner>>
  BY DEF AdapterStopKill
<1>2. EntryOwner'
  BY <1>1 DEF Owned, EntryOwner
<1>3. Locked'
  <2>1. \A j \in Tasks : pc[j] \in Killing => j = k
    BY <1>1 DEF Owned, Locked
  <2>2. \A j \in Tasks : pc'[j] \notin Killing
    BY <2>1 DEF Moves, Outside
  <2> QED
    BY <1>1, <2>2 DEF Locked
<1>4. GrabPc'
  BY <1>t, <1>1 DEF Owned, GrabPc, Moves
<1>5. NoEscape'
  <2> SUFFICES ASSUME NEW q \in Pids, Alive(q)'
               PROVE  entry'[owner'[q]] = q \/ \E j \in Tasks : grab'[j] = q
    BY DEF NoEscape
  <2>1. Alive(q) /\ q # grab[k]
    BY <1>t, <1>1 DEF Alive
  <2>2. entry[owner[q]] = q \/ \E j \in Tasks : grab[j] = q
    BY <2>1 DEF Owned, NoEscape
  <2> QED
    BY <1>t, <1>1, <2>1, <2>2
<1> QED
  BY <1>2, <1>3, <1>4, <1>5 DEF Owned

\* restart, second half: the replacement is spawned once the old child is dead.
LEMMA OwnedRestartKill ==
  ASSUME Typed, Owned, NEW k \in Tasks, NEW ok \in BOOLEAN, AdapterRestartKill(k, IdOf(k), ok),
         NEW v \in Outside, Moves(k, v), SameIds
  PROVE  Owned'
<1> DEFINE id == IdOf(k)
<1>t. /\ grab \in [Tasks -> 0..MaxPids] /\ owner \in [Pids -> Ids] /\ entry \in [Ids -> 0..MaxPids]
      /\ proc \in [Pids -> {"unborn", "starting", "listening", "exited", "dead"}]
      /\ id \in Ids
  BY TypeFacts DEF Typed, TypeOK, AdapterTypeOK
<1>1. lifecycle = {k} /\ lifecycle' = {} /\ grab' = [grab EXCEPT ![k] = 0] /\ entry[id] = 0
  BY DEF AdapterRestartKill, Owned, Locked
<1>2. \/ proc' = [proc EXCEPT ![grab[k]] = "dead"] /\ UNCHANGED <<entry, owner>>
      \/ \E p \in Pids :
           /\ Spawned(id, p)
           /\ proc' = [proc EXCEPT ![grab[k]] = "dead", ![p] = "starting"]
  BY DEF AdapterRestartKill
<1> HIDE DEF id
<1>3. Locked'
  <2>1. \A j \in Tasks : pc[j] \in Killing => j = k
    BY <1>1 DEF Owned, Locked
  <2>2. \A j \in Tasks : pc'[j] \notin Killing
    BY <2>1 DEF Moves, Outside
  <2> QED
    BY <1>1, <2>2 DEF Locked
<1>4. GrabPc'
  BY <1>t, <1>1 DEF Owned, GrabPc, Moves
<1>5. CASE proc' = [proc EXCEPT ![grab[k]] = "dead"] /\ UNCHANGED <<entry, owner>>
  <2>1. EntryOwner'
    BY <1>5 DEF Owned, EntryOwner
  <2>2. NoEscape'
    <3> SUFFICES ASSUME NEW q \in Pids, Alive(q)'
                 PROVE  entry'[owner'[q]] = q \/ \E j \in Tasks : grab'[j] = q
      BY DEF NoEscape
    <3>1. Alive(q) /\ q # grab[k]
      BY <1>t, <1>5 DEF Alive
    <3>2. entry[owner[q]] = q \/ \E j \in Tasks : grab[j] = q
      BY <3>1 DEF Owned, NoEscape
    <3> QED
      BY <1>t, <1>1, <1>5, <3>1, <3>2
  <2> QED
    BY <1>3, <1>4, <2>1, <2>2 DEF Owned
<1>6. ASSUME NEW p \in Pids, Spawned(id, p),
             proc' = [proc EXCEPT ![grab[k]] = "dead", ![p] = "starting"]
      PROVE  Owned'
  <2>1. /\ owner' = [owner EXCEPT ![p] = id] /\ entry' = [entry EXCEPT ![id] = p]
        /\ \A j \in Tasks : grab[j] # p
        /\ \A i \in Ids : entry[i] # p
    BY <1>6 DEF Spawned, Unused
  <2>2. EntryOwner'
    BY <1>t, <2>1, TypeFacts DEF Owned, EntryOwner
  <2>3. NoEscape'
    <3> SUFFICES ASSUME NEW q \in Pids, Alive(q)'
                 PROVE  entry'[owner'[q]] = q \/ \E j \in Tasks : grab'[j] = q
      BY DEF NoEscape
    <3>1. CASE q = p
      BY <1>t, <2>1, <3>1
    <3>2. CASE q # p
      <4>1. Alive(q) /\ q # grab[k] /\ owner'[q] = owner[q] /\ owner[q] \in Ids
        BY <1>t, <1>6, <2>1, <3>2 DEF Alive
      <4>2. entry[owner[q]] = q \/ \E j \in Tasks : grab[j] = q
        BY <4>1 DEF Owned, NoEscape
      <4>3. entry[owner[q]] = q => entry'[owner[q]] = q
        BY <1>t, <1>1, <2>1, <4>1, TypeFacts
      <4> QED
        BY <1>t, <1>1, <4>1, <4>2, <4>3
    <3> QED
      BY <3>1, <3>2
  <2> QED
    BY <1>3, <1>4, <2>2, <2>3 DEF Owned
<1> QED
  BY <1>2, <1>5, <1>6

\* health, first step: the probe holds the instance the map names.
LEMMA OwnedGet ==
  ASSUME Typed, Owned, NEW k \in Tasks, NEW found \in BOOLEAN, HealthGet(k, IdOf(k), found),
         NEW v, Moves(k, v), SameIds, pc[k] \in Outside,
         IF found THEN v \in Probing ELSE v \in Outside
  PROVE  Owned'
<1>t. grab \in [Tasks -> 0..MaxPids] /\ grab[k] = 0
  BY DEF Typed, TypeOK, AdapterTypeOK, Owned, GrabPc, Outside
<1>1. /\ grab' = [grab EXCEPT ![k] = entry[IdOf(k)]] /\ (found <=> entry[IdOf(k)] # 0)
      /\ UNCHANGED <<entry, proc, owner, lifecycle>>
  BY DEF HealthGet
<1>2. EntryOwner'
  BY <1>1 DEF Owned, EntryOwner
<1>3. Locked'
  <2>1. v \notin Killing /\ pc[k] \notin Killing
    BY DEF Outside, Probing, Killing
  <2> SUFFICES ASSUME NEW j \in Tasks
               PROVE  /\ j \in lifecycle <=> pc'[j] \in Killing
                      /\ j \in lifecycle => /\ lifecycle = {j} /\ grab'[j] # 0
                                            /\ owner[grab'[j]] = IdOf(j) /\ entry[IdOf(j)] = 0
    BY <1>1 DEF Locked, SameIds
  <2>2. j \in lifecycle => j # k
    BY <2>1 DEF Owned, Locked
  <2> QED
    BY <1>t, <1>1, <2>1, <2>2 DEF Owned, Locked, Moves
<1>4. GrabPc'
  BY <1>t, <1>1 DEF Owned, GrabPc, Moves
<1>5. NoEscape'
  <2> SUFFICES ASSUME NEW q \in Pids, Alive(q)'
               PROVE  entry'[owner'[q]] = q \/ \E j \in Tasks : grab'[j] = q
    BY DEF NoEscape
  <2>1. entry[owner[q]] = q \/ \E j \in Tasks : grab[j] = q
    BY <1>1 DEF Owned, NoEscape, Alive
  <2> QED
    BY <1>t, <1>1, <2>1, TypeFacts
<1> QED
  BY <1>2, <1>3, <1>4, <1>5 DEF Owned

\* The Arcs that are dropped take with them what nothing else refers to.
LEMMA DropEscapes ==
  ASSUME Typed, EntryOwner', owner' = owner, DropArcs
  PROVE  NoEscape'
<1> SUFFICES ASSUME NEW q \in Pids, Alive(q)'
             PROVE  entry'[owner'[q]] = q \/ \E j \in Tasks : grab'[j] = q
  BY DEF NoEscape
<1>1. proc \in [Pids -> {"unborn", "starting", "listening", "exited", "dead"}]
  BY DEF Typed, TypeOK, AdapterTypeOK
<1>2. (\E id \in Ids : entry'[id] = q) \/ \E j \in Tasks : grab'[j] = q
  BY <1>1 DEF DropArcs, Alive
<1>3. q # 0
  BY TypeFacts
<1> QED
  BY <1>2, <1>3 DEF EntryOwner

\* health, last step: the probe gives up its instance, and an exited child
\* takes the id out of the map.
LEMMA OwnedAnswer ==
  ASSUME Typed, Owned, NEW k \in Tasks, NEW status, HealthAnswer(k, IdOf(k), status),
         NEW v \in Outside, Moves(k, v), SameIds, pc[k] \in Probing
  PROVE  Owned'
<1>t. grab \in [Tasks -> 0..MaxPids] /\ entry \in [Ids -> 0..MaxPids] /\ IdOf(k) \in Ids
  BY TypeFacts DEF Typed, TypeOK, AdapterTypeOK
<1>1. /\ entry' = entry \/ entry' = [entry EXCEPT ![IdOf(k)] = 0]
      /\ grab' = [grab EXCEPT ![k] = 0] /\ DropArcs /\ UNCHANGED <<owner, lifecycle>>
  BY DEF HealthAnswer
<1>2. \A id \in Ids : entry'[id] = entry[id] \/ entry'[id] = 0
  BY <1>t, <1>1
<1>3. EntryOwner'
  BY <1>1, <1>2 DEF Owned, EntryOwner
<1>4. Locked'
  <2>1. v \notin Killing /\ pc[k] \notin Killing
    BY DEF Outside, Probing, Killing
  <2>2. k \notin lifecycle
    BY <2>1 DEF Owned, Locked
  <2> SUFFICES ASSUME NEW j \in Tasks
               PROVE  /\ j \in lifecycle <=> pc'[j] \in Killing
                      /\ j \in lifecycle => /\ lifecycle = {j} /\ grab'[j] # 0
                                            /\ owner[grab'[j]] = IdOf(j) /\ entry'[IdOf(j)] = 0
    BY <1>1 DEF Locked, SameIds
  <2>3. IdOf(j) \in Ids
    BY TypeFacts
  <2> QED
    BY <1>t, <1>1, <1>2, <2>1, <2>2, <2>3 DEF Owned, Locked, Moves
<1>5. GrabPc'
  BY <1>t, <1>1 DEF Owned, GrabPc, Moves
<1>6. NoEscape'
  BY <1>1, <1>3, DropEscapes
<1> QED
  BY <1>3, <1>4, <1>5, <1>6 DEF Owned

\* health, second step: only an exited child becomes a dead one.
LEMMA OwnedWait ==
  ASSUME Typed, Owned, NEW k \in Tasks, HealthWait(k), UNCHANGED pc, SameIds
  PROVE  Owned'
<1>t. /\ proc \in [Pids -> {"unborn", "starting", "listening", "exited", "dead"}]
      /\ grab[k] \in Pids
  BY TypeFacts DEF Typed, TypeOK, AdapterTypeOK, HealthWait
<1>1. /\ proc' = [proc EXCEPT ![grab[k]] = IF ExitedOrDead(grab[k]) THEN "dead" ELSE @]
      /\ UNCHANGED <<entry, owner, lifecycle, grab>>
  BY DEF HealthWait
<1>2. \A q \in Pids : Alive(q)' => Alive(q)
  BY <1>t, <1>1 DEF Alive, ExitedOrDead
<1>3. EntryOwner' /\ GrabPc'
  BY <1>1 DEF Owned, EntryOwner, GrabPc
<1>4. Locked'
  BY <1>1 DEF Owned, Locked, SameIds
<1>5. NoEscape'
  BY <1>1, <1>2 DEF Owned, NoEscape
<1> QED
  BY <1>3, <1>4, <1>5 DEF Owned

\* A dropped handler gives up the lock and its instance.
LEMMA OwnedCancel ==
  ASSUME Typed, Owned, NEW k \in Tasks, AdapterCancel(k),
         NEW v \in Outside, Moves(k, v), SameIds
  PROVE  Owned'
<1>t. /\ grab \in [Tasks -> 0..MaxPids]
      /\ proc \in [Pids -> {"unborn", "starting", "listening", "exited", "dead"}]
  BY DEF Typed, TypeOK, AdapterTypeOK
<1>1. /\ lifecycle' = lifecycle \ {k} /\ grab' = [grab EXCEPT ![k] = 0] /\ UNCHANGED <<entry, owner>>
      /\ DropArcs \/ proc' = [proc EXCEPT ![grab[k]] = "dead"]
  BY DEF AdapterCancel
<1>2. EntryOwner'
  BY <1>1 DEF Owned, EntryOwner
<1>3. Locked'
  <2> SUFFICES ASSUME NEW j \in Tasks
               PROVE  /\ j \in lifecycle' <=> pc'[j] \in Killing
                      /\ j \in lifecycle' => /\ lifecycle' = {j} /\ grab'[j] # 0
                                             /\ owner[grab'[j]] = IdOf(j) /\ entry[IdOf(j)] = 0
    BY <1>1 DEF Locked, SameIds
  <2>1. CASE j = k
    BY <1>1, <2>1 DEF Moves, Outside
  <2>2. CASE j # k
    <3>1. pc'[j] = pc[j] /\ grab'[j] = grab[j] /\ (j \in lifecycle' <=> j \in lifecycle)
      BY <1>t, <1>1, <2>2 DEF Moves
    <3>2. j \in lifecycle => lifecycle = {j} /\ lifecycle' = {j}
      BY <1>1, <2>2 DEF Owned, Locked
    <3> QED
      BY <3>1, <3>2 DEF Owned, Locked
  <2> QED
    BY <2>1, <2>2
<1>4. GrabPc'
  BY <1>t, <1>1 DEF Owned, GrabPc, Moves
<1>5. NoEscape'
  <2>1. CASE DropArcs
    BY <1>1, <1>2, <2>1, DropEscapes
  <2>2. CASE proc' = [proc EXCEPT ![grab[k]] = "dead"]
    <3> SUFFICES ASSUME NEW q \in Pids, Alive(q)'
                 PROVE  entry'[owner'[q]] = q \/ \E j \in Tasks : grab'[j] = q
      BY DEF NoEscape
    <3>1. Alive(q) /\ q # grab[k]
      BY <1>t, <2>2 DEF Alive
    <3>2. entry[owner[q]] = q \/ \E j \in Tasks : grab[j] = q
      BY <3>1 DEF Owned, NoEscape
    <3> QED
      BY <1>t, <1>1, <3>1, <3>2
  <2> QED
    BY <1>1, <2>1, <2>2
<1> QED
  BY <1>2, <1>3, <1>4, <1>5 DEF Owned

\* A child that listens or exits stays where it is.
LEMMA OwnedChild ==
  ASSUME Typed, Owned, NEW p \in Pids, Listen(p) \/ Exit(p), UNCHANGED pc, SameIds
  PROVE  Owned'
<1>t. proc \in [Pids -> {"unborn", "starting", "listening", "exited", "dead"}]
  BY DEF Typed, TypeOK, AdapterTypeOK
<1>1. UNCHANGED <<entry, owner, lifecycle, grab>>
  BY DEF Listen, Exit
<1>2. \A q \in Pids : Alive(q)' => Alive(q)
  BY <1>t DEF Listen, Exit, Alive
<1>3. EntryOwner' /\ GrabPc'
  BY <1>1 DEF Owned, EntryOwner, GrabPc
<1>4. Locked'
  BY <1>1 DEF Owned, Locked, SameIds
<1>5. NoEscape'
  BY <1>1, <1>2 DEF Owned, NoEscape
<1> QED
  BY <1>3, <1>4, <1>5 DEF Owned
--------------------------------------------------------------------------------
(***************************************************************************)
(* The steps of handlers and watchers, by the operation of the adapter     *)
(* they perform.                                                           *)
(***************************************************************************)
Operates(k, v) ==
  \/ \E ok \in BOOLEAN :
       /\ AdapterStart(k, IdOf(k), ok)
       /\ pc[k] \in Outside /\ v \in Outside
  \/ \E ok \in BOOLEAN :
       /\ AdapterTake(k, IdOf(k), ok)
       /\ pc[k] \in Outside /\ (IF ok THEN v \in Killing ELSE v \in Outside)
  \/ \E ok \in BOOLEAN : AdapterStopKill(k, ok) /\ v \in Outside
  \/ \E ok \in BOOLEAN : AdapterRestartKill(k, IdOf(k), ok) /\ v \in Outside
  \/ \E found \in BOOLEAN :
       /\ HealthGet(k, IdOf(k), found)
       /\ pc[k] \in Outside /\ (IF found THEN v \in Probing ELSE v \in Outside)
  \/ \E status : HealthAnswer(k, IdOf(k), status) /\ pc[k] \in Probing /\ v \in Outside
  \/ UNCHANGED adapterVars /\ pc[k] \in Outside /\ v \in Outside

\* Every step of a handler in progress is one of them, or ends in the records.
LEMMA CallerOperates ==
  ASSUME NEW c \in Callers, CallerStep(c)
  PROVE  \/ Register(c) \/ Unregister(c) \/ RestartDone(c)
         \/ \E v \in CallerState : Goto(c, v) /\ Operates(c, v) /\ UNCHANGED supVars
<1>0. IdOf(c) = on[c]
  BY DEF IdOf
<1> DEFINE Done == \E v \in CallerState : Goto(c, v) /\ Operates(c, v) /\ UNCHANGED supVars
<1>o. /\ {"idle", "start", "start_wait", "start_retry", "register", "cleanup", "stop", "unregister",
          "restart", "restart_wait", "restart_retry", "restarted", "healthy"}
           \subseteq CallerState \intersect Outside
      /\ {"start_probe", "restart_probe", "healthy_probe"} \subseteq CallerState \intersect Probing
      /\ {"cleanup_kill", "stop_kill", "restart_kill"} \subseteq CallerState \intersect Killing
  BY DEF CallerState, Outside, Probing, Killing
<1>1. CASE StartAdapter(c)
  <2>1. PICK ok \in BOOLEAN : AdapterStart(c, on[c], ok) /\ Goto(c, IF ok THEN "start_wait" ELSE "idle")
    BY <1>1 DEF StartAdapter
  <2>2. pc[c] = "start" /\ UNCHANGED supVars
    BY <1>1 DEF StartAdapter
  <2> QED
    BY <1>0, <1>o, <2>1, <2>2 DEF Operates
<1>2. ASSUME NEW from, NEW next, from \in {"cleanup", "stop", "restart"},
             next \in {"cleanup_kill", "stop_kill", "restart_kill"},
             pc[c] = from, UNCHANGED supVars,
             \E ok \in BOOLEAN : AdapterTake(c, on[c], ok) /\ Goto(c, IF ok THEN next ELSE "idle")
      PROVE  Done
  <2>1. PICK ok \in BOOLEAN : AdapterTake(c, on[c], ok) /\ Goto(c, IF ok THEN next ELSE "idle")
    BY <1>2
  <2> DEFINE v == IF ok THEN next ELSE "idle"
  <2>2. /\ v \in CallerState /\ IF ok THEN v \in Killing ELSE v \in Outside
        /\ pc[c] \in Outside /\ Goto(c, v) /\ AdapterTake(c, IdOf(c), ok)
    BY <1>0, <1>2, <1>o, <2>1
  <2> HIDE DEF v
  <2> QED
    BY <1>2, <2>2 DEF Operates
<1>3. CASE CleanUp(c) \/ StopTake(c) \/ RestartTake(c)
  BY <1>2, <1>3, SMTT(40) DEF CleanUp, StopTake, RestartTake
<1>4. CASE CleanUpKill(c) \/ StopKill(c)
  <2>1. PICK ok \in BOOLEAN :
          AdapterStopKill(c, ok) /\ (Goto(c, "idle") \/ Goto(c, IF ok THEN "unregister" ELSE "idle"))
    BY <1>4 DEF CleanUpKill, StopKill
  <2>2. UNCHANGED supVars
    BY <1>4 DEF CleanUpKill, StopKill
  <2>3. \E v \in {"idle", "unregister"} : Goto(c, v)
    BY <2>1
  <2> QED
    BY <1>o, <2>1, <2>2, <2>3 DEF Operates
<1>5. CASE RestartKill(c)
  <2>1. PICK ok \in BOOLEAN :
          AdapterRestartKill(c, on[c], ok) /\ Goto(c, IF ok THEN "restart_wait" ELSE "idle")
    BY <1>5 DEF RestartKill
  <2>2. \E v \in {"idle", "restart_wait"} : Goto(c, v)
    BY <2>1
  <2> QED
    BY <1>0, <1>5, <1>o, <2>1, <2>2 DEF Operates, RestartKill
<1>6. ASSUME NEW from, NEW next, NEW other, from \in {"start_wait", "restart_wait", "healthy"},
             next \in {"start_probe", "restart_probe", "healthy_probe"},
             other \in {"start_retry", "restart_retry", "idle"},
             pc[c] = from, UNCHANGED supVars,
             \E found \in BOOLEAN : HealthGet(c, on[c], found) /\ Goto(c, IF found THEN next ELSE other)
      PROVE  Done
  <2>1. PICK found \in BOOLEAN : HealthGet(c, on[c], found) /\ Goto(c, IF found THEN next ELSE other)
    BY <1>6
  <2> DEFINE v == IF found THEN next ELSE other
  <2>2. /\ v \in CallerState /\ IF found THEN v \in Probing ELSE v \in Outside
        /\ pc[c] \in Outside /\ Goto(c, v) /\ HealthGet(c, IdOf(c), found)
    BY <1>0, <1>6, <1>o, <2>1
  <2> HIDE DEF v
  <2> QED
    BY <1>6, <2>2 DEF Operates
<1>7. CASE \/ ReadyGet(c, "start_wait", "start_probe", "start_retry")
           \/ ReadyGet(c, "restart_wait", "restart_probe", "restart_retry") \/ HealthyGet(c)
  BY <1>6, <1>7, SMTT(40) DEF ReadyGet, HealthyGet
<1>8. ASSUME NEW from, from \in {"start_probe", "restart_probe", "healthy_probe"},
             pc[c] = from, UNCHANGED supVars, NEW status, HealthAnswer(c, on[c], status),
             NEW v \in {"register", "restarted", "start_retry", "restart_retry", "idle"}, Goto(c, v)
      PROVE  Done
  BY <1>0, <1>8, <1>o DEF Operates
<1>9. ASSUME NEW probe, NEW retry, NEW ready, ReadyCheck(c, probe, retry, ready),
             probe \in {"start_probe", "restart_probe"}, retry \in {"start_retry", "restart_retry"},
             ready \in {"register", "restarted"}
      PROVE  Done
  <2>1. PICK status \in {"Running", "Degraded", "Failed", "Error"} :
          HealthAnswer(c, on[c], status) /\ Goto(c, IF status = "Running" THEN ready ELSE retry)
    BY <1>9 DEF ReadyCheck
  <2>2. pc[c] = probe /\ UNCHANGED supVars
    BY <1>9 DEF ReadyCheck
  <2>3. Goto(c, ready) \/ Goto(c, retry)
    BY <2>1
  <2> QED
    BY <1>8, <1>9, <2>1, <2>2, <2>3
<1>10. CASE HealthyCheck(c)
  BY <1>8, <1>10 DEF HealthyCheck
<1>11. ASSUME NEW from, from \in {"start_retry", "restart_retry"}, pc[c] = from,
              UNCHANGED <<adapterVars, supVars>>,
              NEW v \in {"start_wait", "restart_wait", "cleanup", "idle"}, Goto(c, v)
       PROVE  Done
  BY <1>11, <1>o DEF Operates
<1>12. CASE \/ ReadyAgain(c, "start_retry", "start_wait") \/ ReadyAgain(c, "restart_retry", "restart_wait")
            \/ Deadline(c)
  BY <1>11, <1>12 DEF ReadyAgain, Deadline, ReadyDeadline
<1> QED
  BY <1>1, <1>3, <1>4, <1>5, <1>7, <1>9, <1>10, <1>12 DEF CallerStep

\* Every step of a watcher is one of them; it may count on its own record.
LEMMA WatcherOperates ==
  ASSUME Typed, NEW r \in Recs, WatcherStep(r)
  PROVE  \E v \in WatcherState \ {"unborn"} :
           /\ pc[r] # "unborn" /\ Goto(r, v) /\ Operates(r, v)
           /\ UNCHANGED <<instances, on, arc, cancels>>
           /\ rec' = rec \/ rec' = Restarted(r)
           /\ \/ respawned' = respawned
              \/ respawned' = [respawned EXCEPT ![r] = @ + 1]
<1>0. IdOf(r) = rec[r].id
  BY TaskAssumption DEF IdOf
<1>o. /\ {"sleep", "budget", "restart", "count", "exited"} \subseteq (WatcherState \ {"unborn"}) \intersect Outside
      /\ "probe" \in (WatcherState \ {"unborn"}) \intersect Probing
      /\ "kill" \in (WatcherState \ {"unborn"}) \intersect Killing
  BY DEF WatcherState, CallerState, Outside, Probing, Killing
<1>1. CASE WatchGet(r)
  <2>1. PICK found \in BOOLEAN :
          HealthGet(r, rec[r].id, found) /\ Goto(r, IF found THEN "probe" ELSE "budget")
    BY <1>1 DEF WatchGet
  <2> DEFINE v == IF found THEN "probe" ELSE "budget"
  <2>2. /\ v \in WatcherState \ {"unborn"} /\ IF found THEN v \in Probing ELSE v \in Outside
        /\ Goto(r, v) /\ HealthGet(r, IdOf(r), found)
    BY <1>0, <1>o, <2>1
  <2>3. pc[r] = "sleep" /\ UNCHANGED supVars
    BY <1>1 DEF WatchGet
  <2> HIDE DEF v
  <2> QED
    BY <1>o, <2>2, <2>3 DEF Operates, supVars
<1>2. CASE WatchCheck(r)
  <2>1. PICK status \in {"Running", "Degraded", "Failed", "Error"} :
          /\ HealthAnswer(r, rec[r].id, status)
          /\ Goto(r, IF status \in {"Failed", "Error"} THEN "budget" ELSE "sleep")
    BY <1>2 DEF WatchCheck
  <2>2. PICK v \in {"budget", "sleep"} : Goto(r, v)
    BY <2>1
  <2>3. pc[r] = "probe" /\ UNCHANGED supVars
    BY <1>2 DEF WatchCheck
  <2> QED
    BY <1>0, <1>o, <2>1, <2>2, <2>3 DEF Operates, supVars
<1>3. CASE WatchBudget(r)
  <2>1. PICK v \in {"restart", "exited"} : Goto(r, v)
    BY <1>3 DEF WatchBudget
  <2>2. pc[r] = "budget" /\ UNCHANGED <<adapterVars, supVars>>
    BY <1>3 DEF WatchBudget
  <2> QED
    BY <1>o, <2>1, <2>2 DEF Operates, supVars
<1>4. CASE WatchTake(r)
  <2>1. PICK ok \in BOOLEAN :
          AdapterTake(r, rec[r].id, ok) /\ Goto(r, IF ok THEN "kill" ELSE "count")
    BY <1>4 DEF WatchTake
  <2> DEFINE v == IF ok THEN "kill" ELSE "count"
  <2>2. /\ v \in WatcherState \ {"unborn"} /\ IF ok THEN v \in Killing ELSE v \in Outside
        /\ Goto(r, v) /\ AdapterTake(r, IdOf(r), ok)
    BY <1>0, <1>o, <2>1
  <2>3. pc[r] = "restart" /\ UNCHANGED supVars
    BY <1>4 DEF WatchTake
  <2> HIDE DEF v
  <2> QED
    BY <1>o, <2>2, <2>3 DEF Operates, supVars
<1>5. CASE WatchKill(r)
  <2>1. PICK ok \in BOOLEAN :
          /\ AdapterRestartKill(r, rec[r].id, ok)
          /\ respawned' = [respawned EXCEPT ![r] = IF ok THEN @ + 1 ELSE @]
    BY <1>5 DEF WatchKill
  <2>2. /\ pc[r] = "kill" /\ Goto(r, "count") /\ UNCHANGED <<instances, rec, on, arc, cancels>>
    BY <1>5 DEF WatchKill
  <2>3. Operates(r, "count")
    BY <1>0, <1>o, <2>1 DEF Operates
  <2>4. respawned' = respawned \/ respawned' = [respawned EXCEPT ![r] = @ + 1]
    BY <2>1 DEF Typed, TypeOK
  <2> QED
    BY <1>o, <2>2, <2>3, <2>4
<1>6. CASE WatchCount(r)
  <2>1. /\ pc[r] = "count" /\ Goto(r, "sleep") /\ rec' = Restarted(r)
        /\ UNCHANGED <<adapterVars, instances, on, arc, respawned, cancels>>
    BY <1>6 DEF WatchCount
  <2> QED
    BY <1>o, <2>1 DEF Operates
<1> QED
  BY <1>1, <1>2, <1>3, <1>4, <1>5, <1>6 DEF WatcherStep

\* The operations of the adapter keep its types.
LEMMA AdapterTyped ==
  ASSUME Typed, NEW k \in Tasks, NEW v, Operates(k, v)
  PROVE  AdapterTypeOK'
<1> DEFINE id == IdOf(k)
<1>1. id \in Ids /\ grab[k] \in 0..MaxPids /\ entry[id] \in 0..MaxPids /\ Pids \subseteq 0..MaxPids
  BY TypeFacts, PidAssumption, SMTT(40) DEF Pids
<1>2. AdapterTypeOK
  BY DEF Typed, TypeOK
<1>f. Fault => faults' \in 0..MaxFaults
  BY <1>2, FaultAssumption, SMTT(40) DEF Fault, AdapterTypeOK
<1> HIDE DEF id
<1>3. ASSUME NEW ok \in BOOLEAN, AdapterStart(k, id, ok) PROVE AdapterTypeOK'
  BY <1>1, <1>2, <1>3, <1>f, SMTT(40) DEF AdapterStart, AdapterTypeOK, Spawned, adapterVars
<1>4. ASSUME NEW ok \in BOOLEAN, AdapterTake(k, id, ok) PROVE AdapterTypeOK'
  BY <1>1, <1>2, <1>4, PidAssumption, SMTT(40) DEF AdapterTake, AdapterTypeOK, adapterVars
<1>5. ASSUME NEW ok \in BOOLEAN, AdapterStopKill(k, ok) PROVE AdapterTypeOK'
  <2>1. /\ faults' \in 0..MaxFaults /\ grab' \in [Tasks -> 0..MaxPids] /\ lifecycle' \in SUBSET Tasks
        /\ UNCHANGED <<entry, owner, waited>>
    BY <1>2, <1>5, <1>f, PidAssumption, SMTT(40) DEF AdapterStopKill, Terminates, AdapterTypeOK
  <2>2. proc' \in [Pids -> {"unborn", "starting", "listening", "exited", "dead"}]
    BY <1>2, <1>5 DEF AdapterStopKill, AdapterTypeOK
  <2> QED
    BY <1>2, <2>1, <2>2 DEF AdapterTypeOK
<1>6. ASSUME NEW ok \in BOOLEAN, AdapterRestartKill(k, id, ok) PROVE AdapterTypeOK'
  BY <1>1, <1>2, <1>6, <1>f, PidAssumption, SMTT(40) DEF AdapterRestartKill, Terminates, Spawned, AdapterTypeOK
<1>7. ASSUME NEW found \in BOOLEAN, HealthGet(k, id, found) PROVE AdapterTypeOK'
  BY <1>1, <1>2, <1>7 DEF HealthGet, AdapterTypeOK
<1>8. ASSUME NEW status, HealthAnswer(k, id, status) PROVE AdapterTypeOK'
  <2>1. faults' \in 0..MaxFaults /\ entry' \in [Ids -> 0..MaxPids]
    BY <1>1, <1>2, <1>8, <1>f, PidAssumption, SMTT(40) DEF HealthAnswer, AdapterTypeOK
  <2>2. proc' \in [Pids -> {"unborn", "starting", "listening", "exited", "dead"}]
    BY <1>2, <1>8 DEF HealthAnswer, DropArcs, AdapterTypeOK
  <2>3. /\ grab' \in [Tasks -> 0..MaxPids] /\ waited' \in [Tasks -> {"none", "exited", "alive"}]
        /\ UNCHANGED <<owner, lifecycle>>
    BY <1>2, <1>8, PidAssumption, SMTT(40) DEF HealthAnswer, AdapterTypeOK
  <2> QED
    BY <1>2, <2>1, <2>2, <2>3 DEF AdapterTypeOK
<1>9. CASE UNCHANGED adapterVars
  BY <1>2, <1>9 DEF adapterVars, AdapterTypeOK
<1> QED
  BY <1>3, <1>4, <1>5, <1>6, <1>7, <1>8, <1>9 DEF Operates, id

\* The operations of the adapter keep its children accounted for.
LEMMA OwnedOperates ==
  ASSUME Typed, Owned, NEW k \in Tasks, NEW v, Operates(k, v), Moves(k, v), SameIds
  PROVE  Owned'
<1>1. CASE UNCHANGED adapterVars /\ pc[k] \in Outside /\ v \in Outside
  <2>1. \A j \in Tasks : /\ pc'[j] \in Killing <=> pc[j] \in Killing
                         /\ pc[j] \in Probing => pc'[j] \in Probing
    BY <1>1 DEF Moves, Outside
  <2> QED
    BY <1>1, <2>1, OwnedQuiet DEF adapterVars, SameIds
<1>2. IdOf(k) \in Ids
  BY TypeFacts
<1> QED
  BY <1>1, <1>2, OwnedStart, OwnedTake, OwnedStopKill, OwnedRestartKill, OwnedGet, OwnedAnswer DEF Operates
--------------------------------------------------------------------------------
(***************************************************************************)
(* Types.  A start that gets as far as registering finds a record left:    *)
(* that is the bound of StartCore.                                         *)
(***************************************************************************)
InStart == {c \in Callers : Starting(c)}
Room == Cardinality(Used) + Cardinality(InStart) <= MaxRecords

\* Records and handlers are finitely many.
LEMMA Finite ==
  /\ IsFiniteSet(Used) /\ Cardinality(Used) \in Nat
  /\ IsFiniteSet(InStart) /\ Cardinality(InStart) \in Nat
  /\ IsFiniteSet(Recs) /\ Cardinality(Recs) = MaxRecords
<1>1. IsFiniteSet(Recs) /\ Cardinality(Recs) = MaxRecords
  BY FS_Interval, BoundAssumption, SMTT(40) DEF Recs
<1>2. Used \in SUBSET Recs /\ InStart \in SUBSET Callers
  BY DEF Used, InStart
<1>3. IsFiniteSet(Used) /\ IsFiniteSet(InStart)
  BY <1>1, <1>2, FS_Subset, TaskAssumption
<1> QED
  BY <1>1, <1>3, FS_CardinalityType

\* A set of numbers that is not empty has a smallest one.
LEMMA Smallest ==
  ASSUME NEW S \in SUBSET Nat, S # {}
  PROVE  \E m \in S : \A n \in S : m <= n
<1> DEFINE less == OpToRel(<, Nat)
<1>1. IsWellFoundedOn(less, Nat)
  BY NatLessThanWellFounded
<1>2. \A x, y \in Nat : x < y => <<x, y>> \in less
  BY DEF OpToRel
<1> HIDE DEF less
<1>3. \E m \in S : \A n \in S : ~(<<n, m>> \in less)
  BY <1>1, WFMin
<1>4. PICK m \in S : \A n \in S : ~(<<n, m>> \in less)
  BY <1>3
<1>5. \A n \in S : n \in Nat /\ m \in Nat /\ ~(n < m)
  BY <1>2, <1>4
<1>6. \A n \in S : m <= n
  BY <1>5, SMTT(40)
<1> QED
  BY <1>4, <1>6

\* The record a start registers is a new one.
LEMMA NewRecordIsNew ==
  ASSUME Room, NEW c \in Callers, pc[c] = "register"
  PROVE  NewRecord \in Recs /\ NewRecord \notin Used
<1>1. c \in InStart
  BY DEF InStart, Starting
<1>2. Cardinality(InStart) # 0
  BY <1>1, Finite, FS_EmptySet
<1>3. Cardinality(Used) # Cardinality(Recs)
  BY <1>2, Finite, BoundAssumption, SMTT(40) DEF Room
<1>4. Used # Recs
  BY <1>3
<1>5. Recs \ Used # {} /\ Recs \ Used \in SUBSET Nat
  BY <1>4, BoundAssumption, SMTT(40) DEF Used, Recs
<1>6. \E m \in Recs \ Used : \A n \in Recs \ Used : m <= n
  BY <1>5, Smallest
<1> QED
  BY <1>6 DEF NewRecord

\* A handler that does not register is not starting unless it was.
LEMMA CallerStarts ==
  ASSUME NEW c \in Callers, CallerStep(c), ~Register(c), PcType
  PROVE  \E v : Goto(c, v) /\ (v \in {"start", "start_wait", "start_probe", "start_retry", "register"} => Starting(c))
<1>1. CASE Unregister(c) \/ RestartDone(c) \/ CleanUpKill(c) \/ HealthyCheck(c) \/ Deadline(c)
  <2>1. Goto(c, "idle") \/ Goto(c, "cleanup")
    <3>1. CASE Deadline(c)
      BY <3>1 DEF Deadline, ReadyDeadline
    <3>2. CASE Unregister(c) \/ RestartDone(c)
      BY <3>2 DEF Unregister, RestartDone
    <3>3. CASE CleanUpKill(c) \/ HealthyCheck(c)
      BY <3>3 DEF CleanUpKill, HealthyCheck
    <3> QED
      BY <1>1, <3>1, <3>2, <3>3
  <2> QED
    BY <2>1, SMTT(40)
<1>2. CASE StartAdapter(c) \/ CleanUp(c)
  BY <1>2, SMTT(40) DEF StartAdapter, CleanUp, Starting
<1>3. CASE StopTake(c) \/ StopKill(c) \/ RestartTake(c) \/ RestartKill(c)
  BY <1>3, SMTT(40) DEF StopTake, StopKill, RestartTake, RestartKill
<1>4. CASE \/ ReadyGet(c, "start_wait", "start_probe", "start_retry")
           \/ ReadyCheck(c, "start_probe", "start_retry", "register")
           \/ ReadyAgain(c, "start_retry", "start_wait")
  BY <1>4 DEF ReadyGet, ReadyCheck, ReadyAgain, Starting
<1>5. CASE \/ ReadyGet(c, "restart_wait", "restart_probe", "restart_retry")
           \/ ReadyCheck(c, "restart_probe", "restart_retry", "restarted")
           \/ ReadyAgain(c, "restart_retry", "restart_wait") \/ HealthyGet(c)
  BY <1>5, SMTT(40) DEF ReadyGet, ReadyCheck, ReadyAgain, HealthyGet
<1> QED
  BY <1>1, <1>2, <1>3, <1>4, <1>5 DEF CallerStep

\* A step that uses no record and starts nothing leaves as much room.
LEMMA RoomQuiet ==
  ASSUME Room, \A r \in Recs : pc'[r] # "unborn" => pc[r] # "unborn",
         \A d \in Callers : Starting(d)' => Starting(d)
  PROVE  Room'
<1>1. Used' \in SUBSET Used /\ InStart' \in SUBSET InStart
  BY DEF Used, InStart
<1>2. Cardinality(Used') <= Cardinality(Used) /\ Cardinality(InStart') <= Cardinality(InStart)
  BY <1>1, Finite, FS_Subset
<1>3. Cardinality(Used') \in Nat /\ Cardinality(InStart') \in Nat
  BY <1>1, Finite, FS_Subset, FS_CardinalityType
<1> QED
  BY <1>2, <1>3, Finite, BoundAssumption, SMTT(40) DEF Room

\* What a step of one task does to the program counters.
LEMMA GotoMoves ==
  ASSUME PcType, NEW k \in Tasks, NEW v, Goto(k, v)
  PROVE  /\ Moves(k, v)
         /\ (k \in Callers => v \in CallerState) /\ (k \in Recs => v \in WatcherState) => PcType'
<1>1. DOMAIN pc' = Tasks /\ Moves(k, v)
  BY DEF Goto, PcType, Moves
<1> QED
  BY <1>1, TaskAssumption DEF PcType, Moves

\* Types and room at the start.
LEMMA TypedInit ==
  ASSUME Init
  PROVE  Typed /\ Room
<1>1. (CHOOSE id \in Ids : TRUE) \in Ids
  BY IdAssumption
<1>2. AdapterTypeOK
  BY <1>1, PidAssumption, FaultAssumption, SMTT(40) DEF Init, AdapterInit, AdapterTypeOK
<1>3. TypeOK
  BY <1>1, <1>2, BoundAssumption, SMTT(40) DEF Init, TypeOK
<1>4. PcType
  BY TaskAssumption DEF Init, PcType, CallerState, WatcherState
<1>5. Used = {} /\ InStart = {}
  BY TaskAssumption DEF Init, Used, InStart, Starting
<1>6. Room
  BY <1>5, FS_EmptySet, BoundAssumption, SMTT(40) DEF Room
<1> QED
  BY <1>3, <1>4, <1>6 DEF Typed

Record == [id : Ids, restarts : Nat, fresh : BOOLEAN, revision : 0..MaxRevision]

\* A restart counts on one record and leaves the others, and every id, alone.
LEMMA RestartedTyped ==
  ASSUME Typed, NEW r
  PROVE  /\ Restarted(r) \in [Recs -> Record]
         /\ \A q \in Recs : /\ Restarted(r)[q].id = rec[q].id
                             /\ Restarted(r)[q].restarts = rec[q].restarts + (IF q = r THEN 1 ELSE 0)
<1>1. rec \in [Recs -> Record]
  BY DEF Typed, TypeOK, Record
<1>2. CASE r \notin Recs
  <2>1. Restarted(r) = rec
    BY <1>1, <1>2 DEF Restarted
  <2>2. \A q \in Recs : q # r /\ rec[q].restarts \in Nat
    BY <1>1, <1>2 DEF Record
  <2> QED
    BY <1>1, <2>1, <2>2, SMTT(40)
<1>3. CASE r \in Recs
  <2> DEFINE new == [rec[r] EXCEPT !.restarts = @ + 1, !.fresh = TRUE]
  <2>a. rec[r] \in Record /\ rec[r].restarts + 1 \in Nat
    BY <1>1, <1>3, SMTT(40) DEF Record
  <2>b. \A x \in Record, n \in Nat :
          LET y == [x EXCEPT !.restarts = n, !.fresh = TRUE]
          IN  y \in Record /\ y.id = x.id /\ y.restarts = n
    BY DEF Record
  <2>1. new \in Record /\ new.id = rec[r].id /\ new.restarts = rec[r].restarts + 1
    BY <2>a, <2>b
  <2>2. Restarted(r) = [rec EXCEPT ![r] = new]
    BY <1>1, <1>3 DEF Restarted
  <2> HIDE DEF new
  <2>3. /\ Restarted(r) \in [Recs -> Record]
        /\ \A q \in Recs : Restarted(r)[q] = IF q = r THEN new ELSE rec[q]
    BY <1>1, <2>1, <2>2
  <2>4. \A q \in Recs : rec[q].restarts \in Nat
    BY <1>1 DEF Record
  <2> QED
    BY <2>1, <2>3, <2>4, SMTT(40)
<1> QED
  BY <1>2, <1>3

\* The call of an RPC and a handler's last step leave the adapter alone.
LEMMA RegisterTyped ==
  ASSUME Typed, Room, NEW c \in Callers, Register(c)
  PROVE  /\ Typed' /\ Room'
         /\ NewRecord \in Recs \ Used
         /\ \A k \in Tasks : pc'[k] = IF k = c THEN "idle" ELSE IF k = NewRecord THEN "sleep" ELSE pc[k]
<1> DEFINE n == NewRecord
<1>1. n \in Recs /\ n \notin Used
  BY NewRecordIsNew DEF Register
<1>2. on[c] \in Ids /\ n \in 0..MaxRecords
  BY <1>1, BoundAssumption, SMTT(40) DEF Typed, TypeOK, Recs
<1> HIDE DEF n
<1>3. /\ rec' = [rec EXCEPT ![n] = [id |-> on[c], restarts |-> 0, fresh |-> TRUE, revision |-> 0]]
      /\ instances' = [instances EXCEPT ![on[c]] = n]
      /\ pc' = [pc EXCEPT ![c] = "idle", ![n] = "sleep"]
      /\ UNCHANGED <<adapterVars, on, arc, respawned, cancels>>
  BY DEF Register, n
<1>4. TypeOK'
  <2>1. AdapterTypeOK'
    BY <1>3 DEF adapterVars, AdapterTypeOK, Typed, TypeOK
  <2>2. [id |-> on[c], restarts |-> 0, fresh |-> TRUE, revision |-> 0] \in Record
    BY <1>2, BoundAssumption, SMTT(40) DEF Record
  <2>3. rec' \in [Recs -> Record]
    BY <1>3, <2>2 DEF Typed, TypeOK, Record
  <2> QED
    BY <1>2, <1>3, <2>1, <2>3 DEF Typed, TypeOK, Record
<1>5. /\ DOMAIN pc' = Tasks
      /\ \A k \in Tasks : pc'[k] = IF k = c THEN "idle" ELSE IF k = n THEN "sleep" ELSE pc[k]
  BY <1>1, <1>3, TaskAssumption DEF Typed, PcType
<1>6. PcType'
  BY <1>1, <1>5, TaskAssumption, SMTT(40) DEF Typed, PcType, CallerState, WatcherState
<1>7. Used' = Used \union {n} /\ InStart' = InStart \ {c} /\ c \in InStart
  <2>1. pc[c] = "register"
    BY DEF Register
  <2>2. \A r \in Recs : r \in Used' <=> r \in Used \/ r = n
    BY <1>5, TaskAssumption DEF Used
  <2>3. \A d \in Callers : d \in InStart' <=> d \in InStart /\ d # c
    BY <1>1, <1>5, TaskAssumption DEF InStart, Starting
  <2> QED
    BY <1>1, <2>1, <2>2, <2>3 DEF Used, InStart, Starting
<1>8. Room'
  <2>1. Cardinality(Used') = Cardinality(Used) + 1
    BY <1>1, <1>7, Finite, FS_AddElement
  <2>2. Cardinality(InStart') = Cardinality(InStart) - 1
    BY <1>7, Finite, FS_RemoveElement
  <2> QED
    BY <2>1, <2>2, Finite, BoundAssumption, SMTT(40) DEF Room
<1> QED
  BY <1>1, <1>4, <1>5, <1>6, <1>8 DEF Typed, n

\* StartCore, StopCore, RestartCore and Healthy.
LEMMA CallTyped ==
  ASSUME Typed, Room, NEW c \in Callers, NEW id \in Ids,
         StartCore(c, id) \/ StopCore(c, id) \/ RestartCore(c, id) \/ Healthy(c, id)
  PROVE  /\ Typed' /\ Room'
         /\ \E v \in {"start", "stop", "restart", "healthy"} : Moves(c, v)
         /\ pc[c] = "idle" /\ UNCHANGED <<adapterVars, rec>>
         /\ on' = [on EXCEPT ![c] = id]
<1>1. PICK v \in {"start", "stop", "restart", "healthy"} :
        /\ Goto(c, v) /\ pc[c] = "idle" /\ on' = [on EXCEPT ![c] = id]
        /\ UNCHANGED <<adapterVars, instances, rec, respawned, cancels>>
        /\ v = "start" => StartCore(c, id)
        /\ arc' = arc \/ arc' = [arc EXCEPT ![c] = 0] \/ arc' = [arc EXCEPT ![c] = instances[id]]
  BY DEF StartCore, StopCore, RestartCore, Healthy, Lookup
<1>2. c \in Tasks /\ c \notin Recs
  BY TaskAssumption
<1>3. Moves(c, v) /\ PcType'
  BY <1>1, <1>2, GotoMoves DEF Typed, CallerState
<1>4. AdapterTypeOK'
  BY <1>1 DEF adapterVars, AdapterTypeOK, Typed, TypeOK
<1>5. arc' \in [Callers -> 0..MaxRecords]
  BY <1>1, BoundAssumption, SMTT(40) DEF Typed, TypeOK
<1>6. TypeOK'
  BY <1>1, <1>4, <1>5 DEF Typed, TypeOK
<1>7. \A k \in Tasks : k # c => pc'[k] = pc[k]
  BY <1>3 DEF Moves
<1>8. pc'[c] = v
  BY <1>2, <1>3 DEF Moves
<1>9. Room'
  <2>1. CASE v = "start"
    <3>1. Used' = Used
      BY <1>2, <1>7, TaskAssumption DEF Used
    <3>2. InStart' = InStart \union {c}
      <4>1. \A d \in Callers : d \in InStart' <=> d \in InStart \/ d = c
        BY <1>2, <1>7, <1>8, <2>1, TaskAssumption DEF InStart, Starting
      <4> QED
        BY <4>1 DEF InStart
    <3>3. Cardinality(InStart') <= Cardinality(InStart) + 1 /\ Cardinality(InStart') \in Nat
      <4>1. Cardinality(InStart') =
              IF c \in InStart THEN Cardinality(InStart) ELSE Cardinality(InStart) + 1
        BY <3>2, Finite, FS_AddElement
      <4> QED
        BY <4>1, Finite, SMTT(40)
    <3>4. Cardinality(Used) + Cardinality(InStart) < MaxRecords
      BY <1>1, <2>1 DEF StartCore, InStart
    <3> QED
      BY <3>1, <3>3, <3>4, Finite, BoundAssumption, SMTT(40) DEF Room
  <2>2. CASE v # "start"
    <3>1. /\ \A r \in Recs : pc'[r] # "unborn" => pc[r] # "unborn"
          /\ \A d \in Callers : Starting(d)' => Starting(d)
      BY <1>2, <1>7, <1>8, <2>2, TaskAssumption DEF Starting
    <3> QED
      BY <3>1, RoomQuiet
  <2> QED
    BY <2>1, <2>2
<1> QED
  BY <1>1, <1>3, <1>6, <1>9 DEF Typed
--------------------------------------------------------------------------------
(***************************************************************************)
(* The inductive invariant, and that every step keeps it.                  *)
(***************************************************************************)
Safe == Typed /\ Room /\ Owned

\* A step of one task that keeps the ids, by an operation of the adapter.
LEMMA SafeOperates ==
  ASSUME Safe, NEW k \in Tasks, NEW v, Goto(k, v), Operates(k, v),
         k \in Callers => v \in CallerState /\ (v \in {"start", "start_wait", "start_probe", "start_retry", "register"} => Starting(k)),
         k \in Recs => v \in WatcherState /\ pc[k] # "unborn",
         SameIds, UNCHANGED <<instances, on, arc, cancels>>,
         rec' \in [Recs -> Record], respawned' \in [Recs -> Nat]
  PROVE  Safe'
<1>1. Typed /\ Room /\ Owned /\ PcType /\ TypeOK
  BY DEF Safe, Typed
<1>2. Moves(k, v) /\ PcType'
  BY <1>1, GotoMoves
<1>3. AdapterTypeOK'
  BY <1>1, AdapterTyped
<1>4. TypeOK'
  BY <1>1, <1>3 DEF TypeOK, Record
<1>5. /\ \A r \in Recs : pc'[r] # "unborn" => pc[r] # "unborn"
      /\ \A d \in Callers : Starting(d)' => Starting(d)
  BY <1>2, TaskAssumption DEF Moves, Starting
<1>6. Room'
  BY <1>1, <1>5, RoomQuiet
<1>7. Owned'
  BY <1>1, <1>2, OwnedOperates
<1> QED
  BY <1>2, <1>4, <1>6, <1>7 DEF Safe, Typed

\* A step that changes nothing but records, and no id.
LEMMA SafeRecords ==
  ASSUME Safe, UNCHANGED <<adapterVars, instances, pc, on, arc, respawned, cancels>>,
         rec' \in [Recs -> Record], \A r \in Recs : rec'[r].id = rec[r].id
  PROVE  Safe'
<1>1. Typed /\ Room /\ Owned
  BY DEF Safe
<1>2. Typed'
  BY <1>1 DEF Typed, TypeOK, PcType, AdapterTypeOK, adapterVars, Record
<1>3. Room'
  BY <1>1, RoomQuiet DEF Starting
<1>4. \A j \in Tasks : IdOf(j)' = IdOf(j)
  BY TaskAssumption DEF IdOf
<1>5. Owned'
  BY <1>1, <1>4, OwnedQuiet DEF adapterVars
<1> QED
  BY <1>2, <1>3, <1>5 DEF Safe

\* The call of an RPC.
LEMMA SafeCall ==
  ASSUME Safe, NEW c \in Callers, NEW id \in Ids,
         StartCore(c, id) \/ StopCore(c, id) \/ RestartCore(c, id) \/ Healthy(c, id)
  PROVE  Safe'
<1>1. Typed /\ Room /\ Owned
  BY DEF Safe
<1>2. PICK v \in {"start", "stop", "restart", "healthy"} : Moves(c, v)
  BY <1>1, CallTyped
<1>3. /\ Typed' /\ Room' /\ pc[c] = "idle" /\ UNCHANGED <<adapterVars, rec>>
      /\ on' = [on EXCEPT ![c] = id]
  BY <1>1, CallTyped
<1>4. \A j \in Tasks : /\ pc'[j] \in Killing <=> pc[j] \in Killing
                       /\ pc[j] \in Probing => pc'[j] \in Probing
  BY <1>2, <1>3 DEF Moves, Killing, Probing
<1>5. \A j \in Tasks : pc[j] \in Killing => IdOf(j)' = IdOf(j)
  BY <1>1, <1>3 DEF IdOf, Killing, Typed, TypeOK
<1>6. Owned'
  BY <1>1, <1>3, <1>4, <1>5, OwnedQuiet DEF adapterVars
<1> QED
  BY <1>3, <1>6 DEF Safe

\* A handler dropped by a client that went away.
LEMMA SafeCancel ==
  ASSUME Safe, NEW c \in Callers, Cancel(c)
  PROVE  Safe'
<1>1. Typed /\ Room /\ Owned /\ TypeOK /\ AdapterTypeOK /\ PcType
  BY DEF Safe, Typed, TypeOK
<1>2. c \in Tasks /\ c \notin Recs /\ Goto(c, "idle") /\ AdapterCancel(c)
  BY TaskAssumption DEF Cancel
<1>3. "idle" \in Outside /\ "idle" \in CallerState
  BY DEF Outside, CallerState, WatcherState, Probing, Killing
<1>4. Moves(c, "idle") /\ PcType'
  BY <1>1, <1>2, <1>3, GotoMoves
<1>5. AdapterTypeOK'
  <2>1. proc' \in [Pids -> {"unborn", "starting", "listening", "exited", "dead"}]
    BY <1>1, <1>2 DEF AdapterCancel, DropArcs, AdapterTypeOK
  <2>2. /\ grab' \in [Tasks -> 0..MaxPids] /\ waited' \in [Tasks -> {"none", "exited", "alive"}]
        /\ lifecycle' \in SUBSET Tasks /\ UNCHANGED <<entry, owner, faults>>
    BY <1>1, <1>2, PidAssumption, SMTT(40) DEF AdapterCancel, AdapterTypeOK
  <2> QED
    BY <1>1, <2>1, <2>2 DEF AdapterTypeOK
<1>6. TypeOK'
  BY <1>1, <1>5, BoundAssumption, SMTT(40) DEF Cancel, TypeOK
<1>7. /\ \A r \in Recs : pc'[r] # "unborn" => pc[r] # "unborn"
      /\ \A d \in Callers : Starting(d)' => Starting(d)
  BY <1>2, <1>4, TaskAssumption DEF Moves, Starting
<1>8. Room'
  BY <1>1, <1>7, RoomQuiet
<1>9. SameIds
  BY DEF SameIds, IdOf, Cancel
<1>10. Owned'
  BY <1>1, <1>2, <1>3, <1>4, <1>9, OwnedCancel
<1> QED
  BY <1>4, <1>6, <1>8, <1>10 DEF Safe, Typed

\* A handler registers a record.
LEMMA SafeRegister ==
  ASSUME Safe, NEW c \in Callers, Register(c)
  PROVE  Safe'
<1>1. Typed /\ Room /\ Owned
  BY DEF Safe
<1> DEFINE n == NewRecord
<1>2. /\ Typed' /\ Room' /\ n \in Recs \ Used
      /\ \A k \in Tasks : pc'[k] = IF k = c THEN "idle" ELSE IF k = n THEN "sleep" ELSE pc[k]
  BY <1>1, RegisterTyped
<1>3. /\ pc[c] = "register" /\ UNCHANGED adapterVars /\ on' = on
      /\ rec' = [rec EXCEPT ![n] = [id |-> on[c], restarts |-> 0, fresh |-> TRUE, revision |-> 0]]
  BY DEF Register
<1> HIDE DEF n
<1>4. pc[n] = "unborn"
  BY <1>2 DEF Used
<1>5. \A j \in Tasks : /\ pc'[j] \in Killing <=> pc[j] \in Killing
                       /\ pc[j] \in Probing => pc'[j] \in Probing
  BY <1>2, <1>3, <1>4 DEF Killing, Probing
<1>6. \A j \in Tasks : pc[j] \in Killing => IdOf(j)' = IdOf(j)
  BY <1>1, <1>3, <1>4, TaskAssumption DEF IdOf, Killing, Typed, TypeOK
<1>7. Owned'
  BY <1>1, <1>3, <1>5, <1>6, OwnedQuiet DEF adapterVars
<1> QED
  BY <1>2, <1>7 DEF Safe

\* A handler goes on.
LEMMA SafeCallerStep ==
  ASSUME Safe, NEW c \in Callers, CallerStep(c)
  PROVE  Safe'
<1>1. CASE Register(c)
  BY <1>1, SafeRegister
<1> SUFFICES ASSUME ~Register(c) PROVE Safe'
  BY <1>1
<1>2. Typed /\ PcType /\ c \in Tasks /\ c \notin Recs /\ rec \in [Recs -> Record] /\ respawned \in [Recs -> Nat]
  BY TaskAssumption DEF Safe, Typed, TypeOK, Record
<1>3. PICK w : Goto(c, w) /\ (w \in {"start", "start_wait", "start_probe", "start_retry", "register"} => Starting(c))
  BY <1>2, CallerStarts
<1>4. CASE \E v \in CallerState : Goto(c, v) /\ Operates(c, v) /\ UNCHANGED supVars
  <2>1. PICK v \in CallerState : Goto(c, v) /\ Operates(c, v) /\ UNCHANGED supVars
    BY <1>4
  <2>2. v = w
    BY <1>2, <1>3, <2>1 DEF Goto, PcType
  <2>3. SameIds
    BY <2>1 DEF SameIds, IdOf, supVars
  <2> QED
    BY <1>2, <1>3, <2>1, <2>2, <2>3, SafeOperates DEF supVars
<1>5. CASE Unregister(c)
  <2>1. Typed' /\ Room' /\ Owned'
    <3>1. /\ pc[c] = "unregister" /\ Goto(c, "idle") /\ UNCHANGED <<adapterVars, rec, on, arc, respawned, cancels>>
          /\ instances' = [instances EXCEPT ![on[c]] = 0]
      BY <1>5 DEF Unregister
    <3>2. Moves(c, "idle") /\ PcType'
      BY <1>2, <3>1, GotoMoves DEF CallerState
    <3>3. TypeOK'
      BY <1>2, <3>1, BoundAssumption, SMTT(40) DEF Typed, TypeOK, AdapterTypeOK, adapterVars
    <3>4. /\ \A r \in Recs : pc'[r] # "unborn" => pc[r] # "unborn"
          /\ \A d \in Callers : Starting(d)' => Starting(d)
      BY <1>2, <3>2, TaskAssumption DEF Moves, Starting
    <3>5. \A j \in Tasks : /\ pc'[j] \in Killing <=> pc[j] \in Killing
                           /\ pc[j] \in Probing => pc'[j] \in Probing
                           /\ IdOf(j)' = IdOf(j)
      BY <3>1, <3>2 DEF Moves, Killing, Probing, IdOf
    <3> QED
      BY <3>1, <3>2, <3>3, <3>4, <3>5, RoomQuiet, OwnedQuiet DEF Safe, Typed, adapterVars
  <2> QED
    BY <2>1 DEF Safe
<1>6. CASE RestartDone(c)
  <2>1. /\ pc[c] = "restarted" /\ Goto(c, "idle") /\ rec' = Restarted(arc[c])
        /\ UNCHANGED <<adapterVars, instances, on, arc, respawned, cancels>>
    BY <1>6 DEF RestartDone
  <2>2. rec' \in [Recs -> Record] /\ \A q \in Recs : rec'[q].id = rec[q].id
    BY <1>2, <2>1, RestartedTyped
  <2>3. SameIds
    BY <2>1, <2>2, TaskAssumption DEF SameIds, IdOf
  <2>4. Operates(c, "idle") /\ "idle" \in CallerState
    BY <2>1 DEF Operates, Outside, CallerState, WatcherState, Probing, Killing
  <2> QED
    BY <1>2, <2>1, <2>2, <2>3, <2>4, SafeOperates
<1> QED
  BY <1>4, <1>5, <1>6, CallerOperates

\* A watcher goes on.
LEMMA SafeWatcherStep ==
  ASSUME Safe, NEW r \in Recs, WatcherStep(r)
  PROVE  Safe'
<1>1. Typed /\ r \in Tasks /\ r \notin Callers /\ rec \in [Recs -> Record] /\ respawned \in [Recs -> Nat]
  BY TaskAssumption DEF Safe, Typed, TypeOK, Record
<1>2. PICK v \in WatcherState \ {"unborn"} :
        /\ pc[r] # "unborn" /\ Goto(r, v) /\ Operates(r, v)
        /\ UNCHANGED <<instances, on, arc, cancels>>
        /\ rec' = rec \/ rec' = Restarted(r)
        /\ respawned' = respawned \/ respawned' = [respawned EXCEPT ![r] = @ + 1]
  BY <1>1, WatcherOperates
<1>3. rec' \in [Recs -> Record] /\ \A q \in Recs : rec'[q].id = rec[q].id
  BY <1>1, <1>2, RestartedTyped, SMTT(40)
<1>4. SameIds
  BY <1>2, <1>3, TaskAssumption DEF SameIds, IdOf
<1>5. respawned' \in [Recs -> Nat]
  BY <1>1, <1>2, SMTT(40)
<1> QED
  BY <1>1, <1>2, <1>3, <1>4, <1>5, SafeOperates

\* Time passes, a protocol is swapped, a policy is applied.
LEMMA SafeRecordSteps ==
  ASSUME Safe,
         \/ \E r \in Recs : Age(r)
         \/ \E id \in Ids : HotSwap(id) \/ \E v \in 1..MaxRevision : ApplyPolicy(id, v)
  PROVE  Safe'
<1>1. rec \in [Recs -> Record]
  BY DEF Safe, Typed, TypeOK, Record
<1>2. \A x \in Record, b \in BOOLEAN, v \in 0..MaxRevision :
        /\ [x EXCEPT !.fresh = b] \in Record /\ [x EXCEPT !.fresh = b].id = x.id
        /\ [x EXCEPT !.revision = v] \in Record /\ [x EXCEPT !.revision = v].id = x.id
  BY DEF Record
<1>3. ASSUME NEW r, NEW b \in BOOLEAN, NEW v \in 0..MaxRevision,
             UNCHANGED <<adapterVars, instances, pc, on, arc, respawned, cancels>>,
             \/ rec' = [rec EXCEPT ![r] = [rec[r] EXCEPT !.fresh = b]]
             \/ rec' = [rec EXCEPT ![r] = [rec[r] EXCEPT !.revision = v]]
      PROVE  Safe'
  <2>1. CASE r \notin Recs
    <3>1. rec' = rec
      BY <1>1, <1>3, <2>1, SMTT(40)
    <3> QED
      BY <1>1, <1>3, <3>1, SafeRecords
  <2>2. CASE r \in Recs
    <3>1. rec[r] \in Record
      BY <1>1, <2>2
    <3>2. PICK x \in Record : rec' = [rec EXCEPT ![r] = x] /\ x.id = rec[r].id
      BY <1>2, <1>3, <3>1
    <3>3. rec' \in [Recs -> Record] /\ \A q \in Recs : rec'[q].id = rec[q].id
      BY <1>1, <3>2
    <3> QED
      BY <1>3, <3>3, SafeRecords
  <2> QED
    BY <2>1, <2>2
<1>4. 0 \in 0..MaxRevision /\ \A v \in 1..MaxRevision : v \in 0..MaxRevision
  BY BoundAssumption, SMTT(40)
<1>5. CASE \E r \in Recs : Age(r)
  <2>1. PICK r \in Recs : Age(r)
    BY <1>5
  <2> QED
    BY <1>3, <1>4, <2>1 DEF Age
<1>6. CASE \E id \in Ids : HotSwap(id)
  <2>1. PICK id \in Ids : HotSwap(id)
    BY <1>6
  <2> QED
    BY <1>3, <1>4, <2>1 DEF HotSwap
<1>7. CASE \E id \in Ids : \E v \in 1..MaxRevision : ApplyPolicy(id, v)
  <2>1. PICK id \in Ids, v \in 1..MaxRevision : ApplyPolicy(id, v)
    BY <1>7
  <2> QED
    BY <1>3, <1>4, <2>1 DEF ApplyPolicy
<1> QED
  BY <1>5, <1>6, <1>7

\* try_wait of a probe, and the children's own steps.
LEMMA SafeChildren ==
  ASSUME Safe, (\E k \in Tasks : ProbeWait(k)) \/ (\E p \in Pids : ChildStep(p))
  PROVE  Safe'
<1>1. Typed /\ Room /\ Owned /\ TypeOK /\ AdapterTypeOK
  BY DEF Safe, Typed, TypeOK
<1>2. UNCHANGED <<supVars, pc>>
  BY DEF ProbeWait, ChildStep
<1>3. AdapterTypeOK'
  BY <1>1, SMTT(40) DEF ProbeWait, ChildStep, HealthWait, Listen, Exit, AdapterTypeOK
<1>4. Typed'
  BY <1>1, <1>2, <1>3 DEF supVars, Typed, TypeOK, PcType
<1>5. Room'
  BY <1>1, <1>2, RoomQuiet DEF Starting
<1>6. SameIds
  BY <1>2 DEF SameIds, IdOf, supVars
<1>7. Owned'
  BY <1>1, <1>2, <1>6, OwnedWait, OwnedChild DEF ProbeWait, ChildStep
<1> QED
  BY <1>4, <1>5, <1>7 DEF Safe

\* Every step keeps the invariant.
LEMMA SafeNext ==
  ASSUME Safe, [Next]_vars
  PROVE  Safe'
<1>1. CASE UNCHANGED vars
  <2>1. rec \in [Recs -> Record]
    BY DEF Safe, Typed, TypeOK, Record
  <2> QED
    BY <1>1, <2>1, SafeRecords DEF vars, supVars
<1>2. CASE \E c \in Callers : Call(c) \/ CallerStep(c)
  BY <1>2, SafeCall, SafeCancel, SafeCallerStep DEF Call
<1>3. CASE \E r \in Recs : WatcherStep(r)
  BY <1>3, SafeWatcherStep
<1>4. CASE \/ \E r \in Recs : Age(r)
           \/ \E id \in Ids : HotSwap(id) \/ \E v \in 1..MaxRevision : ApplyPolicy(id, v)
  BY <1>4, SafeRecordSteps
<1>5. CASE (\E k \in Tasks : ProbeWait(k)) \/ (\E p \in Pids : ChildStep(p))
  BY <1>5, SafeChildren
<1> QED
  BY <1>1, <1>2, <1>3, <1>4, <1>5 DEF Next

\* The invariant holds at the start.
LEMMA SafeInit ==
  ASSUME Init
  PROVE  Safe
<1>1. Typed /\ Room
  BY TypedInit
<1>2. /\ entry = [id \in Ids |-> 0] /\ lifecycle = {} /\ grab = [k \in Tasks |-> 0]
      /\ proc = [p \in Pids |-> "unborn"]
      /\ pc = [k \in Tasks |-> IF k \in Callers THEN "idle" ELSE "unborn"]
  BY DEF Init, AdapterInit
<1>3. EntryOwner /\ GrabPc /\ NoEscape
  BY <1>2 DEF EntryOwner, GrabPc, NoEscape, Alive
<1>4. Locked
  BY <1>2 DEF Locked, Killing
<1> QED
  BY <1>1, <1>3, <1>4 DEF Safe, Owned

\* The invariant holds in every reachable state.
LEMMA SafeAlways == Spec => []Safe
BY SafeInit, SafeNext, PTL DEF Spec

--------------------------------------------------------------------------------
(***************************************************************************)
(* What follows from it.                                                   *)
(***************************************************************************)
\* The state of the supervisor and of the adapter (supervisor.rs 26-42,
\* core_adapters.rs 243-250) keeps its types, and a start that reaches the map
\* finds a record for it.
THEOREM SupervisorTypes == Spec => []TypeOK
<1>1. Safe => TypeOK
  BY DEF Safe, Typed
<1> QED
  BY <1>1, SafeAlways, PTL

\* No live child escapes the adapter (core_adapters.rs 395-446): with any number
\* of handlers, watchers, failing system calls and cancelled RPCs it is in the
\* map, in the hands of the task that is about to kill it, or kept by a probe.
THEOREM ChildrenStayTracked == Spec => []NoEscape
<1>1. Safe => NoEscape
  BY DEF Safe, Owned
<1> QED
  BY <1>1, SafeAlways, PTL

\* At most one live child per id that anybody can still reach: the replacement
\* a restart launches (core_adapters.rs 427-446) never runs beside its predecessor,
\* unless a probe in flight keeps the one dropped from the map.
THEOREM OneChildPerId == Spec => []OneChild
<1>1. Safe => OneChild
  <2> SUFFICES ASSUME Safe, NEW p \in Pids, NEW q \in Pids,
                      Alive(p), Alive(q), owner[p] = owner[q], p # q
               PROVE  \E k \in Tasks \ lifecycle : grab[k] \in {p, q}
    BY DEF OneChild
  <2>1. Typed /\ Locked /\ NoEscape
    BY DEF Safe, Owned
  <2>2. \/ entry[owner[p]] = p /\ \E k \in Tasks : grab[k] = q
        \/ entry[owner[p]] = q /\ \E k \in Tasks : grab[k] = p
        \/ \E j, k \in Tasks : grab[j] = p /\ grab[k] = q
    BY <2>1 DEF NoEscape
  <2>3. ASSUME NEW k \in Tasks, grab[k] \in {p, q}, k \in lifecycle, entry[owner[p]] \in {p, q}
        PROVE  FALSE
    <3>1. owner[grab[k]] = IdOf(k) /\ entry[IdOf(k)] = 0
      BY <2>1, <2>3 DEF Locked
    <3>2. entry[owner[p]] = 0
      BY <2>3, <3>1
    <3> QED
      BY <2>1, <2>3, <3>2, TypeFacts
  <2>4. ASSUME NEW j \in Tasks, NEW k \in Tasks, grab[j] = p, grab[k] = q, j \in lifecycle
        PROVE  k \notin lifecycle
    BY <2>1, <2>4 DEF Locked
  <2> QED
    BY <2>2, <2>3, <2>4
<1> QED
  BY <1>1, SafeAlways, PTL
--------------------------------------------------------------------------------
(***************************************************************************)
(* The restart budget.                                                     *)
(***************************************************************************)
\* A watcher has launched no more children than its record counts, but for the
\* one it is about to count, and it restarts only with budget left.
Spends(r) ==
  /\ pc[r] = "unborn" => respawned[r] = 0
  /\ respawned[r] <= rec[r].restarts + (IF pc[r] = "count" THEN 1 ELSE 0)
  /\ pc[r] \in {"restart", "kill"} => respawned[r] < MaxRestarts
  /\ respawned[r] <= MaxRestarts
Budget == \A r \in Recs : Spends(r)

\* Types of what the budget compares.
LEMMA SpendsTypes ==
  ASSUME Safe, NEW r \in Recs
  PROVE  rec[r].restarts \in Nat /\ respawned[r] \in Nat /\ MaxRestarts \in Nat
BY BoundAssumption DEF Safe, Typed, TypeOK

\* Whoever else counts on the record, the watcher has only less left.
LEMMA SpendsQuiet ==
  ASSUME Safe, Safe', NEW r \in Recs, Spends(r), pc'[r] = pc[r], respawned'[r] = respawned[r],
         rec'[r].restarts >= rec[r].restarts
  PROVE  Spends(r)'
<1>1. rec[r].restarts \in Nat /\ respawned[r] \in Nat /\ MaxRestarts \in Nat
  BY SpendsTypes
<1>2. rec'[r].restarts \in Nat
  BY SpendsTypes DEF Safe, Typed, TypeOK
<1> QED
  BY <1>1, <1>2, SMTT(40) DEF Spends

\* The watcher's own step.
LEMMA SpendsWatcher ==
  ASSUME Safe, NEW r \in Recs, Spends(r), WatcherStep(r)
  PROVE  Spends(r)'
<1>1. rec[r].restarts \in Nat /\ respawned[r] \in Nat /\ MaxRestarts \in Nat
  BY SpendsTypes
<1>2. Typed /\ respawned \in [Recs -> Nat] /\ r \in DOMAIN pc
  BY TaskAssumption DEF Safe, Typed, TypeOK, PcType
<1>3. ASSUME UNCHANGED supVars, NEW v, Goto(r, v), v # "unborn", pc[r] # "count",
             v \in {"restart", "kill"} => pc[r] \in {"restart", "kill"} \/ rec[r].restarts < MaxRestarts
      PROVE  Spends(r)'
  <2>1. pc'[r] = v /\ respawned'[r] = respawned[r] /\ rec'[r].restarts = rec[r].restarts
    BY <1>2, <1>3 DEF Goto, supVars
  <2> QED
    BY <1>1, <1>3, <2>1, SMTT(40) DEF Spends
<1>4. CASE WatchGet(r) \/ WatchCheck(r) \/ WatchTake(r)
  BY <1>3, <1>4 DEF WatchGet, WatchCheck, WatchTake
<1>5. CASE WatchBudget(r)
  BY <1>3, <1>5 DEF WatchBudget, WithinBudget
<1>6. CASE WatchKill(r)
  <2>1. /\ pc[r] = "kill" /\ pc'[r] = "count" /\ rec' = rec
        /\ respawned'[r] = respawned[r] \/ respawned'[r] = respawned[r] + 1
    BY <1>2, <1>6 DEF WatchKill, Goto
  <2>2. respawned[r] <= rec[r].restarts /\ respawned[r] < MaxRestarts
    BY <1>1, <2>1, SMTT(40) DEF Spends
  <2>3. respawned'[r] <= rec'[r].restarts + 1 /\ respawned'[r] <= MaxRestarts
    BY <1>1, <2>1, <2>2, SMTT(40)
  <2> QED
    BY <2>1, <2>3 DEF Spends
<1>7. CASE WatchCount(r)
  <2>1. /\ pc[r] = "count" /\ pc'[r] = "sleep" /\ rec' = Restarted(r) /\ respawned' = respawned
    BY <1>2, <1>7 DEF WatchCount, Goto
  <2>2. rec'[r].restarts = rec[r].restarts + 1
    BY <1>2, <2>1, RestartedTyped
  <2> QED
    BY <1>1, <2>1, <2>2, SMTT(40) DEF Spends
<1> QED
  BY <1>4, <1>5, <1>6, <1>7 DEF WatcherStep

\* Any other step leaves a watcher where it stands and only counts up, unless
\* the record is a new one.
LEMMA OthersCount ==
  ASSUME Safe, [Next]_vars, NEW r \in Recs, ~WatcherStep(r)
  PROVE  \/ pc'[r] = pc[r] /\ respawned'[r] = respawned[r] /\ rec'[r].restarts >= rec[r].restarts
         \/ \E c \in Callers : Register(c) /\ r = NewRecord
<1>1. Typed /\ Room /\ PcType /\ rec \in [Recs -> Record] /\ rec[r].restarts \in Nat /\ r \in Tasks /\ r \notin Callers
  BY SpendsTypes, TaskAssumption DEF Safe, Typed, TypeOK, Record
<1> DEFINE Quiet == pc'[r] = pc[r] /\ respawned'[r] = respawned[r] /\ rec'[r].restarts >= rec[r].restarts
<1>2. \A n : rec' = Restarted(n) => rec'[r].restarts >= rec[r].restarts
  BY <1>1, RestartedTyped, SMTT(40)
<1>3. CASE UNCHANGED vars
  BY <1>1, <1>3, SMTT(40) DEF vars, supVars
<1>4. ASSUME NEW k \in Tasks, k # r, NEW v, Goto(k, v) PROVE pc'[r] = pc[r]
  BY <1>1, <1>4, SMTT(40) DEF Goto
<1>5. CASE \E c \in Callers : Call(c)
  <2>1. PICK c \in Callers : Call(c)
    BY <1>5
  <2>2. UNCHANGED <<rec, respawned>> /\ \E v : Goto(c, v)
    BY <2>1 DEF Call, StartCore, StopCore, RestartCore, Healthy, Lookup, Cancel
  <2> QED
    <3>1. c \in Tasks /\ c # r
      BY TaskAssumption
    <3>2. pc'[r] = pc[r]
      BY <1>4, <2>2, <3>1
    <3> QED
      BY <1>1, <2>2, <3>2, SMTT(40)
<1>6. ASSUME NEW c \in Callers, CallerStep(c), ~Register(c) PROVE Quiet
  <2>1. \E v : Goto(c, v)
    BY <1>1, <1>6, CallerStarts
  <2>2. rec' = rec \/ (\E n : rec' = Restarted(n))
    BY <1>6, CallerOperates DEF Unregister, RestartDone, supVars
  <2>3. respawned' = respawned
    BY <1>6, CallerOperates DEF Unregister, RestartDone, supVars
  <2>4. c \in Tasks /\ c # r
    BY TaskAssumption
  <2>5. pc'[r] = pc[r]
    BY <1>4, <2>1, <2>4
  <2>6. rec'[r].restarts >= rec[r].restarts
    BY <1>1, <1>2, <2>2, SMTT(40)
  <2> QED
    BY <2>3, <2>5, <2>6
<1>7. ASSUME NEW c \in Callers, Register(c), r # NewRecord PROVE Quiet
  <2>1. pc'[r] = pc[r]
    BY <1>1, <1>7, RegisterTyped
  <2>2. rec'[r] = rec[r] /\ respawned' = respawned
    BY <1>1, <1>7 DEF Register
  <2> QED
    BY <1>1, <2>1, <2>2, SMTT(40)
<1>8. ASSUME NEW q \in Recs, WatcherStep(q) PROVE Quiet
  <2>1. q # r /\ q \in Tasks
    BY <1>8, TaskAssumption
  <2>2. /\ \E v : Goto(q, v)
        /\ rec' = rec \/ rec' = Restarted(q)
        /\ respawned' = respawned \/ respawned' = [respawned EXCEPT ![q] = @ + 1]
    BY <1>1, <1>8, WatcherOperates
  <2>3. respawned'[r] = respawned[r]
    BY <2>1, <2>2 DEF Safe, Typed, TypeOK
  <2>4. pc'[r] = pc[r]
    BY <1>4, <2>1, <2>2
  <2>5. rec'[r].restarts >= rec[r].restarts
    BY <1>1, <1>2, <2>2, SMTT(40)
  <2> QED
    BY <2>3, <2>4, <2>5
<1>9. CASE \/ \E q \in Recs : Age(q)
           \/ \E id \in Ids : HotSwap(id) \/ \E v \in 1..MaxRevision : ApplyPolicy(id, v)
  <2>1. UNCHANGED <<pc, respawned>>
    BY <1>9 DEF Age, HotSwap, ApplyPolicy
  <2> DEFINE Fresh(q, b) == [rec EXCEPT ![q].fresh = b]
             Revised(q, v) == [rec EXCEPT ![q].revision = v]
  <2>2. \A q, b : Fresh(q, b)[r].restarts = rec[r].restarts /\ Revised(q, b)[r].restarts = rec[r].restarts
    BY <1>1 DEF Record
  <2>3. \E q, b : rec' = Fresh(q, b) \/ rec' = Revised(q, b)
    BY <1>9 DEF Age, HotSwap, ApplyPolicy
  <2> HIDE DEF Fresh, Revised
  <2>4. rec'[r].restarts = rec[r].restarts
    BY <2>2, <2>3
  <2> QED
    BY <1>1, <2>1, <2>4, SMTT(40)
<1>10. CASE (\E k \in Tasks : ProbeWait(k)) \/ (\E p \in Pids : ChildStep(p))
  <2>1. UNCHANGED <<pc, rec, respawned>>
    BY <1>10 DEF ProbeWait, ChildStep, supVars
  <2> QED
    BY <1>1, <2>1, SMTT(40)
<1> QED
  BY <1>3, <1>5, <1>6, <1>7, <1>8, <1>9, <1>10 DEF Next

\* No step overdraws the budget.
LEMMA BudgetNext ==
  ASSUME Safe, Budget, [Next]_vars
  PROVE  Budget'
<1> SUFFICES ASSUME NEW r \in Recs PROVE Spends(r)'
  BY DEF Budget
<1>1. Spends(r) /\ Safe'
  BY SafeNext DEF Budget
<1>2. CASE WatcherStep(r)
  BY <1>1, <1>2, SpendsWatcher
<1>3. CASE pc'[r] = pc[r] /\ respawned'[r] = respawned[r] /\ rec'[r].restarts >= rec[r].restarts
  BY <1>1, <1>3, SpendsQuiet
<1>4. ASSUME NEW c \in Callers, Register(c), r = NewRecord PROVE Spends(r)'
  <2>1. Typed /\ Room
    BY DEF Safe
  <2>2. r \in Tasks /\ r # c
    BY TaskAssumption
  <2>3. r \in Recs \ Used /\ pc'[r] = "sleep"
    BY <1>4, <2>1, <2>2, RegisterTyped
  <2>4. pc[r] = "unborn"
    BY <2>3 DEF Used
  <2>5. respawned'[r] = 0
    BY <1>1, <1>4, <2>4 DEF Register, Spends
  <2>6. rec'[r].restarts = 0
    BY <1>4, <2>1 DEF Register, Typed, TypeOK
  <2> QED
    BY <2>3, <2>5, <2>6, BoundAssumption, SMTT(40) DEF Spends
<1> QED
  BY <1>2, <1>3, <1>4, OthersCount

\* "Restarts a core within max_restarts" (supervisor.rs 302-303): the watcher of a
\* record launches at most max_restarts children in its life, whatever the restart
\* RPCs, policy pushes and hot swaps on the same record do in between.
THEOREM WatcherKeepsBudget == Spec => []RestartBudget
<1>1. Init => Budget
  BY TaskAssumption, BoundAssumption, SMTT(40) DEF Init, Budget, Spends, Recs
<1>2. Safe /\ Budget /\ [Next]_vars => Budget'
  BY BudgetNext
<1>3. Budget => RestartBudget
  BY DEF Budget, Spends, RestartBudget
<1> QED
  BY <1>1, <1>2, <1>3, SafeAlways, PTL DEF Spec
--------------------------------------------------------------------------------
(***************************************************************************)
(* Reachability.  A child is covered while a start will still register or  *)
(* clean it up.  A stop about to remove the record it looked up finds the  *)
(* id covered; its record is one that was in use.                          *)
(***************************************************************************)
LaunchState == {"start_wait", "start_probe", "start_retry", "register", "cleanup"}
Covered(id) == Tracked(id) => Launching(id)

Born ==
  /\ \A id \in Ids : instances[id] # 0 => instances[id] \in Used
  /\ \A c \in Callers : pc[c] \in {"stop", "stop_kill", "unregister"} => arc[c] \in Used

Removable ==
  cancels = 0 =>
    \A c \in Callers : pc[c] = "unregister" /\ instances[on[c]] = arc[c] => Covered(on[c])

\* A step of somebody else leaves a handler where it is.
LEMMA OthersStay ==
  ASSUME Safe, [Next]_vars, NEW c \in Callers, ~Call(c), ~CallerStep(c)
  PROVE  pc'[c] = pc[c] /\ on'[c] = on[c] /\ arc'[c] = arc[c]
<1>1. /\ Typed /\ Room /\ PcType /\ c \in Tasks /\ c \notin Recs
      /\ on \in [Callers -> Ids] /\ arc \in [Callers -> 0..MaxRecords]
  BY TaskAssumption DEF Safe, Typed, TypeOK
<1>2. ASSUME NEW k \in Tasks, k # c, NEW v, Goto(k, v) PROVE pc'[c] = pc[c]
  BY <1>1, <1>2, SMTT(40) DEF Goto
<1>3. CASE UNCHANGED vars
  BY <1>3 DEF vars, supVars
<1>4. ASSUME NEW d \in Callers, Call(d)
      PROVE  pc'[c] = pc[c] /\ on'[c] = on[c] /\ arc'[c] = arc[c]
  <2>1. d # c /\ d \in Tasks
    BY <1>4, TaskAssumption
  <2>2. \E v : Goto(d, v)
    BY <1>4 DEF Call, StartCore, StopCore, RestartCore, Healthy, Lookup, Cancel
  <2>3. on'[c] = on[c] /\ arc'[c] = arc[c]
    BY <1>1, <1>4, <2>1 DEF Call, StartCore, StopCore, RestartCore, Healthy, Lookup, Cancel
  <2> QED
    BY <1>2, <2>1, <2>2, <2>3
<1>5. ASSUME NEW d \in Callers, CallerStep(d)
      PROVE  pc'[c] = pc[c] /\ on'[c] = on[c] /\ arc'[c] = arc[c]
  <2>1. d # c /\ d \in Tasks
    BY <1>5, TaskAssumption
  <2>2. UNCHANGED <<on, arc>>
    BY <1>5, CallerOperates DEF Register, Unregister, RestartDone, supVars
  <2>3. Register(d) => pc'[c] = pc[c]
    BY <1>1, <2>1, RegisterTyped
  <2>4. ~Register(d) => pc'[c] = pc[c]
    BY <1>1, <1>2, <1>5, <2>1, CallerStarts
  <2> QED
    BY <2>2, <2>3, <2>4
<1>6. ASSUME NEW r \in Recs, WatcherStep(r)
      PROVE  pc'[c] = pc[c] /\ on'[c] = on[c] /\ arc'[c] = arc[c]
  <2>1. r # c /\ r \in Tasks
    BY <1>1, TaskAssumption
  <2>2. UNCHANGED <<on, arc>> /\ \E v : Goto(r, v)
    BY <1>1, <1>6, WatcherOperates
  <2> QED
    BY <1>2, <2>1, <2>2
<1>7. CASE \/ \E r \in Recs : Age(r)
           \/ \E id \in Ids : HotSwap(id) \/ \E v \in 1..MaxRevision : ApplyPolicy(id, v)
  BY <1>7 DEF Age, HotSwap, ApplyPolicy
<1>8. CASE (\E k \in Tasks : ProbeWait(k)) \/ (\E p \in Pids : ChildStep(p))
  BY <1>8 DEF ProbeWait, ChildStep, supVars
<1> QED
  BY <1>3, <1>4, <1>5, <1>6, <1>7, <1>8 DEF Next

\* A record in use stays in use.
LEMMA UsedGrows ==
  ASSUME Safe, [Next]_vars
  PROVE  Used \subseteq Used'
<1> SUFFICES ASSUME NEW r \in Recs, pc[r] # "unborn" PROVE pc'[r] # "unborn"
  BY DEF Used
<1>1. Typed /\ Room /\ PcType /\ r \in Tasks
  BY TaskAssumption DEF Safe, Typed
<1>2. CASE WatcherStep(r)
  BY <1>1, <1>2, WatcherOperates DEF Goto, PcType
<1>3. ASSUME NEW c \in Callers, Register(c), r = NewRecord PROVE pc'[r] # "unborn"
  BY <1>1, <1>3, RegisterTyped
<1> QED
  BY <1>2, <1>3, OthersCount

\* Only a start and a stop change the map of records.
LEMMA InstancesStep ==
  ASSUME Safe, [Next]_vars
  PROVE  instances' = instances \/ \E c \in Callers : Register(c) \/ Unregister(c)
<1>1. Typed
  BY DEF Safe
<1>2. CASE \E c \in Callers : CallerStep(c)
  BY <1>2, CallerOperates DEF RestartDone, supVars
<1>3. CASE \E c \in Callers : Call(c)
  BY <1>3 DEF Call, StartCore, StopCore, RestartCore, Healthy, Lookup, Cancel
<1>4. CASE \E r \in Recs : WatcherStep(r)
  BY <1>1, <1>4, WatcherOperates
<1>5. CASE \/ \E r \in Recs : Age(r)
           \/ \E id \in Ids : HotSwap(id) \/ \E v \in 1..MaxRevision : ApplyPolicy(id, v)
  BY <1>5 DEF Age, HotSwap, ApplyPolicy
<1>6. CASE (\E k \in Tasks : ProbeWait(k)) \/ (\E p \in Pids : ChildStep(p)) \/ UNCHANGED vars
  BY <1>6 DEF ProbeWait, ChildStep, supVars, vars
<1> QED
  BY <1>2, <1>3, <1>4, <1>5, <1>6 DEF Next

\* How a handler gets to the point where it removes a record.
LEMMA StopStates ==
  ASSUME PcType, NEW c \in Callers, CallerStep(c), pc'[c] \in {"stop", "stop_kill", "unregister"}, Typed, Room
  PROVE  /\ pc[c] \in {"stop", "stop_kill"} /\ UNCHANGED <<on, arc>>
         /\ pc'[c] = "unregister" => StopKill(c)
<1>1. c \in DOMAIN pc
  BY TaskAssumption DEF PcType
<1>2. UNCHANGED <<on, arc>>
  BY CallerOperates DEF Register, Unregister, RestartDone, supVars
<1>3. ~Register(c)
  BY <1>1, RegisterTyped, TaskAssumption
<1>4. ~(\/ Unregister(c) \/ RestartDone(c) \/ CleanUpKill(c) \/ HealthyCheck(c) \/ Deadline(c)
        \/ StartAdapter(c) \/ CleanUp(c))
  BY <1>1 DEF Unregister, RestartDone, CleanUpKill, HealthyCheck, Deadline, ReadyDeadline,
              StartAdapter, CleanUp, Goto
<1>5. ~(\/ RestartTake(c) \/ RestartKill(c) \/ HealthyGet(c))
  BY <1>1 DEF RestartTake, RestartKill, HealthyGet, Goto
<1>6. ~(\/ ReadyGet(c, "start_wait", "start_probe", "start_retry")
        \/ ReadyCheck(c, "start_probe", "start_retry", "register")
        \/ ReadyAgain(c, "start_retry", "start_wait")
        \/ ReadyGet(c, "restart_wait", "restart_probe", "restart_retry")
        \/ ReadyCheck(c, "restart_probe", "restart_retry", "restarted")
        \/ ReadyAgain(c, "restart_retry", "restart_wait"))
  BY <1>1 DEF ReadyGet, ReadyCheck, ReadyAgain, Goto
<1>7. StopTake(c) \/ StopKill(c)
  BY <1>3, <1>4, <1>5, <1>6 DEF CallerStep
<1> QED
  BY <1>1, <1>2, <1>7 DEF StopTake, StopKill, Goto

\* Records named by the map and by stops in progress are in use.
LEMMA BornNext ==
  ASSUME Safe, Born, [Next]_vars
  PROVE  Born'
<1>1. Typed /\ Room /\ PcType /\ Used \subseteq Used'
  BY UsedGrows DEF Safe, Typed
<1>2. ASSUME NEW id \in Ids, instances'[id] # 0 PROVE instances'[id] \in Used'
  <2>1. CASE instances' = instances
    BY <1>1, <1>2, <2>1 DEF Born
  <2>2. ASSUME NEW c \in Callers, Register(c) PROVE instances'[id] \in Used'
    <3>1. NewRecord \in Recs \ Used /\ NewRecord \in Tasks /\ NewRecord # c
      BY <1>1, <2>2, RegisterTyped, TaskAssumption
    <3>2. pc'[NewRecord] = "sleep"
      BY <1>1, <2>2, <3>1, RegisterTyped
    <3>3. NewRecord \in Used'
      BY <3>1, <3>2 DEF Used
    <3>4. instances' = [instances EXCEPT ![on[c]] = NewRecord]
      BY <2>2 DEF Register
    <3>5. instances'[id] = NewRecord \/ instances'[id] = instances[id]
      BY <1>1, <3>4 DEF Typed, TypeOK
    <3> QED
      BY <1>1, <1>2, <3>3, <3>5 DEF Born
  <2>3. ASSUME NEW c \in Callers, Unregister(c) PROVE instances'[id] \in Used'
    <3>1. instances'[id] = instances[id]
      BY <1>1, <1>2, <2>3 DEF Unregister, Typed, TypeOK
    <3> QED
      BY <1>1, <1>2, <3>1 DEF Born
  <2> QED
    BY <2>1, <2>2, <2>3, InstancesStep
<1>3. ASSUME NEW c \in Callers, pc'[c] \in {"stop", "stop_kill", "unregister"} PROVE arc'[c] \in Used'
  <2>1. CASE CallerStep(c)
    BY <1>1, <1>3, <2>1, StopStates DEF Born
  <2>2. CASE Call(c)
    <3>1. c \in DOMAIN pc
      BY <1>1, TaskAssumption DEF PcType
    <3>2. PICK id \in Ids : StopCore(c, id)
      BY <1>3, <2>2, <3>1 DEF Call, StartCore, RestartCore, Healthy, Lookup, Cancel, Goto
    <3>3. arc'[c] = instances[id] /\ instances[id] # 0
      BY <1>1, <3>2 DEF StopCore, Lookup, Typed, TypeOK
    <3> QED
      BY <1>1, <3>3 DEF Born
  <2>3. CASE ~CallerStep(c) /\ ~Call(c)
    BY <1>1, <1>3, <2>3, OthersStay DEF Born
  <2> QED
    BY <2>1, <2>2, <2>3
<1> QED
  BY <1>2, <1>3 DEF Born

\* While the lifecycle lock is free, or held by a stop, no restart has the
\* child of an id in its hands.
LEMMA Untracked ==
  ASSUME Safe, NEW c \in Callers, CleanUp(c) \/ StopKill(c), NEW id, on[c] = id
  PROVE  ~Tracked(id)'
<1>1. Typed /\ Locked /\ c \in Tasks /\ c \notin Recs /\ on[c] \in Ids /\ c \in DOMAIN pc /\ PcType
  BY TaskAssumption DEF Safe, Typed, TypeOK, PcType, Owned
<1>2. UNCHANGED <<on, rec>>
  BY DEF CleanUp, StopKill, supVars
<1>3. \A k \in Tasks \ {c} : pc[k] \notin Killing
  <2>1. lifecycle = {} \/ lifecycle = {c}
    BY DEF CleanUp, StopKill, AdapterTake, AdapterStopKill
  <2> QED
    BY <1>1, <2>1 DEF Locked
<1>4. pc'[c] \notin {"restart_kill", "kill"} /\ \A k \in Tasks \ {c} : pc'[k] = pc[k]
  BY <1>1 DEF CleanUp, StopKill, Goto, PcType
<1>5. entry'[on[c]] = 0
  <2>1. CASE CleanUp(c)
    BY <1>1, <2>1 DEF CleanUp, AdapterTake, adapterVars, Typed, TypeOK, AdapterTypeOK
  <2>2. CASE StopKill(c)
    <3>1. c \in lifecycle /\ entry' = entry
      BY <2>2 DEF StopKill, AdapterStopKill
    <3>2. entry[IdOf(c)] = 0
      BY <1>1, <3>1 DEF Locked
    <3> QED
      BY <3>1, <3>2 DEF IdOf
  <2> QED
    BY <2>1, <2>2
<1>6. \A k \in Tasks : pc'[k] \notin {"restart_kill", "kill"}
  BY <1>3, <1>4 DEF Killing
<1> QED
  BY <1>2, <1>5, <1>6, TaskAssumption DEF Tracked

\* A start that has spawned its child goes on until it registers or cleans up.
LEMMA LaunchGoesOn ==
  ASSUME PcType, NEW c \in Callers, CallerStep(c), pc[c] \in LaunchState, ~Register(c), ~CleanUp(c)
  PROVE  pc'[c] \in LaunchState
<1>1. c \in DOMAIN pc
  BY TaskAssumption DEF PcType
<1>2. \/ ReadyGet(c, "start_wait", "start_probe", "start_retry")
      \/ ReadyCheck(c, "start_probe", "start_retry", "register")
      \/ ReadyAgain(c, "start_retry", "start_wait") \/ Deadline(c)
  BY DEF CallerStep, LaunchState, Unregister, RestartDone, CleanUpKill, HealthyCheck, StartAdapter,
         StopTake, StopKill, RestartTake, RestartKill, HealthyGet, ReadyGet, ReadyCheck, ReadyAgain
<1> QED
  BY <1>1, <1>2 DEF ReadyGet, ReadyCheck, ReadyAgain, Deadline, ReadyDeadline, LaunchState, Goto

\* A start keeps its child covered.
LEMMA LaunchingStep ==
  ASSUME Safe, [Next]_vars, cancels' = 0, NEW id \in Ids, Launching(id), Tracked(id)',
         ~\E c \in Callers : Register(c) /\ on[c] = id
  PROVE  Launching(id)'
<1>1. Typed /\ Room /\ PcType
  BY DEF Safe, Typed
<1>2. PICK c \in Callers : on[c] = id /\ pc[c] \in LaunchState
  BY DEF Launching, LaunchState
<1>3. CASE CallerStep(c)
  <2>1. ~Register(c)
    BY <1>2
  <2>2. ~CleanUp(c)
    BY <1>2, Untracked
  <2>3. pc'[c] \in LaunchState
    BY <1>1, <1>2, <1>3, <2>1, <2>2, LaunchGoesOn
  <2>4. on' = on
    BY <1>3, CallerOperates DEF Register, Unregister, RestartDone, supVars
  <2> QED
    BY <1>2, <2>3, <2>4 DEF Launching, LaunchState
<1>4. CASE Call(c)
  <2>1. Cancel(c)
    BY <1>2, <1>4 DEF Call, StartCore, StopCore, RestartCore, Healthy, Lookup, LaunchState
  <2> QED
    BY <1>1, <2>1, BoundAssumption, SMTT(40) DEF Cancel, Typed, TypeOK
<1>5. CASE ~CallerStep(c) /\ ~Call(c)
  <2>1. pc'[c] = pc[c] /\ on'[c] = on[c]
    BY <1>5, OthersStay
  <2> QED
    BY <1>2, <2>1 DEF Launching, LaunchState
<1> QED
  BY <1>3, <1>4, <1>5

\* A handler's step: a child appears in the map only where a start puts it, or
\* where a restart replaces one.
LEMMA CallerTracks ==
  ASSUME Safe, NEW c \in Callers, CallerStep(c), NEW id \in Ids
  PROVE  /\ entry'[id] # 0 => Tracked(id) \/ (on[c] = id /\ pc'[c] = "start_wait")
         /\ pc'[c] = "restart_kill" /\ on[c] = id => Tracked(id)
<1>1. /\ Typed /\ Room /\ c \in Tasks /\ c \in DOMAIN pc /\ entry \in [Ids -> 0..MaxPids] /\ on[c] \in Ids
  BY TaskAssumption DEF Safe, Typed, TypeOK, AdapterTypeOK, PcType
<1> DEFINE Goal == /\ entry'[id] # 0 => Tracked(id) \/ (on[c] = id /\ pc'[c] = "start_wait")
                   /\ pc'[c] = "restart_kill" /\ on[c] = id => Tracked(id)
<1>2. ASSUME entry'[id] # 0 => entry[id] # 0, pc'[c] # "restart_kill" PROVE Goal
  BY <1>2 DEF Tracked
<1>3. CASE StartAdapter(c)
  <2>1. pc'[c] \in {"start_wait", "idle"} /\ (pc'[c] = "idle" => entry' = entry)
    BY <1>1, <1>3 DEF StartAdapter, AdapterStart, adapterVars, Goto
  <2>2. on[c] # id => entry'[id] = entry[id]
    BY <1>1, <1>3 DEF StartAdapter, AdapterStart, Spawned, adapterVars
  <2> QED
    BY <2>1, <2>2 DEF Tracked
<1>4. CASE RestartTake(c)
  <2>1. entry'[id] # 0 => entry[id] # 0
    BY <1>1, <1>4 DEF RestartTake, AdapterTake, adapterVars
  <2>2. pc'[c] = "restart_kill" => entry[on[c]] # 0
    BY <1>1, <1>4 DEF RestartTake, AdapterTake, Goto
  <2> QED
    BY <2>1, <2>2 DEF Tracked
<1>5. CASE RestartKill(c)
  <2>1. pc[c] = "restart_kill" /\ pc'[c] # "restart_kill"
    BY <1>1, <1>5 DEF RestartKill, Goto
  <2>2. on[c] # id => entry'[id] = entry[id]
    BY <1>1, <1>5 DEF RestartKill, AdapterRestartKill, Spawned
  <2> QED
    BY <2>1, <2>2 DEF Tracked
<1>6. CASE CleanUp(c) \/ StopTake(c)
  BY <1>1, <1>2, <1>6 DEF CleanUp, StopTake, AdapterTake, adapterVars, Goto
<1>7. CASE CleanUpKill(c) \/ StopKill(c)
  BY <1>1, <1>2, <1>7 DEF CleanUpKill, StopKill, AdapterStopKill, Goto
<1>8. CASE \/ ReadyGet(c, "start_wait", "start_probe", "start_retry")
           \/ ReadyGet(c, "restart_wait", "restart_probe", "restart_retry") \/ HealthyGet(c)
  BY <1>1, <1>2, <1>8 DEF ReadyGet, HealthyGet, HealthGet, Goto
<1>9. CASE \/ ReadyCheck(c, "start_probe", "start_retry", "register")
           \/ ReadyCheck(c, "restart_probe", "restart_retry", "restarted") \/ HealthyCheck(c)
  BY <1>1, <1>2, <1>9 DEF ReadyCheck, HealthyCheck, HealthAnswer, Goto
<1>10. CASE \/ ReadyAgain(c, "start_retry", "start_wait") \/ ReadyAgain(c, "restart_retry", "restart_wait")
            \/ Deadline(c) \/ Unregister(c) \/ RestartDone(c)
  BY <1>1, <1>2, <1>10 DEF ReadyAgain, Deadline, ReadyDeadline, Unregister, RestartDone, Goto, adapterVars
<1>11. CASE Register(c)
  <2>1. pc'[c] = "idle" /\ entry' = entry
    BY <1>1, <1>11, RegisterTyped DEF Register, adapterVars
  <2> QED
    BY <1>2, <2>1
<1> QED
  BY <1>3, <1>4, <1>5, <1>6, <1>7, <1>8, <1>9, <1>10, <1>11 DEF CallerStep

\* A watcher's step: it only replaces a child it has taken out of the map.
LEMMA WatcherTracks ==
  ASSUME Safe, NEW r \in Recs, WatcherStep(r), NEW id \in Ids
  PROVE  /\ entry'[id] # 0 => Tracked(id)
         /\ pc'[r] = "kill" /\ rec[r].id = id => Tracked(id)
<1>1. /\ Typed /\ r \in Tasks /\ r \in DOMAIN pc /\ entry \in [Ids -> 0..MaxPids]
  BY TaskAssumption DEF Safe, Typed, TypeOK, AdapterTypeOK, PcType
<1>2. CASE WatchTake(r)
  <2>1. entry'[id] # 0 => entry[id] # 0
    BY <1>1, <1>2 DEF WatchTake, AdapterTake, adapterVars
  <2>2. pc'[r] = "kill" => entry[rec[r].id] # 0
    BY <1>1, <1>2 DEF WatchTake, AdapterTake, Goto
  <2> QED
    BY <2>1, <2>2 DEF Tracked
<1>3. CASE WatchKill(r)
  <2>1. pc[r] = "kill" /\ pc'[r] = "count"
    BY <1>1, <1>3 DEF WatchKill, Goto
  <2>2. rec[r].id # id => entry'[id] = entry[id]
    BY <1>1, <1>3 DEF WatchKill, AdapterRestartKill, Spawned
  <2> QED
    BY <2>1, <2>2 DEF Tracked
<1>4. CASE WatchGet(r)
  BY <1>1, <1>4 DEF WatchGet, HealthGet, Goto, Tracked
<1>5. CASE WatchCheck(r)
  BY <1>1, <1>5 DEF WatchCheck, HealthAnswer, Goto, Tracked
<1>6. CASE WatchBudget(r) \/ WatchCount(r)
  BY <1>1, <1>6 DEF WatchBudget, WatchCount, Goto, adapterVars, Tracked
<1> QED
  BY <1>2, <1>3, <1>4, <1>5, <1>6 DEF WatcherStep

\* The only step that makes a child of an id appear is that of a start.
LEMMA TrackedStep ==
  ASSUME Safe, [Next]_vars, NEW id \in Ids, ~Tracked(id), Tracked(id)'
  PROVE  Launching(id)'
<1>1. Typed /\ Room /\ PcType /\ rec \in [Recs -> Record] /\ Callers \subseteq Tasks /\ Recs \subseteq Tasks
  BY TaskAssumption DEF Safe, Typed, TypeOK, Record
<1>2. ASSUME entry' = entry, \A c \in Callers : pc'[c] = "restart_kill" => pc[c] = "restart_kill" /\ on'[c] = on[c],
             \A r \in Recs : pc'[r] = "kill" => pc[r] = "kill" /\ rec'[r].id = rec[r].id
      PROVE  FALSE
  BY <1>2 DEF Tracked
<1>3. CASE UNCHANGED vars
  BY <1>2, <1>3 DEF vars, supVars, adapterVars
<1>4. CASE \E c \in Callers : Call(c)
  <2>1. PICK c \in Callers : Call(c)
    BY <1>4
  <2>2. PICK v \in {"start", "stop", "restart", "healthy", "idle"} : Goto(c, v)
    BY <2>1 DEF Call, StartCore, StopCore, RestartCore, Healthy, Lookup, Cancel
  <2>3. UNCHANGED <<entry, rec>>
    BY <2>1 DEF Call, StartCore, StopCore, RestartCore, Healthy, Lookup, Cancel,
       AdapterCancel, adapterVars
  <2>4. \A d \in Callers : d # c => on'[d] = on[d]
    BY <1>1, <2>1 DEF Call, StartCore, StopCore, RestartCore, Healthy, Lookup, Cancel, Typed, TypeOK
  <2>5. Moves(c, v)
    BY <1>1, <2>2, GotoMoves
  <2>6. \A d \in Callers : pc'[d] = "restart_kill" => pc[d] = "restart_kill" /\ on'[d] = on[d]
    BY <1>1, <2>4, <2>5 DEF Moves
  <2>7. \A r \in Recs : pc'[r] = "kill" => pc[r] = "kill" /\ rec'[r].id = rec[r].id
    BY <1>1, <2>3, <2>5, TaskAssumption DEF Moves
  <2> QED
    BY <1>2, <2>3, <2>6, <2>7
<1>5. ASSUME NEW c \in Callers, CallerStep(c), ~Register(c) PROVE Launching(id)'
  <2>1. PICK v : Goto(c, v)
    BY <1>1, <1>5, CallerStarts
  <2>2. Moves(c, v) /\ c \in Tasks /\ c \notin Recs
    BY <1>1, <2>1, GotoMoves, TaskAssumption
  <2>3. on' = on /\ (rec' = rec \/ \E n : rec' = Restarted(n))
    BY <1>5, CallerOperates DEF Unregister, RestartDone, supVars
  <2>4. \A r \in Recs : rec'[r].id = rec[r].id
    BY <1>1, <2>3, RestartedTyped, SMTT(40)
  <2>5. /\ entry'[id] # 0 => on[c] = id /\ pc'[c] = "start_wait"
        /\ pc'[c] = "restart_kill" => on[c] # id
    BY <1>5, CallerTracks
  <2>6. entry'[id] # 0
    <3>1. \A d \in Callers : ~(pc'[d] = "restart_kill" /\ on'[d] = id)
      BY <1>1, <2>2, <2>3, <2>5 DEF Moves, Tracked
    <3>2. \A r \in Recs : ~(pc'[r] = "kill" /\ rec'[r].id = id)
      BY <1>1, <2>2, <2>4 DEF Moves, Tracked
    <3> QED
      BY <3>1, <3>2 DEF Tracked
  <2> QED
    BY <2>3, <2>5, <2>6 DEF Launching
<1>6. ASSUME NEW c \in Callers, Register(c) PROVE FALSE
  <2>1. /\ NewRecord \in Recs \ Used
        /\ \A k \in Tasks : pc'[k] = IF k = c THEN "idle" ELSE IF k = NewRecord THEN "sleep" ELSE pc[k]
    BY <1>1, <1>6, RegisterTyped
  <2>2. entry' = entry /\ on' = on /\ \A r \in Recs : r # NewRecord => rec'[r] = rec[r]
    BY <1>1, <1>6 DEF Register, adapterVars
  <2>3. \A d \in Callers : pc'[d] = "restart_kill" => pc[d] = "restart_kill"
    BY <1>1, <2>1
  <2>4. \A r \in Recs : pc'[r] = "kill" => pc[r] = "kill" /\ r # NewRecord
    BY <1>1, <2>1, <1>6, TaskAssumption
  <2> QED
    BY <1>2, <2>2, <2>3, <2>4
<1>7. ASSUME NEW r \in Recs, WatcherStep(r) PROVE FALSE
  <2>1. PICK v : Goto(r, v)
    BY <1>1, <1>7, WatcherOperates
  <2>2. on' = on /\ (rec' = rec \/ rec' = Restarted(r))
    BY <1>1, <1>7, WatcherOperates
  <2>3. Moves(r, v) /\ r \notin Callers
    BY <1>1, <2>1, GotoMoves, TaskAssumption
  <2>4. \A q \in Recs : rec'[q].id = rec[q].id
    BY <1>1, <2>2, RestartedTyped, SMTT(40)
  <2>5. entry'[id] = 0 /\ (pc'[r] = "kill" => rec[r].id # id)
    BY <1>7, WatcherTracks
  <2>6. \A d \in Callers : ~(pc'[d] = "restart_kill" /\ on'[d] = id)
    BY <1>1, <2>2, <2>3 DEF Moves, Tracked
  <2>7. \A q \in Recs : ~(pc'[q] = "kill" /\ rec'[q].id = id)
    BY <1>1, <2>3, <2>4, <2>5 DEF Moves, Tracked
  <2> QED
    BY <2>5, <2>6, <2>7 DEF Tracked
<1>8. CASE \/ \E r \in Recs : Age(r)
           \/ \E i \in Ids : HotSwap(i) \/ \E v \in 1..MaxRevision : ApplyPolicy(i, v)
  <2>1. UNCHANGED <<entry, pc, on>>
    BY <1>8 DEF Age, HotSwap, ApplyPolicy, adapterVars
  <2> DEFINE Fresh(q, b) == [rec EXCEPT ![q].fresh = b]
             Revised(q, v) == [rec EXCEPT ![q].revision = v]
  <2>2. \A q, b : \A r \in Recs : Fresh(q, b)[r].id = rec[r].id /\ Revised(q, b)[r].id = rec[r].id
    BY <1>1 DEF Record
  <2>3. \E q, b : rec' = Fresh(q, b) \/ rec' = Revised(q, b)
    BY <1>8 DEF Age, HotSwap, ApplyPolicy
  <2> HIDE DEF Fresh, Revised
  <2>4. \A r \in Recs : rec'[r].id = rec[r].id
    BY <2>2, <2>3, SMTT(40)
  <2> QED
    BY <1>2, <2>1, <2>4
<1>9. CASE (\E k \in Tasks : ProbeWait(k)) \/ (\E p \in Pids : ChildStep(p))
  BY <1>2, <1>9 DEF ProbeWait, ChildStep, supVars, HealthWait, Listen, Exit
<1> QED
  BY <1>3, <1>4, <1>5, <1>6, <1>7, <1>8, <1>9 DEF Next

\* A covered child stays covered until a start registers it.
LEMMA CoveredStep ==
  ASSUME Safe, [Next]_vars, cancels' = 0, NEW id \in Ids, Covered(id),
         ~\E c \in Callers : Register(c) /\ on[c] = id
  PROVE  Covered(id)'
<1> SUFFICES ASSUME Tracked(id)' PROVE Launching(id)'
  BY DEF Covered
<1>1. CASE Tracked(id)
  <2>1. Launching(id)
    BY <1>1 DEF Covered
  <2> QED
    BY <2>1, LaunchingStep
<1>2. CASE ~Tracked(id)
  BY <1>2, TrackedStep
<1> QED
  BY <1>1, <1>2

\* A stop that is about to remove its own record leaves nothing behind.
LEMMA RemovableNext ==
  ASSUME Safe, Born, Removable, [Next]_vars
  PROVE  Removable'
<1> SUFFICES ASSUME cancels' = 0, NEW c \in Callers, pc'[c] = "unregister", instances'[on'[c]] = arc'[c],
                    NEW id \in Ids, id = on'[c]
             PROVE  Covered(id)'
  <2>1. Typed'
    BY SafeNext DEF Safe
  <2>2. \A d \in Callers : on'[d] \in Ids
    BY <2>1 DEF Typed, TypeOK
  <2> QED
    BY <2>2 DEF Removable
<1>0. 0 \notin Recs
  BY BoundAssumption, SMTT(40) DEF Recs
<1>1. /\ Typed /\ Room /\ PcType /\ c \in Tasks /\ c \notin Recs /\ c \in DOMAIN pc
      /\ on \in [Callers -> Ids] /\ instances \in [Ids -> 0..MaxRecords] /\ 0 \notin Recs
  BY <1>0, TaskAssumption DEF Safe, Typed, TypeOK, PcType
<1>2. CASE CallerStep(c)
  <2>1. StopKill(c) /\ on' = on
    BY <1>1, <1>2, StopStates
  <2>2. ~Tracked(id)'
    BY <2>1, Untracked
  <2> QED
    BY <2>2 DEF Covered
<1>3. CASE Call(c)
  BY <1>1, <1>3 DEF Call, StartCore, StopCore, RestartCore, Healthy, Lookup, Cancel, Goto
<1>4. CASE ~CallerStep(c) /\ ~Call(c)
  <2>1. pc[c] = "unregister" /\ on[c] = id /\ arc'[c] = arc[c]
    BY <1>4, OthersStay
  <2>2. arc[c] \in Used /\ arc[c] # 0
    BY <1>1, <2>1 DEF Born, Used
  <2>3. ~\E d \in Callers : Register(d) /\ on[d] = id
    <3> SUFFICES ASSUME NEW d \in Callers, Register(d), on[d] = id PROVE FALSE
      OBVIOUS
    <3>1. instances'[id] = NewRecord
      BY <1>1 DEF Register
    <3>2. NewRecord \notin Used
      BY <1>1, RegisterTyped
    <3> QED
      BY <2>1, <2>2, <3>1, <3>2
  <2>4. instances'[id] = instances[id]
    <3>1. CASE instances' = instances
      BY <3>1
    <3>2. ASSUME NEW d \in Callers, Register(d) PROVE instances'[id] = instances[id]
      BY <1>1, <2>3, <3>2 DEF Register
    <3>3. ASSUME NEW d \in Callers, Unregister(d) PROVE instances'[id] = instances[id]
      BY <1>1, <2>1, <2>2, <3>3 DEF Unregister
    <3> QED
      BY <3>1, <3>2, <3>3, InstancesStep
  <2>5. cancels = 0
    <3>1. cancels' = cancels \/ cancels' = cancels + 1
      <4>1. CASE \E d \in Callers : CallerStep(d)
        BY <4>1, CallerOperates DEF Register, Unregister, RestartDone, supVars
      <4>2. CASE \E d \in Callers : Call(d)
        BY <4>2 DEF Call, StartCore, StopCore, RestartCore, Healthy, Lookup, Cancel
      <4>3. CASE \E r \in Recs : WatcherStep(r)
        BY <1>1, <4>3, WatcherOperates
      <4>4. CASE \/ \E r \in Recs : Age(r)
                 \/ \E i \in Ids : HotSwap(i) \/ \E v \in 1..MaxRevision : ApplyPolicy(i, v)
        BY <4>4 DEF Age, HotSwap, ApplyPolicy
      <4>5. CASE (\E k \in Tasks : ProbeWait(k)) \/ (\E p \in Pids : ChildStep(p)) \/ UNCHANGED vars
        BY <4>5 DEF ProbeWait, ChildStep, supVars, vars
      <4> QED
        BY <4>1, <4>2, <4>3, <4>4, <4>5 DEF Next
    <3>2. cancels \in Nat
      BY <1>1, BoundAssumption, SMTT(40) DEF Typed, TypeOK
    <3> QED
      BY <3>1, <3>2, SMTT(40)
  <2>6. Covered(on[c])
    BY <2>1, <2>4, <2>5 DEF Removable
  <2>7. Covered(id)
    BY <2>1, <2>6
  <2> QED
    BY <2>3, <2>7, CoveredStep
<1> QED
  BY <1>2, <1>3, <1>4

\* Nothing runs that no RPC can reach (supervisor.rs 66-132), however starts,
\* stops, restarts, probes and watchers of any number of ids interleave: as long
\* as no handler is dropped, the one step that leaves a child without a record is
\* that of a stop which removes a record registered since its own lookup.
THEOREM ChildrenStayReachable == Spec => StaysReachable
<1>1. Init => Born /\ Removable
  <2> SUFFICES ASSUME Init PROVE Born /\ Removable
    OBVIOUS
  <2>1. \A id \in Ids : instances[id] = 0
    BY DEF Init
  <2>2. \A c \in Callers : pc[c] = "idle"
    BY TaskAssumption DEF Init
  <2> QED
    BY <2>1, <2>2 DEF Born, Removable
<1>2. Safe /\ Born /\ Removable /\ [Next]_vars => Born' /\ Removable'
  BY BornNext, RemovableNext
<1>3. Safe /\ Born /\ Removable /\ [Next]_vars =>
        [\A id \in Ids :
           Reachable(id) /\ cancels' = 0 =>
             \/ Reachable(id)'
             \/ \E c \in Callers : pc[c] = "unregister" /\ on[c] = id /\ instances[id] # arc[c]]_vars
  <2> SUFFICES ASSUME Safe, Born, Removable, [Next]_vars, NEW id \in Ids, Reachable(id), cancels' = 0,
                      ~\E c \in Callers : pc[c] = "unregister" /\ on[c] = id /\ instances[id] # arc[c],
                      instances'[id] = 0
               PROVE  Covered(id)'
    BY DEF Reachable, Covered
  <2>1. Typed /\ Room /\ instances \in [Ids -> 0..MaxRecords] /\ 0 \notin Recs
    BY BoundAssumption, SMTT(40) DEF Safe, Typed, TypeOK, Recs
  <2>2. ~\E c \in Callers : Register(c) /\ on[c] = id
    <3> SUFFICES ASSUME NEW c \in Callers, Register(c), on[c] = id PROVE FALSE
      OBVIOUS
    <3>1. NewRecord \in Recs
      BY <2>1, RegisterTyped
    <3>2. instances'[id] = NewRecord
      BY <2>1 DEF Register
    <3> QED
      BY <2>1, <3>1, <3>2
  <2>3. CASE Covered(id)
    BY <2>2, <2>3, CoveredStep
  <2>4. CASE ~Covered(id)
    <3>1. instances[id] # 0
      BY <2>4 DEF Reachable, Covered
    <3>2. PICK c \in Callers : Unregister(c) /\ on[c] = id
      BY <2>1, <2>2, <3>1, InstancesStep DEF Register, Unregister
    <3>3. pc[c] = "unregister" /\ instances[on[c]] = arc[c] /\ cancels = 0
      BY <3>2 DEF Unregister
    <3>4. Covered(on[c])
      BY <3>3 DEF Removable
    <3> QED
      BY <2>4, <3>2, <3>4
  <2> QED
    BY <2>3, <2>4
<1> QED
  BY <1>1, <1>2, <1>3, SafeAlways, PTL DEF Spec, StaysReachable
================================================================================
