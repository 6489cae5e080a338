------------------------- MODULE StoreAndForwardProofs -------------------------
(***************************************************************************)
(* Proofs about StoreAndForward, for every number of threads, payloads,    *)
(* limits, faults and crashes: types, limits and counters, what a flush    *)
(* settles, and the spool file, which opens and holds what is pending.     *)
(* Leaves are proved by Zenon; SMTT marks those that need arithmetic or    *)
(* sequences.                                                              *)
(***************************************************************************)
EXTENDS StoreAndForward, SequenceProofs

USE ZenonT(40)

(***************************************************************************)
(* Sequences of items                                                      *)
(***************************************************************************)
\* Dropping the item that could not be sealed leaves a sequence of items.
LEMMA WithoutType ==
  ASSUME NEW S, NEW s \in Seq(S), NEW i \in DOMAIN s
  PROVE  Without(s, i) \in Seq(S)
<1>1. Len(s) \in Nat /\ DOMAIN s = 1..Len(s) /\ Len(s) >= 1
  BY SMTT(40)
<1>2. \A j \in 1..(Len(s) - 1) : (IF j < i THEN s[j] ELSE s[j + 1]) \in S
  BY <1>1, SMTT(40)
<1>3. Len(s) - 1 \in Nat
  BY <1>1, SMTT(40)
<1> QED
  BY <1>2, <1>3, IsASeq, SMTT(40) DEF Without

\* So does cutting off the last one.
LEMMA FrontType ==
  ASSUME NEW S, NEW s \in Seq(S)
  PROVE  Front(s) \in Seq(S)
<1>1. CASE s = <<>>
  BY <1>1, SMTT(40) DEF Front
<1>2. CASE s # <<>>
  BY <1>2, SMTT(40) DEF Front
<1> QED
  BY <1>1, <1>2

\* Writing a line, whole or in part, leaves a spool file.
LEMMA LineType ==
  ASSUME NEW d \in SpoolFile, NEW it \in QueuedItem
  PROVE  WholeLine(d, it) \in SpoolFile /\ PartLine(d, it) \in SUBSET SpoolFile
<1>1. Front(d.lines) \in Seq(QueuedItem) /\ Append(d.lines, it) \in Seq(QueuedItem)
  BY FrontType, SMTT(40) DEF SpoolFile
<1> QED
  BY <1>1 DEF WholeLine, PartLine, SpoolFile

\* So does a rewrite.
LEMMA RewriteType ==
  ASSUME NEW s \in Seq(QueuedItem)
  PROVE  Rewritten(s) \in SpoolFile
BY DEF Rewritten, SpoolFile
--------------------------------------------------------------------------------
(***************************************************************************)
(* Type correctness.  An item is taken out of held[t] by a call that has   *)
(* left "idle" for room, append or compact: the call then holds exactly    *)
(* one item.                                                               *)
(***************************************************************************)
HoldsOne == \A t \in Threads : pc[t] \in {"room", "append", "compact"} => Len(held[t]) = 1
Typed == TypeOK /\ HoldsOne

\* The item a call of try_enqueue works on is an item.
LEMMA HeldItem ==
  ASSUME Typed, NEW t \in Threads, pc[t] \in {"room", "append", "compact"}
  PROVE  held[t][1] \in QueuedItem
BY SMTT(40) DEF Typed, TypeOK, HoldsOne

\* What rewrite_spool iterates over is a sequence of items.
LEMMA PendingType ==
  ASSUME TypeOK
  PROVE  Pending \in Seq(QueuedItem)
BY SMTT(40) DEF TypeOK, Pending

Counter == {"enqueued", "flushed", "rejected", "evicted", "recovered", "persist_errors"}

\* Counting keeps the counters of QueueStats natural numbers.
LEMMA StatsType ==
  ASSUME NEW s \in Stats
  PROVE  /\ \A f \in Counter : Bump(s, f) \in Stats
         /\ \A n \in Nat : [s EXCEPT !.flushed = @ + n] \in Stats
<1>1. ASSUME NEW f \in Counter PROVE Bump(s, f) \in Stats
  BY SMTT(40) DEF Stats, Bump, Counter
<1>2. ASSUME NEW n \in Nat PROVE [s EXCEPT !.flushed = @ + n] \in Stats
  BY SMTT(40) DEF Stats
<1> QED
  BY <1>1, <1>2

\* The same for the current counters, one by one.
LEMMA BumpType ==
  ASSUME TypeOK
  PROVE  /\ Bump(stats, "enqueued") \in Stats /\ Bump(stats, "rejected") \in Stats
         /\ Bump(stats, "evicted") \in Stats /\ Bump(stats, "recovered") \in Stats
         /\ Bump(stats, "persist_errors") \in Stats
<1>1. stats \in Stats
  BY DEF TypeOK
<1> QED
  BY <1>1, StatsType DEF Counter

\* Items carry payloads.
LEMMA DataType ==
  ASSUME NEW s \in Seq(QueuedItem)
  PROVE  Data(s) \subseteq Payloads
<1>1. \A i \in DOMAIN s : s[i] \in QueuedItem
  BY SMTT(40)
<1>2. \A i \in DOMAIN s : s[i].data \in Payloads
  BY <1>1 DEF QueuedItem
<1> QED
  BY <1>2 DEF Data

\* rewrite_spool leaves a spool file and counters, whatever its outcome.
LEMMA RewriteSpoolType ==
  ASSUME TypeOK, NEW replaced \in BOOLEAN, RewriteSpool(replaced)
  PROVE  disk' \in SpoolFile /\ stats' \in Stats /\ faults' \in Nat
<1>1. Pending \in Seq(QueuedItem)
  BY PendingType
<1>2. Rewritten(Pending) \in SpoolFile
  BY <1>1, RewriteType
<1>3. \A i \in DOMAIN Pending : Rewritten(Without(Pending, i)) \in SpoolFile
  BY <1>1, RewriteType, WithoutType
<1>4. Bump(stats, "persist_errors") \in Stats
  BY BumpType
<1>5. disk \in SpoolFile /\ stats \in Stats /\ faults \in Nat /\ faults + 1 \in Nat
  BY SMTT(40) DEF TypeOK
<1> QED
  BY <1>2, <1>3, <1>4, <1>5 DEF RewriteSpool

\* A call that returns leaves well-typed call states.
LEMMA ReturnType ==
  ASSUME Typed, NEW t \in Threads, Return(t)
  PROVE  /\ pc' \in [Threads -> CallState] /\ held' \in [Threads -> Seq(QueuedItem)]
         /\ compact_needed' \in [Threads -> BOOLEAN] /\ HoldsOne'
BY SMTT(40) DEF Typed, TypeOK, HoldsOne, Return, CallState

\* A fresh queue (with_limits) is well typed.
LEMMA TypedInit == Init => Typed
BY SMTT(40) DEF Init, Typed, TypeOK, HoldsOne, ZeroStats, Stats, NoFile, SpoolFile, Boot, CallState

\* Every step of every call, crash and recovery keeps the types.
LEMMA TypedNext == Typed /\ [Next]_vars => Typed'
<1> SUFFICES ASSUME Typed, [Next]_vars PROVE Typed'
  OBVIOUS
<1> USE SizeAssumption, LimitAssumption
<1>t. TypeOK /\ HoldsOne
  BY DEF Typed
<1>1. ASSUME NEW t \in Threads, NEW p \in Payloads, RejectTooLarge(t, p) PROVE Typed'
  BY <1>1, <1>t, BumpType
  DEF RejectTooLarge, Typed, TypeOK, HoldsOne, inner, calls, bounds
<1>2. ASSUME NEW t \in Threads, NEW p \in Payloads, NEW priority \in Priority,
             EnqueueLock(t, p, priority)
      PROVE Typed'
  <2>1. [id |-> 0, priority |-> priority, data |-> p] \in QueuedItem
    BY DEF QueuedItem
  <2> QED
    BY <1>2, <1>t, <2>1, SMTT(40)
    DEF EnqueueLock, Typed, TypeOK, HoldsOne, CallState, inner, calls, bounds
<1>3. ASSUME NEW t \in Threads, EvictBulk(t) PROVE Typed'
  <2>1. Head(bulk) \in QueuedItem /\ Tail(bulk) \in Seq(QueuedItem)
    BY <1>3, <1>t, SMTT(40) DEF EvictBulk, TypeOK
  <2>2. Size[Head(bulk).data] \in Nat /\ Head(bulk).data \in Payloads
    BY <2>1 DEF QueuedItem
  <2>3. pending_bytes' \in Nat
    BY <1>3, <1>t, <2>2, SMTT(40) DEF EvictBulk, SaturatingSub, TypeOK
  <2> QED
    BY <1>3, <1>t, <2>1, <2>2, <2>3, BumpType
    DEF EvictBulk, Typed, TypeOK, HoldsOne, bounds
<1>4. ASSUME NEW t \in Threads, RejectFull(t) PROVE Typed'
  BY <1>4, <1>t, BumpType, ReturnType
  DEF RejectFull, Typed, TypeOK, inner, bounds, history
<1>5. ASSUME NEW t \in Threads, Push(t) PROVE Typed'
  <2> DEFINE item == [held[t][1] EXCEPT !.id = next_id]
  <2>1. item \in QueuedItem /\ Size[item.data] \in Nat
    BY <1>5, <1>t, HeldItem DEF Push, Typed, TypeOK, QueuedItem
  <2>2. control' \in Seq(QueuedItem) /\ bulk' \in Seq(QueuedItem)
    <3>1. \/ control' = Append(control, item) /\ UNCHANGED bulk
          \/ bulk' = Append(bulk, item) /\ UNCHANGED control
      BY <1>5 DEF Push
    <3>2. control \in Seq(QueuedItem) /\ bulk \in Seq(QueuedItem)
      BY <1>t DEF TypeOK
    <3>3. Append(control, item) \in Seq(QueuedItem) /\ Append(bulk, item) \in Seq(QueuedItem)
      BY <3>2, <2>1, SMTT(40)
    <3> HIDE DEF item
    <3> QED
      BY <3>1, <3>2, <3>3
  <2>3. <<item>> \in Seq(QueuedItem) /\ Len(<<item>>) = 1
    BY <2>1, SMTT(40)
  <2>4. held' = [held EXCEPT ![t] = <<item>>]
    BY <1>5 DEF Push
  <2>5. pending_bytes' = pending_bytes + Size[item.data] /\ next_id' = next_id + 1
    BY <1>5 DEF Push
  <2> HIDE DEF item
  <2>6. held' \in [Threads -> Seq(QueuedItem)] /\ HoldsOne'
    <3>1. /\ held \in [Threads -> Seq(QueuedItem)]
          /\ pc \in [Threads -> CallState] /\ HoldsOne
      BY <1>t DEF TypeOK
    <3>2. pc' = [pc EXCEPT ![t] = IF compact_needed[t] THEN "compact" ELSE "append"]
      BY <1>5 DEF Push
    <3> QED
      BY <3>1, <3>2, <2>3, <2>4 DEF HoldsOne
  <2> QED
    <3>1. next_id' \in Nat /\ pending_bytes' \in Nat
      BY <1>t, <2>1, <2>5, SMTT(40) DEF TypeOK
    <3>2. pc' \in [Threads -> CallState] /\ stats' \in Stats
      BY <1>5, <1>t, BumpType DEF Push, TypeOK, CallState
    <3>3. UNCHANGED <<boot, disk, recovered, compact_needed, bounds, history>>
      BY <1>5 DEF Push
    <3> QED
      BY <1>t, <2>2, <2>6, <3>1, <3>2, <3>3 DEF Typed, TypeOK, bounds, history
<1>6. ASSUME NEW t \in Threads, AppendSpool(t) PROVE Typed'
  <2>1. held[t][1] \in QueuedItem
    BY <1>6, <1>t, HeldItem DEF AppendSpool, Typed
  <2>2. \A i \in DOMAIN Pending : /\ Pending[i] \in QueuedItem
                                  /\ WholeLine(disk, Pending[i]) \in SpoolFile
                                  /\ PartLine(disk, Pending[i]) \in SUBSET SpoolFile
    BY <1>t, PendingType, LineType, SMTT(40) DEF TypeOK
  <2>3. disk' \in SpoolFile /\ stats' \in Stats /\ faults' \in Nat
    <3>1. disk \in SpoolFile /\ stats \in Stats /\ faults \in Nat
      BY <1>t DEF TypeOK
    <3> QED
      BY <1>6, <1>t, <2>2, <3>1, BumpType, SMTT(40) DEF AppendSpool
  <2> QED
    BY <1>6, <1>t, <2>1, <2>3, ReturnType DEF AppendSpool, Typed, TypeOK, inner
<1>7. ASSUME NEW t \in Threads, CompactSpool(t) PROVE Typed'
  <2>1. held[t][1] \in QueuedItem
    BY <1>7, <1>t, HeldItem DEF CompactSpool, Typed
  <2>2. disk' \in SpoolFile /\ stats' \in Stats /\ faults' \in Nat
    BY <1>7, <1>t, RewriteSpoolType DEF CompactSpool
  <2> QED
    BY <1>7, <1>t, <2>1, <2>2, ReturnType DEF CompactSpool, Typed, TypeOK, inner
<1>8. ASSUME NEW t \in Threads, FlushDrain(t) PROVE Typed'
  <2>1. Pending \in Seq(QueuedItem) /\ pending_items \in Nat
    BY <1>t, PendingType, SMTT(40) DEF TypeOK, pending_items
  <2>2. stats' \in Stats
    BY <1>8, <1>t, <2>1, StatsType DEF FlushDrain, TypeOK
  <2> QED
    BY <1>8, <1>t, <2>1, <2>2, SMTT(40) DEF FlushDrain, Typed, TypeOK, HoldsOne, CallState, bounds, history
<1>9. ASSUME NEW t \in Threads, FlushTruncate(t) PROVE Typed'
  <2>1. disk' \in SpoolFile /\ stats' \in Stats /\ faults' \in Nat
    BY <1>9, <1>t, RewriteSpoolType DEF FlushTruncate
  <2>2. Data(held[t]) \in SUBSET Payloads
    <3>1. held[t] \in Seq(QueuedItem)
      BY <1>t DEF TypeOK
    <3> QED
      BY <3>1, DataType
  <2> QED
    BY <1>9, <1>t, <2>1, <2>2, ReturnType DEF FlushTruncate, Typed, TypeOK, inner
<1>10. ASSUME NEW t \in Threads, Persist(t) PROVE Typed'
  <2>1. disk' \in SpoolFile /\ stats' \in Stats /\ faults' \in Nat
    BY <1>10, <1>t, RewriteSpoolType DEF Persist
  <2> QED
    BY <1>10, <1>t, <2>1 DEF Persist, Typed, TypeOK, HoldsOne, inner, calls, history
<1>11. CASE Crash
  <2>1. disk' \in SpoolFile
    BY <1>11, <1>t, PendingType, LineType, SMTT(40) DEF Crash, TypeOK
  <2> QED
    BY <1>11, <1>t, <2>1, SMTT(40) DEF Crash, EmptyInner, Typed, TypeOK, HoldsOne, Boot, CallState, history
<1>12. CASE Open
  BY <1>12, <1>t
  DEF Open, Typed, TypeOK, HoldsOne, Boot, SpoolFile, ZeroStats, Stats, inner, calls, bounds, history
<1>13. CASE OpenFails
  BY <1>13, <1>t, SMTT(40)
  DEF OpenFails, Typed, TypeOK, HoldsOne, Boot, ZeroStats, Stats, inner, calls, history
<1>14. CASE RecoverItem
  <2> DEFINE item == Head(recovered)
  <2>1. item \in QueuedItem /\ Tail(recovered) \in Seq(QueuedItem)
    BY <1>14, <1>t, SMTT(40) DEF RecoverItem, TypeOK
  <2>2. item.id \in Nat /\ Size[item.data] \in Nat
    BY <2>1 DEF QueuedItem
  <2>a. /\ control \in Seq(QueuedItem) /\ bulk \in Seq(QueuedItem)
        /\ next_id \in Nat /\ pending_bytes \in Nat
    BY <1>t DEF TypeOK
  <2>b. \/ UNCHANGED inner
        \/ /\ next_id' \in {next_id, item.id + 1}
           /\ pending_bytes' = pending_bytes + Size[item.data]
           /\ \/ control' = Append(control, item) /\ UNCHANGED bulk
              \/ bulk' = Append(bulk, item) /\ UNCHANGED control
    BY <1>14 DEF RecoverItem
  <2>c. Append(control, item) \in Seq(QueuedItem) /\ Append(bulk, item) \in Seq(QueuedItem)
    BY <2>a, <2>1, SMTT(40)
  <2> HIDE DEF item
  <2>3. control' \in Seq(QueuedItem) /\ bulk' \in Seq(QueuedItem)
        /\ next_id' \in Nat /\ pending_bytes' \in Nat
    <3>1. CASE UNCHANGED inner
      BY <3>1, <2>a DEF inner
    <3>2. CASE ~UNCHANGED inner
      <4>1. item.id + 1 \in Nat /\ pending_bytes + Size[item.data] \in Nat
        BY <2>2, <2>a, SMTT(40)
      <4> QED
        BY <3>2, <2>a, <2>b, <2>c, <4>1
    <3> QED
      BY <3>1, <3>2
  <2> USE DEF item
  <2>4. stats' \in Stats
    BY <1>14, <1>t, BumpType DEF RecoverItem
  <2> QED
    BY <1>14, <1>t, <2>1, <2>3, <2>4
    DEF RecoverItem, Typed, TypeOK, HoldsOne, calls, bounds, history
<1>15. CASE RecoverDone
  <2>1. disk' \in SpoolFile /\ stats' \in Stats /\ faults' \in Nat
    BY <1>15, <1>t, RewriteSpoolType DEF RecoverDone
  <2> QED
    BY <1>15, <1>t, <2>1 DEF RecoverDone, Typed, TypeOK, HoldsOne, Boot, inner, calls, history
<1>16. CASE UNCHANGED vars
  BY <1>16, <1>t DEF vars, inner, calls, bounds, history, Typed, TypeOK, HoldsOne
<1> QED
  BY <1>1, <1>2, <1>3, <1>4, <1>5, <1>6, <1>7, <1>8, <1>9, <1>10, <1>11, <1>12, <1>13,
     <1>14, <1>15, <1>16 DEF Next, ThreadStep

\* The types of the queue, its file and its calls are kept by every step of the
\* code, under any interleaving, fault and crash.
THEOREM TypeCorrect == Spec => []TypeOK
<1>1. Spec => []Typed
  BY TypedInit, TypedNext, PTL DEF Spec
<1> QED
  BY <1>1, PTL DEF Typed
--------------------------------------------------------------------------------
(***************************************************************************)
(* Limits and counters.  A queue that is down holds nothing, so that open  *)
(* starts both from zero, no call is in progress then, and at most one     *)
(* call is in the critical section of try_enqueue.                         *)
(***************************************************************************)
Asleep ==
  /\ ~Running => \A t \in Threads : pc[t] = "idle"
  /\ \A t, u \in Threads : pc[t] = "room" /\ pc[u] = "room" => t = u
DownEmpty == boot = "down" => control = <<>> /\ bulk = <<>> /\ pending_bytes = 0
Sized == Bounded /\ Accounting /\ DownEmpty

\* rewrite_spool counts at most a persist error.
LEMMA RewriteSpoolCounts ==
  ASSUME TypeOK, NEW replaced \in BOOLEAN, RewriteSpool(replaced)
  PROVE  /\ stats'.enqueued = stats.enqueued /\ stats'.recovered = stats.recovered
         /\ stats'.flushed = stats.flushed /\ stats'.evicted = stats.evicted
<1>1. stats' = stats \/ stats' = Bump(stats, "persist_errors")
  BY DEF RewriteSpool
<1>2. stats \in Stats
  BY DEF TypeOK
<1> QED
  BY <1>1, <1>2 DEF Bump, Stats

\* No call is in progress at first.
LEMMA AsleepInit == Init => Asleep
BY DEF Init, Asleep

\* The mutex lets one call at a time into the loop that makes room, and a
\* crash ends all calls.
LEMMA AsleepNext == Typed /\ Asleep /\ [Next]_vars => Asleep'
<1> SUFFICES ASSUME Typed, Asleep, [Next]_vars PROVE Asleep'
  OBVIOUS
<1> USE DEF Asleep, Running
<1>t. pc \in [Threads -> CallState]
  BY DEF Typed, TypeOK
<1>1. ASSUME NEW t \in Threads, NEW p \in Payloads, RejectTooLarge(t, p) PROVE Asleep'
  BY <1>1 DEF RejectTooLarge, calls
<1>2. ASSUME NEW t \in Threads, NEW p \in Payloads, NEW priority \in Priority,
             EnqueueLock(t, p, priority)
      PROVE Asleep'
  BY <1>2, <1>t DEF EnqueueLock, LockFree
<1>3. ASSUME NEW t \in Threads,
             ThreadStep(t) \/ FlushDrain(t) \/ Persist(t)
      PROVE Asleep'
  BY <1>3, <1>t, SMTT(40) DEF ThreadStep, EvictBulk, RejectFull, Push, AppendSpool, CompactSpool,
     FlushTruncate, FlushDrain, Persist, Return, calls
<1>4. CASE Crash \/ Open \/ OpenFails \/ RecoverItem \/ RecoverDone
  BY <1>4, <1>t DEF Crash, Open, OpenFails, RecoverItem, RecoverDone, calls
<1>5. CASE UNCHANGED vars
  BY <1>5 DEF vars, calls
<1> QED
  BY <1>1, <1>2, <1>3, <1>4, <1>5 DEF Next

\* An empty queue is within its limits and its counters balance.
LEMMA SizedInit == Init => Sized
BY LimitAssumption, SMTT(40) DEF Init, Sized, Bounded, Accounting, DownEmpty, pending_items

\* Room is made before an item is pushed, recovery checks the limits before it
\* takes an item in, and every move of an item is counted once.
LEMMA SizedNext == Typed /\ Asleep /\ Sized /\ [Next]_vars => Sized'
<1> SUFFICES ASSUME Typed, Asleep, Sized, [Next]_vars PROVE Sized'
  OBVIOUS
<1> USE SizeAssumption, LimitAssumption
<1>t. /\ TypeOK /\ HoldsOne /\ Bounded /\ Accounting /\ DownEmpty
      /\ stats \in Stats /\ pending_bytes \in Nat
      /\ control \in Seq(QueuedItem) /\ bulk \in Seq(QueuedItem)
  BY DEF Typed, Sized, TypeOK
<1>q. ASSUME UNCHANGED <<boot, inner>>,
             /\ stats'.enqueued = stats.enqueued /\ stats'.recovered = stats.recovered
             /\ stats'.flushed = stats.flushed /\ stats'.evicted = stats.evicted
      PROVE  Sized'
  BY <1>q, <1>t DEF Sized, Bounded, Accounting, DownEmpty, pending_items, inner
<1>1. ASSUME NEW t \in Threads, NEW p \in Payloads, RejectTooLarge(t, p) PROVE Sized'
  BY <1>1, <1>t, <1>q DEF RejectTooLarge, Bump, Stats
<1>2. ASSUME NEW t \in Threads, NEW p \in Payloads, NEW priority \in Priority,
             EnqueueLock(t, p, priority)
      PROVE Sized'
  BY <1>2, <1>q DEF EnqueueLock
<1>3. ASSUME NEW t \in Threads, EvictBulk(t) PROVE Sized'
  <2>1. /\ stats' = Bump(stats, "evicted") /\ bulk # <<>> /\ bulk' = Tail(bulk)
        /\ control' = control /\ boot' = boot
    BY <1>3 DEF EvictBulk
  <2>2. Len(bulk') = Len(bulk) - 1 /\ Len(control') = Len(control)
        /\ Len(bulk) \in Nat /\ Len(control) \in Nat
    BY <2>1, <1>t, SMTT(40)
  <2>3. /\ stats'.evicted = stats.evicted + 1 /\ stats'.enqueued = stats.enqueued
        /\ stats'.flushed = stats.flushed /\ stats'.recovered = stats.recovered
    BY <2>1, <1>t DEF Bump, Stats
  <2>4. Head(bulk) \in QueuedItem
    BY <2>1, <1>t, SMTT(40)
  <2>5. Size[Head(bulk).data] \in Nat
    BY <2>4 DEF QueuedItem
  <2>6. pending_bytes' = SaturatingSub(pending_bytes, Size[Head(bulk).data])
    BY <1>3 DEF EvictBulk
  <2>7. pending_bytes' <= pending_bytes /\ pending_bytes' \in Nat
    BY <2>5, <2>6, <1>t, SMTT(40) DEF SaturatingSub
  <2>8. boot # "down"
    BY <2>1, <1>t DEF DownEmpty
  <2>9. /\ stats.enqueued \in Nat /\ stats.flushed \in Nat
        /\ stats.recovered \in Nat /\ stats.evicted \in Nat
    BY <1>t DEF Stats
  <2>10. pending_items' = pending_items - 1 /\ pending_items \in Nat
    BY <2>2, SMTT(40) DEF pending_items
  <2>11. Bounded'
    <3>1. pending_items <= MaxItems /\ pending_bytes <= MaxBytes /\ pending_bytes \in Nat
      BY <1>t DEF Bounded
    <3> QED
      BY <3>1, <2>7, <2>10, SMTT(40) DEF Bounded
  <2>12. Accounting'
    <3>1. stats.enqueued + stats.recovered = pending_items + stats.flushed + stats.evicted
      BY <1>t, <2>8 DEF Accounting
    <3>2. ASSUME NEW e \in Nat, NEW r \in Nat, NEW n \in Nat, NEW f \in Nat, NEW v \in Nat,
                 e + r = n + f + v
          PROVE  e + r = (n - 1) + f + (v + 1)
      BY <3>2, SMTT(40)
    <3>3. stats.enqueued + stats.recovered = (pending_items - 1) + stats.flushed + (stats.evicted + 1)
      BY <3>1, <3>2, <2>9, <2>10, SMTT(40)
    <3> QED
      BY <3>3, <2>3, <2>10 DEF Accounting
  <2>13. boot' # "down"
    BY <2>1, <2>8
  <2> QED
    BY <2>11, <2>12, <2>13 DEF Sized, DownEmpty
<1>4. ASSUME NEW t \in Threads, RejectFull(t) PROVE Sized'
  BY <1>4, <1>t, <1>q DEF RejectFull, Bump, Stats
<1>6. ASSUME NEW t \in Threads, AppendSpool(t) PROVE Sized'
  <2>1. stats' = stats \/ stats' = Bump(stats, "persist_errors")
    BY <1>6 DEF AppendSpool
  <2>2. /\ stats'.enqueued = stats.enqueued /\ stats'.recovered = stats.recovered
        /\ stats'.flushed = stats.flushed /\ stats'.evicted = stats.evicted
    BY <2>1, <1>t DEF Bump, Stats
  <2> QED
    BY <1>6, <1>q, <2>2 DEF AppendSpool
<1>7. ASSUME NEW t \in Threads, CompactSpool(t) PROVE Sized'
  BY <1>7, <1>t, <1>q, RewriteSpoolCounts DEF CompactSpool
<1>9. ASSUME NEW t \in Threads, FlushTruncate(t) PROVE Sized'
  BY <1>9, <1>t, <1>q, RewriteSpoolCounts DEF FlushTruncate
<1>10. ASSUME NEW t \in Threads, Persist(t) PROVE Sized'
  BY <1>10, <1>t, <1>q, RewriteSpoolCounts DEF Persist
<1>11. CASE Crash
  BY <1>11, SMTT(40) DEF Crash, EmptyInner, Sized, Bounded, Accounting, DownEmpty, pending_items
<1>12. CASE Open \/ OpenFails
  <2>1. control = <<>> /\ bulk = <<>> /\ UNCHANGED inner /\ stats' = ZeroStats /\ boot' # "down"
    BY <1>12, <1>t DEF Open, OpenFails, DownEmpty
  <2> QED
    BY <2>1, <1>t, SMTT(40) DEF Sized, Bounded, Accounting, DownEmpty, pending_items, inner, ZeroStats
<1>16. CASE UNCHANGED vars
  BY <1>16, <1>q DEF vars

\* An item of b bytes enters at the back of one lane, and is counted.
<1>e. ASSUME NEW item \in QueuedItem, NEW field \in {"enqueued", "recovered"},
             /\ boot' = boot /\ boot # "down" /\ stats' = Bump(stats, field)
             /\ pending_bytes' = pending_bytes + Size[item.data]
             /\ pending_items + 1 <= MaxItems
             /\ pending_bytes + Size[item.data] <= MaxBytes
             /\ \/ control' = Append(control, item) /\ UNCHANGED bulk
                \/ bulk' = Append(bulk, item) /\ UNCHANGED control
      PROVE  Sized'
  <2>1. /\ Len(control') + Len(bulk') = Len(control) + Len(bulk) + 1
        /\ Len(control) + Len(bulk) \in Nat
    <3>1. /\ Len(Append(control, item)) = Len(control) + 1
          /\ Len(Append(bulk, item)) = Len(bulk) + 1
          /\ Len(control) \in Nat /\ Len(bulk) \in Nat
      BY <1>t, SMTT(40)
    <3> QED
      BY SMTT(30), <1>e, <3>1
  <2>2. stats'.flushed = stats.flushed /\ stats'.evicted = stats.evicted
    BY <1>e, <1>t DEF Bump, Stats
  <2>3. stats'.enqueued + stats'.recovered = stats.enqueued + stats.recovered + 1
    BY SMTT(30), <1>e, <1>t DEF Bump, Stats
  <2>4. /\ stats.enqueued \in Nat /\ stats.flushed \in Nat
        /\ stats.recovered \in Nat /\ stats.evicted \in Nat
    BY <1>t DEF Stats
  <2> QED
    BY <1>e, <1>t, <2>1, <2>2, <2>3, <2>4, SMTT(40)
    DEF Sized, Bounded, Accounting, DownEmpty, pending_items
<1>5. ASSUME NEW t \in Threads, Push(t) PROVE Sized'
  <2> DEFINE item == [held[t][1] EXCEPT !.id = next_id]
  <2>1. item \in QueuedItem /\ item.data = held[t][1].data
    BY <1>5, <1>t, HeldItem DEF Push, Typed, TypeOK, QueuedItem
  <2>2. boot' = boot /\ boot # "down"
    BY <1>5 DEF Push, Asleep, Running
  <2>3. /\ stats' = Bump(stats, "enqueued")
        /\ pending_bytes' = pending_bytes + Size[item.data]
        /\ \/ control' = Append(control, item) /\ UNCHANGED bulk
           \/ bulk' = Append(bulk, item) /\ UNCHANGED control
    BY <1>5 DEF Push
  <2>4. ~NeedsRoom(t)
    BY <1>5 DEF Push
  <2>5. Size[item.data] \in Nat /\ pending_items \in Nat
    BY <2>1, <1>t, SMTT(40) DEF QueuedItem, pending_items
  <2>6. pending_items + 1 <= MaxItems /\ pending_bytes + Size[item.data] <= MaxBytes
    BY SMTT(30), <2>1, <2>4, <2>5, <1>t DEF NeedsRoom
  <2> HIDE DEF item
  <2> QED
    BY <1>e, <2>1, <2>2, <2>3, <2>6
<1>8. ASSUME NEW t \in Threads, FlushDrain(t) PROVE Sized'
  <2>1. /\ stats' = [stats EXCEPT !.flushed = @ + pending_items]
        /\ control' = <<>> /\ bulk' = <<>> /\ pending_bytes' = 0 /\ boot' = boot
    BY <1>8 DEF FlushDrain
  <2>2. /\ stats'.flushed = stats.flushed + pending_items /\ stats'.evicted = stats.evicted
        /\ stats'.enqueued = stats.enqueued /\ stats'.recovered = stats.recovered
    BY <2>1, <1>t DEF Stats
  <2>3. /\ stats.enqueued \in Nat /\ stats.flushed \in Nat
        /\ stats.recovered \in Nat /\ stats.evicted \in Nat /\ pending_items \in Nat
    BY <1>t, SMTT(40) DEF Stats, pending_items
  <2>4. pending_items' = 0
    BY <2>1, SMTT(40) DEF pending_items
  <2> QED
    BY <1>t, <2>1, <2>2, <2>3, <2>4, SMTT(40) DEF Sized, Bounded, Accounting, DownEmpty
<1>14. CASE RecoverItem
  <2> DEFINE item == Head(recovered)
  <2>1. item \in QueuedItem
    BY <1>14, <1>t, SMTT(40) DEF RecoverItem, TypeOK
  <2>2. boot' = boot /\ boot # "down"
    BY <1>14 DEF RecoverItem
  <2>3. CASE pending_items >= MaxItems \/ pending_bytes + Size[item.data] > MaxBytes
    <3>1. stats' = Bump(stats, "rejected") /\ UNCHANGED inner
      BY <1>14, <2>3 DEF RecoverItem
    <3> QED
      BY <3>1, <2>2, <1>t, <1>q DEF Bump, Stats
  <2>4. CASE ~(pending_items >= MaxItems \/ pending_bytes + Size[item.data] > MaxBytes)
    <3>1. /\ stats' = Bump(stats, "recovered")
          /\ pending_bytes' = pending_bytes + Size[item.data]
          /\ \/ control' = Append(control, item) /\ UNCHANGED bulk
             \/ bulk' = Append(bulk, item) /\ UNCHANGED control
      BY <1>14, <2>4 DEF RecoverItem
    <3>2. Size[item.data] \in Nat /\ pending_items \in Nat
      BY <2>1, <1>t, SMTT(40) DEF QueuedItem, pending_items
    <3>3. pending_items + 1 <= MaxItems /\ pending_bytes + Size[item.data] <= MaxBytes
      BY <2>4, <3>2, <1>t, SMTT(40)
    <3> HIDE DEF item
    <3> QED
      BY <1>e, <2>1, <2>2, <3>1, <3>3
  <2> QED
    BY <2>3, <2>4
<1>15. CASE RecoverDone
  <2>1. /\ UNCHANGED inner /\ boot # "down" /\ boot' # "down"
        /\ stats'.enqueued = stats.enqueued /\ stats'.recovered = stats.recovered
        /\ stats'.flushed = stats.flushed /\ stats'.evicted = stats.evicted
    BY <1>15, <1>t, RewriteSpoolCounts DEF RecoverDone
  <2> QED
    BY <2>1, <1>t DEF Sized, Bounded, Accounting, DownEmpty, pending_items, inner
<1> QED
  BY <1>1, <1>2, <1>3, <1>4, <1>5, <1>6, <1>7, <1>8, <1>9, <1>10, <1>11, <1>12,
     <1>14, <1>15, <1>16 DEF Next, ThreadStep

\* The three invariants together.
LEMMA SizedAlways == Spec => [](Typed /\ Asleep /\ Sized)
<1>1. Init => Typed /\ Asleep /\ Sized
  BY TypedInit, AsleepInit, SizedInit
<1>2. Typed /\ Asleep /\ Sized /\ [Next]_vars => (Typed /\ Asleep /\ Sized)'
  BY TypedNext, AsleepNext, SizedNext
<1> QED
  BY <1>1, <1>2, PTL DEF Spec

\* No interleaving of calls and no recovery takes the queue over its limits.
THEOREM LimitsHold == Spec => []Bounded
BY SizedAlways, PTL DEF Sized

\* The counters of QueueStats always add up to what the lanes hold.
THEOREM CountersBalance == Spec => []Accounting
BY SizedAlways, PTL DEF Sized
--------------------------------------------------------------------------------
(***************************************************************************)
(* Nothing delivered comes back.  NoReplay is not inductive: an append, a  *)
(* push or a recovery could bring a settled payload back if a payload were *)
(* in two places at once.  The strengthening says where a payload may not  *)
(* be: the one being enqueued is nowhere else, what a flush has drained is *)
(* no longer pending, and a queue that fell back to memory shares nothing  *)
(* with the file it left alone.                                            *)
(***************************************************************************)
Mem == Data(control) \union Data(bulk)
OnDisk == Data(disk.lines)

Known ==
  /\ settled \union Mem \union OnDisk \union Data(recovered) \subseteq used
  /\ \A t \in Threads : Data(held[t]) \subseteq used
OfferedIsNew ==
  \A t \in Threads : pc[t] = "room" =>
    /\ held[t][1].data \notin settled \union Mem \union OnDisk
    /\ \A u \in Threads : pc[u] = "truncate" => held[t][1].data \notin Data(held[u])
DrainedIsGone ==
  \A t \in Threads : pc[t] = "truncate" => Data(held[t]) \intersect Mem = {}
MemoryApart ==
  boot = "memory" =>
    /\ Mem \intersect OnDisk = {}
    /\ \A t \in Threads : pc[t] = "truncate" => Data(held[t]) \intersect OnDisk = {}
RecoveredOnlyInOpen == boot # "recovering" => recovered = <<>>
SettledApart == settled \intersect (Mem \union OnDisk \union Data(recovered)) = {}

Apart == /\ Known /\ OfferedIsNew /\ DrainedIsGone /\ MemoryApart
         /\ RecoveredOnlyInOpen /\ SettledApart

(* What the operations on sequences do to the set of payloads. *)
LEMMA DataEmpty == Data(<<>>) = {}
BY SMTT(40) DEF Data

\* The payload of a single item.
LEMMA DataOne ==
  ASSUME NEW x
  PROVE  Data(<<x>>) = {x.data}
<1>1. DOMAIN <<x>> = {1} /\ <<x>>[1] = x
  BY SMTT(40)
<1> QED
  BY <1>1 DEF Data

\* The payload of each item of a sequence is among its payloads.
LEMMA DataMember ==
  ASSUME NEW s, NEW i \in DOMAIN s
  PROVE  s[i].data \in Data(s)
BY DEF Data

\* push_back adds one payload.
LEMMA DataAppend ==
  ASSUME NEW s \in Seq(QueuedItem), NEW x \in QueuedItem
  PROVE  Data(Append(s, x)) = Data(s) \union {x.data}
<1>1. /\ DOMAIN Append(s, x) = 1..(Len(s) + 1) /\ DOMAIN s = 1..Len(s) /\ Len(s) \in Nat
      /\ \A i \in 1..Len(s) : Append(s, x)[i] = s[i]
      /\ Append(s, x)[Len(s) + 1] = x
  BY SMTT(40)
<1>2. \A i \in 1..(Len(s) + 1) : i \in 1..Len(s) \/ i = Len(s) + 1
  BY <1>1, SMTT(40)
<1>3. 1..Len(s) \subseteq 1..(Len(s) + 1) /\ Len(s) + 1 \in 1..(Len(s) + 1)
  BY <1>1, SMTT(40)
<1>4. Data(Append(s, x)) \subseteq Data(s) \union {x.data}
  BY <1>1, <1>2 DEF Data
<1>5. Data(s) \union {x.data} \subseteq Data(Append(s, x))
  BY <1>1, <1>3 DEF Data
<1> QED
  BY <1>4, <1>5

\* pop_front adds none, and removes one that was there.
LEMMA DataTail ==
  ASSUME NEW s \in Seq(QueuedItem), s # <<>>
  PROVE  Data(Tail(s)) \subseteq Data(s) /\ Head(s).data \in Data(s)
<1>1. /\ DOMAIN Tail(s) = 1..(Len(s) - 1) /\ DOMAIN s = 1..Len(s) /\ Len(s) \in Nat
      /\ \A i \in 1..(Len(s) - 1) : Tail(s)[i] = s[i + 1]
      /\ Head(s) = s[1] /\ 1 \in 1..Len(s)
  BY SMTT(40)
<1>2. \A i \in 1..(Len(s) - 1) : i + 1 \in 1..Len(s)
  BY <1>1, SMTT(40)
<1> QED
  BY <1>1, <1>2, SMTT(40) DEF Data

\* Cutting off the last record adds none.
LEMMA DataFront ==
  ASSUME NEW s \in Seq(QueuedItem)
  PROVE  Data(Front(s)) \subseteq Data(s)
<1>1. \A i \in DOMAIN Front(s) : i \in DOMAIN s /\ Front(s)[i] = s[i]
  BY SMTT(40) DEF Front
<1> QED
  BY <1>1 DEF Data

\* Neither does dropping an item that could not be sealed.
LEMMA DataWithout ==
  ASSUME NEW s \in Seq(QueuedItem), NEW i \in DOMAIN s
  PROVE  Data(Without(s, i)) \subseteq Data(s)
<1>1. ASSUME NEW j \in DOMAIN Without(s, i)
      PROVE  \E k \in DOMAIN s : Without(s, i)[j] = s[k]
  <2>1. DOMAIN s = 1..Len(s) /\ Len(s) \in Nat /\ j \in 1..(Len(s) - 1)
    BY <1>1, SMTT(40) DEF Without
  <2>2. j \in DOMAIN s /\ j + 1 \in DOMAIN s
    BY <2>1, SMTT(40)
  <2>3. Without(s, i)[j] = IF j < i THEN s[j] ELSE s[j + 1]
    BY <2>1 DEF Without
  <2> QED
    BY <2>2, <2>3
<1> QED
  BY <1>1 DEF Data

\* The payloads rewrite_spool writes are those of the two lanes.
LEMMA DataPending ==
  ASSUME TypeOK
  PROVE  Data(Pending) = Mem
<1>1. control \in Seq(QueuedItem) /\ bulk \in Seq(QueuedItem)
  BY DEF TypeOK
<1>2. /\ DOMAIN Pending = 1..(Len(control) + Len(bulk))
      /\ DOMAIN control = 1..Len(control) /\ DOMAIN bulk = 1..Len(bulk)
      /\ Len(control) \in Nat /\ Len(bulk) \in Nat
      /\ \A i \in 1..(Len(control) + Len(bulk)) :
           Pending[i] = IF i <= Len(control) THEN control[i] ELSE bulk[i - Len(control)]
  BY <1>1, SMTT(40) DEF Pending
<1>3. Data(Pending) \subseteq Mem
  <2>1. ASSUME NEW i \in DOMAIN Pending PROVE Pending[i].data \in Mem
    <3>1. CASE i <= Len(control)
      BY <1>2, <2>1, <3>1, SMTT(40) DEF Mem, Data
    <3>2. CASE ~(i <= Len(control))
      <4>1. i - Len(control) \in DOMAIN bulk /\ Pending[i] = bulk[i - Len(control)]
        BY <1>2, <2>1, <3>2, SMTT(40)
      <4> QED
        BY <4>1 DEF Mem, Data
    <3> QED
      BY <3>1, <3>2
  <2> QED
    BY <2>1 DEF Data
<1>4. Mem \subseteq Data(Pending)
  <2>1. ASSUME NEW i \in DOMAIN control PROVE control[i].data \in Data(Pending)
    <3>1. i \in DOMAIN Pending /\ Pending[i] = control[i]
      BY <1>2, <2>1, SMTT(40)
    <3> QED
      BY <3>1 DEF Data
  <2>2. ASSUME NEW i \in DOMAIN bulk PROVE bulk[i].data \in Data(Pending)
    <3>1. i + Len(control) \in DOMAIN Pending /\ Pending[i + Len(control)] = bulk[i]
      BY <1>2, <2>2, SMTT(40)
    <3> QED
      BY <3>1 DEF Data
  <2> QED
    BY <2>1, <2>2 DEF Mem, Data
<1> QED
  BY <1>3, <1>4

\* A line adds at most its own payload to the file.
LEMMA LineData ==
  ASSUME NEW d \in SpoolFile, NEW it \in QueuedItem
  PROVE  /\ Data(WholeLine(d, it).lines) \subseteq Data(d.lines) \union {it.data}
         /\ \A e \in PartLine(d, it) : Data(e.lines) \subseteq Data(d.lines) \union {it.data}
<1>1. d.lines \in Seq(QueuedItem) /\ d.tail \in {"none", "torn", "bare"}
  BY DEF SpoolFile
<1>2. WholeLine(d, it).lines \in {d.lines, Append(d.lines, it), Front(d.lines)}
  BY <1>1, SMTT(40) DEF WholeLine, SpoolFile
<1>3. \A e \in PartLine(d, it) : e.lines \in {d.lines, Append(d.lines, it), Front(d.lines)}
  BY <1>1 DEF PartLine, SpoolFile
<1>4. \A l \in {d.lines, Append(d.lines, it), Front(d.lines)} :
        Data(l) \subseteq Data(d.lines) \union {it.data}
  <2>1. Data(Append(d.lines, it)) = Data(d.lines) \union {it.data}
    BY <1>1, DataAppend
  <2>2. Data(Front(d.lines)) \subseteq Data(d.lines)
    BY <1>1, DataFront
  <2> QED
    BY <2>1, <2>2
<1> QED
  BY <1>2, <1>3, <1>4

\* A rewrite replaces the payloads of the file by pending ones, or fails.
LEMMA RewriteData ==
  ASSUME TypeOK, NEW replaced \in BOOLEAN, RewriteSpool(replaced)
  PROVE  IF HasSpool /\ replaced THEN OnDisk' \subseteq Mem ELSE OnDisk' = OnDisk
<1>1. Pending \in Seq(QueuedItem) /\ Data(Pending) = Mem
  BY PendingType, DataPending
<1>2. CASE HasSpool /\ replaced
  <2>1. \/ disk' = Rewritten(Pending)
        \/ \E i \in DOMAIN Pending : disk' = Rewritten(Without(Pending, i))
    BY <1>2 DEF RewriteSpool
  <2>2. \A s : Rewritten(s).lines = s
    BY DEF Rewritten
  <2>3. \A i \in DOMAIN Pending : Data(Without(Pending, i)) \subseteq Data(Pending)
    BY <1>1, DataWithout
  <2> QED
    BY <1>1, <1>2, <2>1, <2>2, <2>3 DEF OnDisk
<1>3. CASE ~(HasSpool /\ replaced)
  <2>1. disk' = disk
    BY <1>3 DEF RewriteSpool
  <2> QED
    BY <1>3, <2>1 DEF OnDisk
<1> QED
  BY <1>2, <1>3

\* Nothing has been offered at first.
LEMMA ApartInit == Init => Apart
BY DataEmpty, SMTT(40) DEF Init, Apart, Known, OfferedIsNew, DrainedIsGone, MemoryApart,
   RecoveredOnlyInOpen, SettledApart, Mem, OnDisk, NoFile

\* Steps that bring nothing new into memory and write at most pending items.
LEMMA ApartQuiet ==
  ASSUME Apart,
         UNCHANGED <<boot, recovered, settled>>, used \subseteq used',
         Mem' \subseteq Mem, OnDisk' \subseteq OnDisk \union Mem,
         boot = "memory" => OnDisk' = OnDisk,
         \A u \in Threads : /\ pc'[u] \in {"room", "truncate"} => pc'[u] = pc[u] /\ held'[u] = held[u]
                            /\ Data(held'[u]) \subseteq used'
  PROVE  Apart'
<1> USE DEF Apart
<1>1. Known'
  BY DEF Known
<1>2. OfferedIsNew'
  BY DEF OfferedIsNew
<1>3. DrainedIsGone'
  BY DEF DrainedIsGone
<1>4. MemoryApart'
  BY DEF MemoryApart
<1>5. RecoveredOnlyInOpen' /\ SettledApart'
  BY DEF RecoveredOnlyInOpen, SettledApart
<1> QED
  BY <1>1, <1>2, <1>3, <1>4, <1>5

\* A call that returns holds nothing.
LEMMA ReturnQuiet ==
  ASSUME Typed, Known, used' = used, NEW t \in Threads, Return(t)
  PROVE  \A u \in Threads : /\ pc'[u] \in {"room", "truncate"} => pc'[u] = pc[u] /\ held'[u] = held[u]
                            /\ Data(held'[u]) \subseteq used'
<1>1. pc \in [Threads -> CallState] /\ held \in [Threads -> Seq(QueuedItem)]
  BY DEF Typed, TypeOK
<1> QED
  BY <1>1, DataEmpty DEF Return, Known

\* No step of a call, crash or recovery brings a settled payload back.
LEMMA ApartNext == Typed /\ Asleep /\ Sized /\ Apart /\ [Next]_vars => Apart'
<1> SUFFICES ASSUME Typed, Asleep, Sized, Apart, [Next]_vars PROVE Apart'
  OBVIOUS
<1>t. /\ TypeOK /\ HoldsOne /\ control \in Seq(QueuedItem) /\ bulk \in Seq(QueuedItem)
      /\ recovered \in Seq(QueuedItem) /\ disk \in SpoolFile
      /\ pc \in [Threads -> CallState] /\ held \in [Threads -> Seq(QueuedItem)]
  BY DEF Typed, TypeOK
<1>a. /\ Known /\ OfferedIsNew /\ DrainedIsGone /\ MemoryApart
      /\ RecoveredOnlyInOpen /\ SettledApart
  BY DEF Apart
<1>k. \A u \in Threads : Data(held[u]) \subseteq used
  BY <1>a DEF Known
<1>1. ASSUME NEW t \in Threads, NEW p \in Payloads, RejectTooLarge(t, p) PROVE Apart'
  BY <1>1, <1>k, ApartQuiet, SMTT(40) DEF RejectTooLarge, inner, calls, Mem, OnDisk
<1>3. ASSUME NEW t \in Threads, EvictBulk(t) PROVE Apart'
  <2>1. Mem' \subseteq Mem
    BY <1>3, <1>t, DataTail DEF EvictBulk, Mem
  <2> QED
    BY <1>3, <1>k, <2>1, ApartQuiet DEF EvictBulk, OnDisk
<1>4. ASSUME NEW t \in Threads, RejectFull(t) PROVE Apart'
  <2>1. UNCHANGED <<boot, recovered, settled, used, control, bulk, disk>> /\ Return(t)
    BY <1>4, SMTT(40) DEF RejectFull, inner, history
  <2> QED
    BY <2>1, <1>a, ReturnQuiet, ApartQuiet DEF Mem, OnDisk
<1>l. ASSUME NEW i \in DOMAIN Pending
      PROVE  \A e \in {WholeLine(disk, Pending[i])} \union PartLine(disk, Pending[i]) :
               Data(e.lines) \subseteq Data(disk.lines) \union Mem
  <2>1. Pending[i] \in QueuedItem
    BY <1>t, PendingType, SMTT(40)
  <2>2. Pending[i].data \in Mem
    BY <1>t, DataPending, DataMember
  <2>3. /\ Data(WholeLine(disk, Pending[i]).lines) \subseteq Data(disk.lines) \union {Pending[i].data}
        /\ \A e \in PartLine(disk, Pending[i]) :
             Data(e.lines) \subseteq Data(disk.lines) \union {Pending[i].data}
    BY <1>t, <2>1, LineData
  <2> QED
    BY <2>2, <2>3
<1>6. ASSUME NEW t \in Threads, AppendSpool(t) PROVE Apart'
  <2>1. UNCHANGED <<boot, recovered, settled, used, control, bulk>> /\ Return(t)
    BY <1>6 DEF AppendSpool, inner
  <2>2. \/ disk' = disk
        \/ /\ HasSpool
           /\ \E i \in DOMAIN Pending : disk' \in {WholeLine(disk, Pending[i])} \union PartLine(disk, Pending[i])
    BY <1>6 DEF AppendSpool
  <2>4. OnDisk' \subseteq OnDisk \union Mem
    BY <2>2, <1>l, SMTT(40) DEF OnDisk
  <2>5. boot = "memory" => OnDisk' = OnDisk
    BY <2>2 DEF OnDisk, HasSpool
  <2>6. Mem' = Mem
    BY <2>1 DEF Mem
  <2> QED
    BY <2>1, <2>4, <2>5, <2>6, <1>a, ReturnQuiet, ApartQuiet
<1>r. ASSUME NEW replaced \in BOOLEAN, RewriteSpool(replaced)
      PROVE  OnDisk' \subseteq OnDisk \union Mem /\ (boot = "memory" => OnDisk' = OnDisk)
  BY <1>r, <1>t, RewriteData DEF HasSpool
<1>7. ASSUME NEW t \in Threads, CompactSpool(t) PROVE Apart'
  <2>1. UNCHANGED <<boot, recovered, settled, used, control, bulk>> /\ Return(t)
    BY <1>7 DEF CompactSpool, inner
  <2>2. Mem' = Mem
    BY <2>1 DEF Mem
  <2>3. OnDisk' \subseteq OnDisk \union Mem /\ (boot = "memory" => OnDisk' = OnDisk)
    BY <1>7, <1>r DEF CompactSpool
  <2> QED
    BY <2>1, <2>2, <2>3, <1>a, ReturnQuiet, ApartQuiet
<1>10. ASSUME NEW t \in Threads, Persist(t) PROVE Apart'
  <2>1. UNCHANGED <<boot, recovered, settled, used, control, bulk, pc, held>>
    BY <1>10 DEF Persist, inner, calls, history
  <2>2. Mem' = Mem
    BY <2>1 DEF Mem
  <2>3. OnDisk' \subseteq OnDisk \union Mem /\ (boot = "memory" => OnDisk' = OnDisk)
    BY <1>10, <1>r DEF Persist
  <2> QED
    BY <2>1, <2>2, <2>3, <1>k, ApartQuiet
<1>16. CASE UNCHANGED vars
  BY <1>16, <1>k, ApartQuiet DEF vars, inner, calls, history, Mem, OnDisk
<1>2. ASSUME NEW t \in Threads, NEW p \in Payloads, NEW priority \in Priority,
             EnqueueLock(t, p, priority)
      PROVE Apart'
  <2> DEFINE item == [id |-> 0, priority |-> priority, data |-> p]
  <2>1. /\ UNCHANGED <<boot, recovered, settled, control, bulk, disk>> /\ used' = used \union {p}
        /\ pc' = [pc EXCEPT ![t] = "room"] /\ held' = [held EXCEPT ![t] = <<item>>]
        /\ p \notin used /\ LockFree
    BY <1>2 DEF EnqueueLock, inner
  <2>2. Mem' = Mem /\ OnDisk' = OnDisk
    BY <2>1 DEF Mem, OnDisk
  <2>3. held'[t] = <<item>> /\ <<item>>[1].data = p /\ Data(<<item>>) = {p}
    BY <2>1, <1>t, SMTT(40) DEF Data
  <2>4. \A u \in Threads : u # t => pc'[u] = pc[u] /\ held'[u] = held[u]
    BY <2>1, <1>t
  <2>5. pc'[t] = "room"
    BY <2>1, <1>t
  <2> HIDE DEF item
  <2>6. Known'
    BY <1>a, <2>1, <2>2, <2>3, <2>4 DEF Known
  <2>7. OfferedIsNew'
    BY <1>a, <2>1, <2>2, <2>3, <2>4, <2>5, SMTT(40) DEF Known, OfferedIsNew, LockFree
  <2>8. DrainedIsGone' /\ MemoryApart'
    BY <1>a, <2>1, <2>2, <2>4, <2>5 DEF DrainedIsGone, MemoryApart
  <2>9. RecoveredOnlyInOpen' /\ SettledApart'
    BY <1>a, <2>1, <2>2 DEF RecoveredOnlyInOpen, SettledApart
  <2> QED
    BY <2>6, <2>7, <2>8, <2>9 DEF Apart
<1>5. ASSUME NEW t \in Threads, Push(t) PROVE Apart'
  <2> DEFINE item == [held[t][1] EXCEPT !.id = next_id]
  <2>1. item \in QueuedItem /\ item.data = held[t][1].data
    BY <1>5, <1>t, HeldItem DEF Push, Typed, TypeOK, QueuedItem
  <2>2. /\ UNCHANGED <<boot, recovered, settled, used, disk>> /\ pc[t] = "room"
        /\ held' = [held EXCEPT ![t] = <<item>>]
        /\ \/ control' = Append(control, item) /\ UNCHANGED bulk
           \/ bulk' = Append(bulk, item) /\ UNCHANGED control
    BY <1>5 DEF Push, history
  <2>3. pc'[t] \in {"append", "compact"} /\ \A u \in Threads : u # t => pc'[u] = pc[u]
    BY <1>5, <1>t DEF Push
  <2>4. Data(held[t]) = {held[t][1].data}
    <3>1. Len(held[t]) = 1 /\ DOMAIN held[t] = {1}
      BY <1>t, <2>2, SMTT(40) DEF HoldsOne
    <3> QED
      BY <3>1 DEF Data
  <2>5. Data(<<item>>) = {item.data}
    BY DataOne
  <2>6. held'[t] = <<item>> /\ \A u \in Threads : u # t => held'[u] = held[u]
    BY <2>2, <1>t
  <2> HIDE DEF item
  <2>7. Mem' = Mem \union {item.data} /\ OnDisk' = OnDisk
    <3>1. /\ Data(Append(control, item)) = Data(control) \union {item.data}
          /\ Data(Append(bulk, item)) = Data(bulk) \union {item.data}
      BY <1>t, <2>1, DataAppend
    <3> QED
      BY <2>2, <3>1 DEF Mem, OnDisk
  <2>8. /\ item.data \in used
        /\ item.data \notin settled \union Mem \union OnDisk
        /\ \A u \in Threads : pc[u] = "truncate" => item.data \notin Data(held[u])
    BY <1>a, <2>1, <2>2, <2>4 DEF Known, OfferedIsNew
  <2>9. Known'
    BY <1>a, <2>2, <2>5, <2>6, <2>7, <2>8, SMTT(40) DEF Known
  <2>10. OfferedIsNew'
    <3>1. \A u \in Threads : pc'[u] # "room"
      <4>1. \A u, v \in Threads : pc[u] = "room" /\ pc[v] = "room" => u = v
        BY DEF Asleep
      <4> QED
        BY <4>1, <2>2, <2>3
    <3> QED
      BY <3>1 DEF OfferedIsNew
  <2>11. DrainedIsGone'
    BY <1>a, <2>3, <2>6, <2>7, <2>8 DEF DrainedIsGone
  <2>12. MemoryApart'
    BY <1>a, <2>2, <2>3, <2>6, <2>7, <2>8 DEF MemoryApart
  <2>13. RecoveredOnlyInOpen' /\ SettledApart'
    <3>1. recovered = <<>>
      BY <1>a, <2>2 DEF RecoveredOnlyInOpen, Asleep, Running
    <3> QED
      BY <3>1, <1>a, <2>2, <2>7, <2>8, DataEmpty DEF RecoveredOnlyInOpen, SettledApart
  <2> QED
    BY <2>9, <2>10, <2>11, <2>12, <2>13 DEF Apart
<1>8. ASSUME NEW t \in Threads, FlushDrain(t) PROVE Apart'
  <2>1. /\ UNCHANGED <<boot, recovered, settled, used, disk>> /\ Running /\ LockFree
        /\ control' = <<>> /\ bulk' = <<>>
        /\ pc' = [pc EXCEPT ![t] = "truncate"] /\ held' = [held EXCEPT ![t] = Pending]
    BY <1>8 DEF FlushDrain, history
  <2>2. Mem' = {} /\ OnDisk' = OnDisk
    BY <2>1, DataEmpty DEF Mem, OnDisk
  <2>3. Data(held'[t]) = Mem /\ pc'[t] = "truncate"
    BY <2>1, <1>t, DataPending
  <2>4. \A u \in Threads : u # t => pc'[u] = pc[u] /\ held'[u] = held[u]
    BY <2>1, <1>t
  <2>5. Known'
    BY <1>a, <2>1, <2>2, <2>3, <2>4 DEF Known
  <2>6. OfferedIsNew'
    BY <2>1, <2>3, <2>4 DEF OfferedIsNew, LockFree
  <2>7. DrainedIsGone' /\ MemoryApart'
    BY <1>a, <2>1, <2>2, <2>3, <2>4 DEF DrainedIsGone, MemoryApart
  <2>8. RecoveredOnlyInOpen' /\ SettledApart'
    BY <1>a, <2>1, <2>2 DEF RecoveredOnlyInOpen, SettledApart
  <2> QED
    BY <2>5, <2>6, <2>7, <2>8 DEF Apart
<1>9. ASSUME NEW t \in Threads, FlushTruncate(t) PROVE Apart'
  <2>1. /\ UNCHANGED <<boot, recovered, used, control, bulk>> /\ Return(t)
        /\ pc[t] = "truncate" /\ LockFree
    BY <1>9 DEF FlushTruncate, inner
  <2>2. PICK replaced \in BOOLEAN :
          /\ RewriteSpool(replaced)
          /\ settled' = IF replaced THEN settled \union Data(held[t]) ELSE settled
    BY <1>9 DEF FlushTruncate
  <2>3. IF HasSpool /\ replaced THEN OnDisk' \subseteq Mem ELSE OnDisk' = OnDisk
    BY <1>t, <2>2, RewriteData
  <2>4. Mem' = Mem
    BY <2>1 DEF Mem
  <2>5. \A u \in Threads :
          /\ pc'[u] \in {"room", "truncate"} => pc'[u] = pc[u] /\ held'[u] = held[u]
          /\ Data(held'[u]) \subseteq used'
    BY <2>1, <1>a, ReturnQuiet
  <2>6. CASE ~replaced
    BY <2>1, <2>2, <2>3, <2>4, <2>5, <2>6, ApartQuiet
  <2>7. CASE replaced
    <3>1. settled' = settled \union Data(held[t])
      BY <2>2, <2>7
    <3>2. boot \in {"disk", "memory"} /\ recovered = <<>>
      BY <1>a, <2>1 DEF Asleep, Running, RecoveredOnlyInOpen
    <3>3. Data(held[t]) \intersect (Mem \union OnDisk') = {}
      BY <1>a, <2>1, <2>3, <2>7, <3>2 DEF DrainedIsGone, MemoryApart, HasSpool
    <3>4. OnDisk' \subseteq OnDisk \union Mem /\ (boot = "memory" => OnDisk' = OnDisk)
      BY <2>3 DEF HasSpool
    <3>5. Known'
      BY <1>a, <1>k, <2>1, <2>4, <2>5, <3>1, <3>4, SMTT(40) DEF Known
    <3>6. \A u \in Threads : pc'[u] # "room"
      BY <2>1, <2>5 DEF LockFree
    <3>7. OfferedIsNew'
      BY <3>6 DEF OfferedIsNew
    <3>8. DrainedIsGone' /\ MemoryApart'
      BY <1>a, <2>1, <2>4, <2>5, <3>4 DEF DrainedIsGone, MemoryApart
    <3>9. RecoveredOnlyInOpen' /\ SettledApart'
      BY <1>a, <2>1, <2>4, <3>1, <3>2, <3>3, <3>4, DataEmpty DEF RecoveredOnlyInOpen, SettledApart
    <3> QED
      BY <3>5, <3>7, <3>8, <3>9 DEF Apart
  <2> QED
    BY <2>6, <2>7
<1>11. CASE Crash
  <2>1. /\ UNCHANGED <<settled, used>> /\ recovered' = <<>> /\ boot' = "down"
        /\ control' = <<>> /\ bulk' = <<>>
        /\ \A u \in Threads : pc'[u] = "idle" /\ held'[u] = <<>>
    BY <1>11 DEF Crash, EmptyInner, history
  <2>2. Mem' = {} /\ Data(recovered') = {} /\ \A u \in Threads : Data(held'[u]) = {}
    BY <2>1, DataEmpty DEF Mem
  <2>3. OnDisk' \subseteq OnDisk \union Mem
    <3>2. disk' = disk \/ \E i \in DOMAIN Pending : disk' \in PartLine(disk, Pending[i])
      BY <1>11 DEF Crash
    <3> QED
      BY <3>2, <1>l DEF OnDisk
  <2>4. Known' /\ SettledApart'
    BY <1>a, <2>1, <2>2, <2>3 DEF Known, SettledApart
  <2> QED
    BY <2>1, <2>4 DEF Apart, OfferedIsNew, DrainedIsGone, MemoryApart, RecoveredOnlyInOpen
<1>12. CASE Open
  <2>1. /\ UNCHANGED <<settled, used, control, bulk, disk, pc, held>>
        /\ boot' = "recovering" /\ recovered' = disk.lines
        /\ \A u \in Threads : pc[u] = "idle"
    BY <1>12 DEF Open, inner, calls, history, Asleep, Running
  <2>2. Mem' = Mem /\ OnDisk' = OnDisk /\ Data(recovered') = OnDisk
    BY <2>1 DEF Mem, OnDisk
  <2>3. Known' /\ SettledApart'
    BY <1>a, <2>1, <2>2 DEF Known, SettledApart
  <2> QED
    BY <2>1, <2>3 DEF Apart, OfferedIsNew, DrainedIsGone, MemoryApart, RecoveredOnlyInOpen
<1>13. CASE OpenFails
  <2>1. /\ UNCHANGED <<settled, used, control, bulk, disk, recovered, pc, held>>
        /\ boot' = "memory" /\ boot = "down" /\ \A u \in Threads : pc[u] = "idle"
    BY <1>13 DEF OpenFails, inner, calls, history, Asleep, Running
  <2>2. Mem' = Mem /\ OnDisk' = OnDisk /\ Mem = {}
    BY <2>1, DataEmpty DEF Mem, OnDisk, Sized, DownEmpty
  <2>3. Known' /\ SettledApart' /\ RecoveredOnlyInOpen'
    BY <1>a, <2>1, <2>2 DEF Known, SettledApart, RecoveredOnlyInOpen
  <2> QED
    BY <2>1, <2>2, <2>3 DEF Apart, OfferedIsNew, DrainedIsGone, MemoryApart
<1>14. CASE RecoverItem
  <2> DEFINE item == Head(recovered)
  <2>1. /\ UNCHANGED <<boot, settled, used, disk, pc, held>> /\ boot = "recovering"
        /\ recovered # <<>> /\ recovered' = Tail(recovered)
        /\ \A u \in Threads : pc[u] = "idle"
    BY <1>14 DEF RecoverItem, calls, history, Asleep, Running
  <2>2. \/ control' = control /\ bulk' = bulk
        \/ control' = Append(control, item) /\ bulk' = bulk
        \/ control' = control /\ bulk' = Append(bulk, item)
    BY <1>14 DEF RecoverItem, inner
  <2>3. /\ item \in QueuedItem /\ item.data \in Data(recovered)
        /\ Data(Tail(recovered)) \subseteq Data(recovered)
    BY <1>t, <2>1, DataTail, SMTT(40)
  <2> HIDE DEF item
  <2>4. Mem' \subseteq Mem \union {item.data} /\ OnDisk' = OnDisk
    <3>1. /\ Data(Append(control, item)) = Data(control) \union {item.data}
          /\ Data(Append(bulk, item)) = Data(bulk) \union {item.data}
      BY <1>t, <2>3, DataAppend
    <3> QED
      BY <2>1, <2>2, <3>1 DEF Mem, OnDisk
  <2>5. Known' /\ SettledApart'
    BY <1>a, <2>1, <2>3, <2>4, SMTT(40) DEF Known, SettledApart
  <2> QED
    BY <2>1, <2>5 DEF Apart, OfferedIsNew, DrainedIsGone, MemoryApart, RecoveredOnlyInOpen
<1>15. CASE RecoverDone
  <2>1. /\ UNCHANGED <<settled, used, control, bulk, recovered, pc, held>>
        /\ boot' = "disk" /\ recovered = <<>> /\ \A u \in Threads : pc[u] = "idle"
    BY <1>15 DEF RecoverDone, inner, calls, history, Asleep, Running
  <2>2. Mem' = Mem
    BY <2>1 DEF Mem
  <2>3. OnDisk' \subseteq OnDisk \union Mem
    BY <1>15, <1>r DEF RecoverDone
  <2>4. Known' /\ SettledApart'
    BY <1>a, <2>1, <2>2, <2>3 DEF Known, SettledApart
  <2> QED
    BY <2>1, <2>4 DEF Apart, OfferedIsNew, DrainedIsGone, MemoryApart, RecoveredOnlyInOpen
<1> QED
  BY <1>1, <1>2, <1>3, <1>4, <1>5, <1>6, <1>7, <1>8, <1>9, <1>10, <1>11, <1>12, <1>13,
     <1>14, <1>15, <1>16 DEF Next, ThreadStep

\* A payload returned by a flush that truncated the spool is never again
\* pending, on disk or being recovered: neither an interleaving of calls, nor a
\* fault, nor a crash at any point replays it.
THEOREM NothingReplayed == Spec => []NoReplay
<1>1. Init => Apart
  BY ApartInit
<1>2. Typed /\ Asleep /\ Sized /\ Apart /\ [Next]_vars => Apart'
  BY ApartNext
<1>3. Typed /\ Apart => NoReplay
  BY DataPending DEF Typed, Apart, SettledApart, NoReplay, OnDisk
<1> QED
  BY <1>1, <1>2, <1>3, SizedAlways, PTL DEF Spec

(***************************************************************************)
(* The file opens.  SpoolOpens says nothing of a file that is being        *)
(* written: what a crash may leave of it depends on the file having a      *)
(* header and no fragment at its end while the queue runs on it, and the   *)
(* queue falls back to memory only after a fault.                          *)
(***************************************************************************)
SpoolFine ==
  faults = 0 =>
    /\ boot # "memory" /\ ~disk.bad /\ (disk.header \/ IsEmptyFile(disk))
    /\ boot = "disk" => disk.header /\ disk.tail = "none"

\* With no fault counted, rewrite_spool wrote what is pending.
LEMMA RewriteHealthy ==
  ASSUME TypeOK, NEW replaced \in BOOLEAN, RewriteSpool(replaced)
  PROVE  /\ faults \in Nat /\ faults' \in {faults, faults + 1}
         /\ faults' = faults /\ HasSpool =>
              replaced /\ disk' = Rewritten(Pending) /\ stats' = stats
         /\ faults' = faults /\ ~HasSpool => replaced /\ disk' = disk /\ stats' = stats
<1>1. faults \in Nat /\ faults # faults + 1
  BY SMTT(40) DEF TypeOK
<1> QED
  BY <1>1 DEF RewriteSpool

\* The empty file opens.
LEMMA SpoolFineInit == Init => SpoolFine
BY SMTT(40) DEF Init, SpoolFine, NoFile, IsEmptyFile

\* A file that opens is left by every step, the crash in a write included.
LEMMA SpoolFineNext == Typed /\ Asleep /\ SpoolFine /\ [Next]_vars => SpoolFine'
<1> SUFFICES ASSUME Typed, Asleep, SpoolFine, [Next]_vars, faults' = 0 PROVE SpoolFine'
  BY DEF SpoolFine
<1>t. /\ TypeOK /\ disk \in SpoolFile /\ faults \in Nat /\ faults + 1 # 0
  BY SMTT(40) DEF Typed, TypeOK
<1>q. ASSUME UNCHANGED <<boot, disk, faults>> PROVE SpoolFine'
  BY <1>q DEF SpoolFine, IsEmptyFile
<1>r. ASSUME NEW replaced \in BOOLEAN, RewriteSpool(replaced), boot' = boot \/ boot' = "disk",
             boot # "down"
      PROVE  SpoolFine'
  <2>1. faults = 0 /\ faults' = faults
    BY <1>r, <1>t, RewriteHealthy
  <2>2. boot \in {"disk", "recovering"}
    BY <1>r, <1>t, <2>1 DEF SpoolFine, TypeOK, Boot
  <2>3. disk' = Rewritten(Pending)
    BY <1>r, <1>t, <2>1, <2>2, RewriteHealthy DEF HasSpool
  <2> QED
    BY <1>r, <2>2, <2>3 DEF SpoolFine, Rewritten
<1>1. ASSUME NEW t \in Threads, NEW p \in Payloads,
             RejectTooLarge(t, p) \/ \E priority \in Priority : EnqueueLock(t, p, priority)
      PROVE  SpoolFine'
  BY <1>1, <1>q DEF RejectTooLarge, EnqueueLock, bounds
<1>2. ASSUME NEW t \in Threads, EvictBulk(t) \/ RejectFull(t) \/ Push(t) \/ FlushDrain(t)
      PROVE  SpoolFine'
  BY <1>2, <1>q DEF EvictBulk, RejectFull, Push, FlushDrain, bounds
<1>3. ASSUME NEW t \in Threads, AppendSpool(t) PROVE SpoolFine'
  <2>1. faults = 0 /\ boot' = boot
    BY <1>3, <1>t DEF AppendSpool
  <2>2. \/ disk' = disk
        \/ boot = "disk" /\ \E i \in DOMAIN Pending : disk' = WholeLine(disk, Pending[i])
    BY <1>3, <1>t, <2>1 DEF AppendSpool, HasSpool, Asleep, Running
  <2>3. CASE disk' = disk
    BY <2>1, <2>3, <1>3, <1>q, <1>t DEF AppendSpool, SpoolFine
  <2>4. ASSUME boot = "disk", NEW i \in DOMAIN Pending, disk' = WholeLine(disk, Pending[i])
        PROVE  SpoolFine'
    <3>1. disk' = [disk EXCEPT !.lines = Append(@, Pending[i])] /\ disk.header
      BY <2>1, <2>4 DEF SpoolFine, WholeLine
    <3> QED
      BY <2>1, <2>4, <3>1, <1>t DEF SpoolFine, SpoolFile
  <2> QED
    BY <2>2, <2>3, <2>4
<1>4. ASSUME NEW t \in Threads, CompactSpool(t) \/ FlushTruncate(t) \/ Persist(t)
      PROVE  SpoolFine'
  <2>1. (\E replaced \in BOOLEAN : RewriteSpool(replaced)) /\ boot' = boot /\ boot # "down"
    BY <1>4 DEF CompactSpool, FlushTruncate, Persist, Asleep, Running
  <2> QED
    BY <2>1, <1>r
<1>5. CASE Crash
  <2>1. boot' = "down" /\ faults' = faults
    BY <1>5 DEF Crash
  <2>2. CASE disk' = disk
    BY <2>1, <2>2 DEF SpoolFine, IsEmptyFile
  <2>3. ASSUME NEW t \in Threads, NEW i \in DOMAIN Pending, pc[t] = "append", HasSpool,
               disk' \in PartLine(disk, Pending[i])
        PROVE  SpoolFine'
    <3>1. disk.header /\ ~disk.bad /\ disk.tail = "none"
      BY <2>1, <2>3 DEF SpoolFine, Asleep, Running, HasSpool
    <3> QED
      BY <2>1, <2>3, <3>1, <1>t DEF SpoolFine, PartLine, SpoolFile
  <2> QED
    BY <1>5, <2>2, <2>3 DEF Crash
<1>6. CASE Open \/ OpenFails
  <2>1. disk' = disk /\ faults = 0 /\ ~Refused(disk) /\ boot' = "recovering"
    BY <1>6, <1>t DEF Open, OpenFails, bounds, SpoolFine, Refused
  <2> QED
    BY <2>1 DEF SpoolFine, IsEmptyFile
<1>7. CASE RecoverItem
  BY <1>7, <1>q DEF RecoverItem, bounds
<1>8. CASE RecoverDone
  BY <1>8, <1>r DEF RecoverDone
<1>9. CASE UNCHANGED vars
  BY <1>9, <1>q DEF vars, bounds
<1> QED
  BY <1>1, <1>2, <1>3, <1>4, <1>5, <1>6, <1>7, <1>8, <1>9 DEF Next, ThreadStep

\* Crashes alone, wherever they cut a write, never leave a spool that
\* parse_spool refuses.
THEOREM SpoolAlwaysOpens == Spec => []SpoolOpens
<1>1. Init => SpoolFine
  BY SpoolFineInit
<1>2. Typed /\ Asleep /\ SpoolFine /\ [Next]_vars => SpoolFine'
  BY SpoolFineNext
<1>3. SpoolFine => SpoolOpens
  BY DEF SpoolFine, SpoolOpens, Refused
<1> QED
  BY <1>1, <1>2, <1>3, SizedAlways, PTL DEF Spec
--------------------------------------------------------------------------------
(***************************************************************************)
(* The control lane.  What one step may do to it.                          *)
(***************************************************************************)
ControlStep ==
  boot' # "down" /\ control' # control /\ stats'.flushed = stats.flushed
    => /\ Len(control') > Len(control)
       /\ SubSeq(control', 1, Len(control)) = control

\* push_back leaves what was in the lane where it was.
LEMMA AppendKeeps ==
  ASSUME NEW S, NEW s \in Seq(S), NEW x \in S
  PROVE  Len(Append(s, x)) > Len(s) /\ SubSeq(Append(s, x), 1, Len(s)) = s
<1>1. /\ Append(s, x) \in Seq(S) /\ Len(Append(s, x)) = Len(s) + 1 /\ Len(s) \in Nat
      /\ \A i \in 1..Len(s) : Append(s, x)[i] = s[i]
  BY SMTT(40)
<1>2. CASE s = <<>>
  BY <1>1, <1>2, SMTT(40)
<1>3. CASE s # <<>>
  <2> DEFINE u == SubSeq(Append(s, x), 1, Len(s))
  <2>1. u \in Seq(S) /\ Len(u) = Len(s) /\ \A i \in 1..Len(s) : u[i] = Append(s, x)[i]
    BY <1>1, <1>3, SMTT(40)
  <2> QED
    BY <1>1, <2>1, SeqEqual, SMTT(40)
<1> QED
  BY <1>2, <1>3

\* Only try_enqueue and open add to the control lane, and only flush and the
\* end of the process take from it.
LEMMA ControlStepNext == Typed /\ [Next]_vars => ControlStep
<1> SUFFICES ASSUME Typed, [Next]_vars, boot' # "down", control' # control,
                    stats'.flushed = stats.flushed
             PROVE  /\ Len(control') > Len(control)
                    /\ SubSeq(control', 1, Len(control)) = control
  BY DEF ControlStep
<1>t. /\ TypeOK /\ control \in Seq(QueuedItem) /\ bulk \in Seq(QueuedItem)
      /\ stats \in Stats /\ recovered \in Seq(QueuedItem)
  BY DEF Typed, TypeOK
<1>1. \/ \E t \in Threads : Push(t) \/ FlushDrain(t)
      \/ RecoverItem
  BY DEF Next, ThreadStep, RejectTooLarge, EnqueueLock, EvictBulk, RejectFull, AppendSpool,
     CompactSpool, FlushTruncate, Persist, Crash, Open, OpenFails, RecoverDone, vars, inner
<1>2. ASSUME NEW t \in Threads, Push(t) PROVE \E x \in QueuedItem : control' = Append(control, x)
  <2>1. [held[t][1] EXCEPT !.id = next_id] \in QueuedItem
    BY <1>2, <1>t, HeldItem DEF Push, Typed, TypeOK, QueuedItem
  <2> QED
    BY <1>2, <2>1 DEF Push
<1>3. ASSUME NEW t \in Threads, FlushDrain(t) PROVE FALSE
  <2>1. /\ control' = <<>> /\ stats' = [stats EXCEPT !.flushed = @ + pending_items]
    BY <1>3 DEF FlushDrain
  <2>2. pending_items \in Nat /\ pending_items >= 1
    BY <1>t, <2>1, SMTT(40) DEF pending_items
  <2>3. stats'.flushed = stats.flushed + pending_items /\ stats.flushed \in Nat
    BY <1>t, <2>1 DEF Stats
  <2> QED
    BY <2>2, <2>3, SMTT(40)
<1>4. CASE RecoverItem
  <2>1. Head(recovered) \in QueuedItem
    BY <1>4, <1>t, SMTT(40) DEF RecoverItem
  <2>2. control' = Append(control, Head(recovered))
    BY <1>4 DEF RecoverItem, inner
  <2> QED
    BY <1>t, <2>1, <2>2, AppendKeeps
<1> QED
  BY <1>1, <1>2, <1>3, <1>4, <1>t, AppendKeeps

\* While the process lives a control item leaves its lane only in a flush:
\* making room never evicts one and nothing is inserted before it.
THEOREM ControlNeverEvicted == Spec => ControlAppendOnly
<1>1. Spec => []Typed
  BY TypedInit, TypedNext, PTL DEF Spec
<1>2. Typed /\ [Next]_vars => [ControlStep]_vars
  BY ControlStepNext
<1> QED
  BY <1>1, <1>2, PTL DEF Spec, ControlAppendOnly, ControlStep
--------------------------------------------------------------------------------
(***************************************************************************)
(* The file holds what is pending.  Durable is not inductive: append_spool *)
(* looks its item up by id, and would write another one if ids were not    *)
(* unique among what the call can find.  They are unique only as far as    *)
(* the code needs: an id that recovery brings back may occur twice.        *)
(***************************************************************************)
Items(s) == {s[i] : i \in DOMAIN s}
Owing == {t \in Threads : pc[t] \in {"append", "compact"}}
Owed == {held[t][1] : t \in Owing}

IdsBelow == \A x \in Items(control) \union Items(bulk) : x.id < next_id
OwedById ==
  \A t \in Owing :
    /\ held[t][1].id < next_id
    /\ \A x \in Items(control) \union Items(bulk) : x.id = held[t][1].id => x = held[t][1]
OnFile ==
  boot = "disk" /\ stats.persist_errors = 0 =>
    /\ disk.header /\ ~disk.bad /\ disk.tail = "none"
    /\ Items(control) \union Items(bulk) \subseteq Items(disk.lines) \union Owed
Filed == IdsBelow /\ OwedById /\ OnFile

\* push_back adds one item.
LEMMA ItemsAppend ==
  ASSUME NEW s \in Seq(QueuedItem), NEW x
  PROVE  Items(Append(s, x)) = Items(s) \union {x}
<1>1. /\ DOMAIN Append(s, x) = 1..(Len(s) + 1) /\ DOMAIN s = 1..Len(s) /\ Len(s) \in Nat
      /\ \A i \in 1..Len(s) : Append(s, x)[i] = s[i]
      /\ Append(s, x)[Len(s) + 1] = x
  BY SMTT(40)
<1>2. \A i \in 1..(Len(s) + 1) : i \in 1..Len(s) \/ i = Len(s) + 1
  BY <1>1, SMTT(40)
<1>3. 1..Len(s) \subseteq 1..(Len(s) + 1) /\ Len(s) + 1 \in 1..(Len(s) + 1)
  BY <1>1, SMTT(40)
<1>4. Items(Append(s, x)) \subseteq Items(s) \union {x}
  BY <1>1, <1>2 DEF Items
<1>5. Items(s) \union {x} \subseteq Items(Append(s, x))
  BY <1>1, <1>3 DEF Items
<1> QED
  BY <1>4, <1>5

\* pop_front adds none.
LEMMA ItemsTail ==
  ASSUME NEW s \in Seq(QueuedItem), s # <<>>
  PROVE  Items(Tail(s)) \subseteq Items(s) /\ Head(s) \in Items(s)
<1>1. /\ DOMAIN Tail(s) = 1..(Len(s) - 1) /\ DOMAIN s = 1..Len(s) /\ Len(s) \in Nat
      /\ \A i \in 1..(Len(s) - 1) : Tail(s)[i] = s[i + 1]
      /\ Head(s) = s[1] /\ 1 \in 1..Len(s)
  BY SMTT(40)
<1>2. \A i \in 1..(Len(s) - 1) : i + 1 \in 1..Len(s)
  BY <1>1, SMTT(40)
<1> QED
  BY <1>1, <1>2, SMTT(40) DEF Items

\* rewrite_spool iterates over the items of both lanes.
LEMMA ItemsConcat ==
  ASSUME NEW s \in Seq(QueuedItem), NEW u \in Seq(QueuedItem)
  PROVE  Items(s \o u) = Items(s) \union Items(u)
<1>1. /\ DOMAIN (s \o u) = 1..(Len(s) + Len(u))
      /\ DOMAIN s = 1..Len(s) /\ DOMAIN u = 1..Len(u)
      /\ Len(s) \in Nat /\ Len(u) \in Nat
      /\ \A i \in 1..(Len(s) + Len(u)) :
           (s \o u)[i] = IF i <= Len(s) THEN s[i] ELSE u[i - Len(s)]
  BY SMTT(40)
<1>2. ASSUME NEW i \in DOMAIN (s \o u) PROVE (s \o u)[i] \in Items(s) \union Items(u)
  <2>1. CASE i <= Len(s)
    BY <1>1, <1>2, <2>1, SMTT(40) DEF Items
  <2>2. CASE ~(i <= Len(s))
    <3>1. i - Len(s) \in DOMAIN u /\ (s \o u)[i] = u[i - Len(s)]
      BY <1>1, <1>2, <2>2, SMTT(40)
    <3> QED
      BY <3>1 DEF Items
  <2> QED
    BY <2>1, <2>2
<1>3. ASSUME NEW i \in DOMAIN s PROVE s[i] \in Items(s \o u)
  <2>1. i \in DOMAIN (s \o u) /\ (s \o u)[i] = s[i]
    BY <1>1, <1>3, SMTT(40)
  <2> QED
    BY <2>1 DEF Items
<1>4. ASSUME NEW i \in DOMAIN u PROVE u[i] \in Items(s \o u)
  <2>1. i + Len(s) \in DOMAIN (s \o u) /\ (s \o u)[i + Len(s)] = u[i]
    BY <1>1, <1>4, SMTT(40)
  <2> QED
    BY <2>1 DEF Items
<1> QED
  BY <1>2, <1>3, <1>4 DEF Items

\* The items of an empty lane and of a single item.
LEMMA ItemsBasic == Items(<<>>) = {} /\ \A x : Items(<<x>>) = {x}
<1>1. \A x : DOMAIN <<x>> = {1} /\ <<x>>[1] = x
  BY SMTT(40)
<1> QED
  BY <1>1, SMTT(40) DEF Items

\* The items of a lane have ids and priorities.
LEMMA ItemsType ==
  ASSUME NEW s \in Seq(QueuedItem)
  PROVE  Items(s) \subseteq QueuedItem /\ \A x \in Items(s) : x.id \in Nat /\ x.priority \in Priority
<1>1. Items(s) \subseteq QueuedItem
  BY SMTT(40) DEF Items
<1> QED
  BY <1>1 DEF QueuedItem

\* Nothing is pending or owed at first.
LEMMA FiledInit == Init => Filed
BY ItemsBasic DEF Init, Filed, IdsBelow, OwedById, OnFile, Owing

\* Steps that only take items away, or write the file anew.
LEMMA FiledQuiet ==
  ASSUME Filed,
         next_id' = next_id,
         Items(control') \union Items(bulk') \subseteq Items(control) \union Items(bulk),
         \A t \in Owing' : t \in Owing /\ held'[t] = held[t],
         boot' = "disk" /\ stats'.persist_errors = 0 =>
           \/ /\ boot = "disk" /\ stats.persist_errors = 0
              /\ disk' = disk /\ Owing' = Owing
           \/ /\ disk'.header /\ ~disk'.bad /\ disk'.tail = "none"
              /\ Items(control') \union Items(bulk') \subseteq Items(disk'.lines)
  PROVE  Filed'
<1>1. IdsBelow' /\ OwedById'
  BY SMTT(40) DEF Filed, IdsBelow, OwedById, Owing
<1>2. Owing' = Owing => Owed' = Owed
  BY DEF Owed
<1>3. OnFile'
  BY <1>2 DEF Filed, OnFile
<1> QED
  BY <1>1, <1>3 DEF Filed

\* A rewrite that counts no persist error has written every pending item.
LEMMA RewriteFiles ==
  ASSUME TypeOK, NEW replaced \in BOOLEAN, RewriteSpool(replaced), boot \in {"disk", "recovering"}
  PROVE  /\ stats'.persist_errors = 0 =>
              /\ disk' = Rewritten(Pending)
              /\ disk'.header /\ ~disk'.bad /\ disk'.tail = "none"
              /\ Items(control) \union Items(bulk) \subseteq Items(disk'.lines)
<1>1. stats \in Stats /\ stats.persist_errors \in Nat
  BY DEF TypeOK, Stats
<1>2. ASSUME stats' = Bump(stats, "persist_errors") PROVE stats'.persist_errors # 0
  <2>1. stats'.persist_errors = stats.persist_errors + 1
    BY <1>1, <1>2 DEF Bump, Stats
  <2> QED
    BY <1>1, <2>1, SMTT(40)
<1>3. stats'.persist_errors = 0 => disk' = Rewritten(Pending)
  BY <1>2 DEF RewriteSpool, HasSpool
<1>4. Items(Pending) = Items(control) \union Items(bulk)
  BY ItemsConcat DEF TypeOK, Pending
<1> QED
  BY <1>3, <1>4, SMTT(40) DEF Rewritten

\* A call that returns owes nothing; what the others owe stays.
LEMMA ReturnOwing ==
  ASSUME Typed, NEW t \in Threads, Return(t)
  PROVE  /\ Owing' = Owing \ {t}
         /\ \A u \in Owing' : u \in Owing /\ held'[u] = held[u]
<1>1. pc \in [Threads -> CallState] /\ held \in [Threads -> Seq(QueuedItem)]
  BY DEF Typed, TypeOK
<1>2. /\ pc'[t] = "idle"
      /\ \A u \in Threads : u # t => pc'[u] = pc[u] /\ held'[u] = held[u]
  BY <1>1 DEF Return
<1> QED
  BY <1>2 DEF Owing

\* append_spool looks its item up by id and, when it counts no persist error,
\* has written the item of its own call.
LEMMA AppendWrites ==
  ASSUME Typed, OwedById, NEW t \in Threads, AppendSpool(t), boot = "disk",
         stats'.persist_errors = 0
  PROVE  /\ stats' = stats /\ faults' = faults
         /\ \E i \in DOMAIN Pending : disk' = WholeLine(disk, Pending[i]) /\ Pending[i] = held[t][1]
<1>1. stats \in Stats /\ stats.persist_errors \in Nat /\ t \in Owing
  BY DEF Typed, TypeOK, Stats, Owing, AppendSpool
<1>2. stats' # Bump(stats, "persist_errors")
  <2>1. stats' = Bump(stats, "persist_errors") => stats'.persist_errors = stats.persist_errors + 1
    BY <1>1 DEF Bump, Stats
  <2> QED
    BY <1>1, <2>1, SMTT(40)
<1>3. /\ stats' = stats /\ faults' = faults
      /\ \E i \in DOMAIN Pending :
           Pending[i].id = held[t][1].id /\ disk' = WholeLine(disk, Pending[i])
  BY <1>2 DEF AppendSpool, HasSpool
<1>4. Items(Pending) = Items(control) \union Items(bulk)
  BY ItemsConcat DEF Typed, TypeOK, Pending
<1>5. ASSUME NEW i \in DOMAIN Pending, Pending[i].id = held[t][1].id PROVE Pending[i] = held[t][1]
  <2>1. Pending[i] \in Items(Pending)
    BY DEF Items
  <2> QED
    BY <1>1, <1>4, <1>5, <2>1 DEF OwedById
<1> QED
  BY <1>3, <1>5

\* An item that enters a lane under a fresh id.
LEMMA FiledEnter ==
  ASSUME Typed, Filed, NEW item \in QueuedItem,
         \/ control' = Append(control, item) /\ bulk' = bulk
         \/ bulk' = Append(bulk, item) /\ control' = control,
         next_id' \in Nat, next_id <= next_id', item.id < next_id'
  PROVE  /\ Items(control') \union Items(bulk') = Items(control) \union Items(bulk) \union {item}
         /\ IdsBelow'
<1>1. control \in Seq(QueuedItem) /\ bulk \in Seq(QueuedItem) /\ next_id \in Nat
  BY DEF Typed, TypeOK
<1>2. Items(control') \union Items(bulk') = Items(control) \union Items(bulk) \union {item}
  <2>1. /\ Items(Append(control, item)) = Items(control) \union {item}
        /\ Items(Append(bulk, item)) = Items(bulk) \union {item}
    BY <1>1, ItemsAppend
  <2> QED
    BY <2>1
<1>3. \A x \in Items(control) \union Items(bulk) : x.id \in Nat /\ x.id < next_id
  BY <1>1, ItemsType DEF Filed, IdsBelow
<1>4. \A x \in Items(control) \union Items(bulk) \union {item} : x.id < next_id'
  BY <1>1, <1>3, SMTT(40)
<1> QED
  BY <1>2, <1>4 DEF IdsBelow

\* Between the push of an item and the write of its record other calls may
\* compact, truncate, append, evict or drain: a pending item is in the file or
\* its own call still has to write it.
LEMMA FiledNext == Typed /\ Asleep /\ Sized /\ Filed /\ [Next]_vars => Filed'
<1> SUFFICES ASSUME Typed, Asleep, Sized, Filed, [Next]_vars PROVE Filed'
  OBVIOUS
<1>t. /\ TypeOK /\ HoldsOne /\ control \in Seq(QueuedItem) /\ bulk \in Seq(QueuedItem)
      /\ recovered \in Seq(QueuedItem) /\ disk \in SpoolFile
      /\ pc \in [Threads -> CallState] /\ held \in [Threads -> Seq(QueuedItem)]
      /\ next_id \in Nat /\ stats \in Stats /\ stats.persist_errors \in Nat
  BY DEF Typed, TypeOK, Stats
<1>a. IdsBelow /\ OwedById /\ OnFile
  BY DEF Filed
<1>1. ASSUME NEW t \in Threads, NEW p \in Payloads, RejectTooLarge(t, p) PROVE Filed'
  <2>1. stats'.persist_errors = stats.persist_errors
    BY <1>1, <1>t DEF RejectTooLarge, Bump, Stats
  <2> QED
    BY <1>1, <2>1, FiledQuiet DEF RejectTooLarge, inner, calls, Owing
<1>2. ASSUME NEW t \in Threads, NEW p \in Payloads, NEW priority \in Priority,
             EnqueueLock(t, p, priority)
      PROVE Filed'
  <2>1. /\ UNCHANGED <<boot, control, bulk, next_id, disk, stats>>
        /\ pc[t] = "idle" /\ pc'[t] = "room"
        /\ \A u \in Threads : u # t => pc'[u] = pc[u] /\ held'[u] = held[u]
    BY <1>2, <1>t DEF EnqueueLock, inner
  <2>2. Owing' = Owing /\ \A u \in Owing : held'[u] = held[u]
    BY <2>1 DEF Owing
  <2> QED
    BY <2>1, <2>2, FiledQuiet
<1>3. ASSUME NEW t \in Threads, EvictBulk(t) PROVE Filed'
  <2>1. Items(bulk') \subseteq Items(bulk)
    BY <1>3, <1>t, ItemsTail DEF EvictBulk
  <2>2. stats'.persist_errors = stats.persist_errors
    BY <1>3, <1>t DEF EvictBulk, Bump, Stats
  <2>3. UNCHANGED <<boot, control, next_id, disk, pc, held>>
    BY <1>3 DEF EvictBulk
  <2>4. Owing' = Owing
    BY <2>3 DEF Owing
  <2>5. Owed' = Owed
    BY <2>3, <2>4 DEF Owed
  <2>6. IdsBelow' /\ OwedById'
    BY <1>a, <2>1, <2>3, <2>4 DEF IdsBelow, OwedById
  <2>7. OnFile'
    BY <1>a, <2>1, <2>2, <2>3, <2>5 DEF OnFile
  <2> QED
    BY <2>6, <2>7 DEF Filed
<1>4. ASSUME NEW t \in Threads, RejectFull(t) PROVE Filed'
  <2>1. stats'.persist_errors = stats.persist_errors
    BY <1>4, <1>t DEF RejectFull, Bump, Stats
  <2>2. UNCHANGED <<boot, control, bulk, next_id, disk>> /\ Return(t) /\ t \notin Owing
    BY <1>4 DEF RejectFull, inner, Owing
  <2>3. Owing' = Owing /\ \A u \in Owing : held'[u] = held[u]
    BY <2>2, ReturnOwing
  <2> QED
    BY <2>1, <2>2, <2>3, FiledQuiet
<1>5. ASSUME NEW t \in Threads, Push(t) PROVE Filed'
  <2> DEFINE item == [held[t][1] EXCEPT !.id = next_id]
  <2>1. item \in QueuedItem /\ item.id = next_id
    BY <1>5, <1>t, HeldItem DEF Push, Typed, TypeOK, QueuedItem
  <2>2. /\ UNCHANGED <<boot, disk>> /\ next_id' = next_id + 1
        /\ held' = [held EXCEPT ![t] = <<item>>]
        /\ \/ control' = Append(control, item) /\ bulk' = bulk
           \/ bulk' = Append(bulk, item) /\ control' = control
        /\ stats' = Bump(stats, "enqueued")
    BY <1>5 DEF Push
  <2>3. /\ pc'[t] \in {"append", "compact"}
        /\ \A u \in Threads : u # t => pc'[u] = pc[u]
    BY <1>5, <1>t DEF Push
  <2>4. held'[t] = <<item>> /\ \A u \in Threads : u # t => held'[u] = held[u]
    BY <2>2, <1>t
  <2> HIDE DEF item
  <2>5. <<item>>[1] = item
    OBVIOUS
  <2>6. pc[t] = "room"
    BY <1>5 DEF Push
  <2>7. Owing' = Owing \union {t} /\ t \notin Owing
    BY <2>3, <2>6 DEF Owing
  <2>8. Owed' = Owed \union {item}
    <3>1. held'[t][1] = item /\ \A u \in Owing : u # t /\ held'[u][1] = held[u][1]
      BY <2>4, <2>5, <2>7 DEF Owing
    <3>2. Owed' = {held'[u][1] : u \in Owing \union {t}}
      BY <2>7 DEF Owed
    <3> QED
      BY <3>1, <3>2, SMTT(40) DEF Owed
  <2>9. /\ Items(control') \union Items(bulk') = Items(control) \union Items(bulk) \union {item}
        /\ IdsBelow'
    <3>1. next_id' \in Nat /\ next_id <= next_id' /\ item.id < next_id'
      BY <1>t, <2>1, <2>2, SMTT(40)
    <3> QED
      BY <2>1, <2>2, <3>1, FiledEnter
  <2>10. OwedById'
    <3>1. ASSUME NEW u \in Owing', NEW x \in Items(control') \union Items(bulk')
          PROVE  held'[u][1].id < next_id' /\ (x.id = held'[u][1].id => x = held'[u][1])
      <4>1. CASE u = t
        <5>1. x \in Items(control) \union Items(bulk) => x.id < next_id /\ x.id \in Nat
          BY <1>t, <1>a, ItemsType DEF IdsBelow
        <5> QED
          BY <1>t, <2>1, <2>2, <2>4, <2>5, <2>9, <3>1, <4>1, <5>1, SMTT(40)
      <4>2. CASE u # t
        <5>1. u \in Owing /\ held'[u] = held[u]
          BY <2>4, <2>7, <3>1, <4>2 DEF Owing
        <5>2. held[u][1] \in QueuedItem /\ held[u][1].id \in Nat
          BY <5>1, HeldItem DEF Owing, QueuedItem
        <5>3. held[u][1].id < next_id
          BY <5>1, <1>a DEF OwedById
        <5>4. CASE x = item
          BY <1>t, <2>1, <2>2, <5>1, <5>2, <5>3, <5>4, SMTT(40)
        <5>5. CASE x # item
          BY <1>t, <1>a, <2>2, <2>9, <3>1, <5>1, <5>2, <5>3, <5>5, SMTT(40) DEF OwedById
        <5> QED
          BY <5>4, <5>5
      <4> QED
        BY <4>1, <4>2
    <3>2. item \in Items(control') \union Items(bulk')
      BY <2>9
    <3> QED
      BY <3>1, <3>2 DEF OwedById
  <2>11. stats'.persist_errors = stats.persist_errors
    BY <1>t, <2>2 DEF Bump, Stats
  <2>12. OnFile'
    BY <1>a, <2>2, <2>8, <2>9, <2>11 DEF OnFile
  <2> QED
    BY <2>9, <2>10, <2>12 DEF Filed
<1>6. ASSUME NEW t \in Threads, AppendSpool(t) PROVE Filed'
  <2>1. UNCHANGED <<boot, control, bulk, next_id>> /\ Return(t) /\ t \in Owing
    BY <1>6 DEF AppendSpool, inner, Owing
  <2>2. Owing' = Owing \ {t} /\ \A u \in Owing' : u \in Owing /\ held'[u] = held[u]
    BY <2>1, ReturnOwing
  <2>3. IdsBelow' /\ OwedById'
    BY <1>a, <2>1, <2>2, SMTT(40) DEF IdsBelow, OwedById
  <2>4. OnFile'
    <3> SUFFICES ASSUME boot = "disk", stats'.persist_errors = 0
                 PROVE  /\ disk'.header /\ ~disk'.bad /\ disk'.tail = "none"
                        /\ Items(control) \union Items(bulk) \subseteq Items(disk'.lines) \union Owed'
      BY <2>1 DEF OnFile
    <3>1. stats' = stats /\ \E i \in DOMAIN Pending : disk' = WholeLine(disk, Pending[i])
                           /\ Pending[i] = held[t][1]
      BY <1>6, <1>a, AppendWrites
    <3>3. /\ disk.header /\ ~disk.bad /\ disk.tail = "none"
          /\ Items(control) \union Items(bulk) \subseteq Items(disk.lines) \union Owed
      BY <1>a, <3>1 DEF OnFile
    <3>6. /\ disk'.header /\ ~disk'.bad /\ disk'.tail = "none"
          /\ disk'.lines = Append(disk.lines, held[t][1])
      BY <1>t, <3>1, <3>3 DEF WholeLine, SpoolFile
    <3>7. Items(disk'.lines) = Items(disk.lines) \union {held[t][1]}
      BY <1>t, <3>6, ItemsAppend DEF SpoolFile
    <3>8. Owed \subseteq Owed' \union {held[t][1]}
      BY <2>2, SMTT(40) DEF Owed
    <3> QED
      BY <3>3, <3>6, <3>7, <3>8
  <2> QED
    BY <2>3, <2>4 DEF Filed
<1>r. ASSUME NEW replaced \in BOOLEAN, RewriteSpool(replaced),
             UNCHANGED <<control, bulk, next_id>>,
             boot # "down", boot = "memory" => boot' # "disk",
             \A t \in Owing' : t \in Owing /\ held'[t] = held[t]
      PROVE  Filed'
  <2>1. boot' = "disk" /\ stats'.persist_errors = 0 =>
          /\ disk'.header /\ ~disk'.bad /\ disk'.tail = "none"
          /\ Items(control) \union Items(bulk) \subseteq Items(disk'.lines)
    BY <1>r, <1>t, RewriteFiles DEF TypeOK, Boot
  <2> QED
    BY <1>r, <2>1, FiledQuiet
<1>7. ASSUME NEW t \in Threads, CompactSpool(t) PROVE Filed'
  <2>1. /\ UNCHANGED <<boot, control, bulk, next_id>> /\ Return(t) /\ boot # "down"
        /\ \E replaced \in BOOLEAN : RewriteSpool(replaced)
    BY <1>7 DEF CompactSpool, inner, Asleep, Running
  <2> QED
    BY <2>1, <1>r, ReturnOwing
<1>8. ASSUME NEW t \in Threads, FlushDrain(t) PROVE Filed'
  <2>1. /\ control' = <<>> /\ bulk' = <<>> /\ UNCHANGED <<boot, next_id, disk>>
        /\ stats' = [stats EXCEPT !.flushed = @ + pending_items]
        /\ pc[t] = "idle" /\ pc'[t] = "truncate"
        /\ \A u \in Threads : u # t => pc'[u] = pc[u] /\ held'[u] = held[u]
    BY <1>8, <1>t DEF FlushDrain
  <2>2. Owing' = Owing /\ \A u \in Owing : held'[u] = held[u]
    BY <2>1 DEF Owing
  <2>3. stats'.persist_errors = stats.persist_errors
    BY <1>t, <2>1 DEF Stats
  <2>4. Items(control') = {} /\ Items(bulk') = {}
    BY <2>1, ItemsBasic
  <2> QED
    BY <2>1, <2>2, <2>3, <2>4, FiledQuiet
<1>9. ASSUME NEW t \in Threads, FlushTruncate(t) PROVE Filed'
  <2>1. /\ UNCHANGED <<boot, control, bulk, next_id>> /\ Return(t) /\ boot # "down"
        /\ \E replaced \in BOOLEAN : RewriteSpool(replaced)
    BY <1>9 DEF FlushTruncate, inner, Asleep, Running
  <2> QED
    BY <2>1, <1>r, ReturnOwing
<1>10. ASSUME NEW t \in Threads, Persist(t) PROVE Filed'
  <2>1. /\ UNCHANGED <<boot, control, bulk, next_id, pc, held>> /\ boot # "down"
        /\ \E replaced \in BOOLEAN : RewriteSpool(replaced)
    BY <1>10 DEF Persist, inner, calls, Running
  <2> QED
    BY <2>1, <1>r DEF Owing
<1>11. CASE Crash
  <2>1. /\ boot' = "down" /\ control' = <<>> /\ bulk' = <<>>
        /\ \A u \in Threads : pc'[u] = "idle"
    BY <1>11 DEF Crash, EmptyInner
  <2> QED
    BY <2>1, ItemsBasic DEF Filed, IdsBelow, OwedById, OnFile, Owing
<1>12. CASE Open \/ OpenFails
  <2>1. boot' # "disk" /\ UNCHANGED <<control, bulk, next_id, pc, held>>
    BY <1>12 DEF Open, OpenFails, inner, calls
  <2> QED
    BY <2>1, FiledQuiet DEF Owing
<1>13. CASE RecoverItem
  <2> DEFINE item == Head(recovered)
  <2>1. /\ boot' = "recovering" /\ UNCHANGED <<pc, held>> /\ item \in QueuedItem
        /\ \A u \in Threads : pc[u] = "idle"
    BY <1>13, <1>t, SMTT(40) DEF RecoverItem, calls, Asleep, Running
  <2>2. Owing' = {} /\ OnFile'
    BY <2>1 DEF Owing, OnFile
  <2>3. \/ control' = control /\ bulk' = bulk /\ next_id' = next_id
        \/ /\ next_id' = IF next_id >= item.id + 1 THEN next_id ELSE item.id + 1
           /\ \/ control' = Append(control, item) /\ bulk' = bulk
              \/ bulk' = Append(bulk, item) /\ control' = control
    BY <1>13 DEF RecoverItem, inner
  <2>4. item.id \in Nat
    BY <2>1 DEF QueuedItem
  <2> HIDE DEF item
  <2>5. CASE control' = control /\ bulk' = bulk /\ next_id' = next_id
    BY <1>a, <2>2, <2>5 DEF Filed, IdsBelow, OwedById
  <2>6. CASE ~(control' = control /\ bulk' = bulk /\ next_id' = next_id)
    <3>1. next_id' \in Nat /\ next_id <= next_id' /\ item.id < next_id'
      BY <1>t, <2>3, <2>4, <2>6, SMTT(40)
    <3>2. IdsBelow'
      BY <2>1, <2>3, <2>6, <3>1, FiledEnter
    <3> QED
      BY <2>2, <3>2 DEF Filed, OwedById
  <2> QED
    BY <2>5, <2>6
<1>14. CASE RecoverDone
  <2>1. /\ UNCHANGED <<control, bulk, next_id, pc, held>> /\ boot = "recovering"
        /\ \E replaced \in BOOLEAN : RewriteSpool(replaced)
    BY <1>14 DEF RecoverDone, inner, calls
  <2> QED
    BY <2>1, <1>r DEF Owing
<1>15. CASE UNCHANGED vars
  BY <1>15, FiledQuiet DEF vars, inner, calls, Owing
<1> QED
  BY <1>1, <1>2, <1>3, <1>4, <1>5, <1>6, <1>7, <1>8, <1>9, <1>10, <1>11, <1>12,
     <1>13, <1>14, <1>15 DEF Next, ThreadStep

\* While no disk error is counted, every pending item is in a well-formed file
\* or its call is about to write it, however calls, crashes and recoveries
\* interleave.
THEOREM PendingIsDurable == Spec => []Durable
<1>1. Init => Filed
  BY FiledInit
<1>2. Typed /\ Asleep /\ Sized /\ Filed /\ [Next]_vars => Filed'
  BY FiledNext
<1>3. Typed /\ Filed => Durable
  <2> SUFFICES ASSUME Typed, Filed, boot = "disk", stats.persist_errors = 0,
                      NEW i \in DOMAIN Pending
               PROVE  /\ disk.header /\ ~disk.bad /\ disk.tail = "none"
                      /\ In(Pending[i], disk.lines) \/ \E t \in Threads : Owes(t, Pending[i])
    BY DEF Durable, Filed, OnFile
  <2>1. Items(Pending) = Items(control) \union Items(bulk) /\ Pending[i] \in Items(Pending)
    <3>1. Items(Pending) = Items(control) \union Items(bulk)
      BY ItemsConcat DEF Typed, TypeOK, Pending
    <3> QED
      BY <3>1 DEF Items
  <2>2. CASE Pending[i] \in Items(disk.lines)
    BY <2>2 DEF Filed, OnFile, Items, In
  <2>3. CASE Pending[i] \in Owed
    <3>1. PICK t \in Owing : Pending[i] = held[t][1]
      BY <2>3 DEF Owed
    <3>2. held[t] \in Seq(QueuedItem) /\ Len(held[t]) = 1
      BY DEF Typed, TypeOK, HoldsOne, Owing
    <3>3. held[t] = <<Pending[i]>>
      BY <3>1, <3>2, SMTT(40)
    <3> QED
      BY <3>3 DEF Filed, OnFile, Owes, Owing
  <2> QED
    BY <2>1, <2>2, <2>3 DEF Filed, OnFile
<1> QED
  BY <1>1, <1>2, <1>3, SizedAlways, PTL DEF Spec
--------------------------------------------------------------------------------
(***************************************************************************)
(* The file holds nothing else.  While a flush is between draining the     *)
(* lanes and truncating the file, the file still holds what it drained;    *)
(* NoStray allows for that and is inductive.                               *)
(***************************************************************************)
NoStray ==
  boot = "disk" /\ stats.persist_errors = 0 =>
    \A x \in OnDisk :
      \/ x \in Mem \union evicted
      \/ \E t \in Threads : pc[t] = "truncate" /\ x \in Data(held[t])

\* An eviction takes the first payload of the lane and leaves the others.
LEMMA DataSplit ==
  ASSUME NEW s \in Seq(QueuedItem), s # <<>>
  PROVE  Data(s) \subseteq Data(Tail(s)) \union {Head(s).data}
<1>1. /\ DOMAIN Tail(s) = 1..(Len(s) - 1) /\ DOMAIN s = 1..Len(s) /\ Len(s) \in Nat
      /\ \A i \in 1..(Len(s) - 1) : Tail(s)[i] = s[i + 1]
      /\ Head(s) = s[1]
  BY SMTT(40)
<1>2. ASSUME NEW i \in DOMAIN s PROVE s[i].data \in Data(Tail(s)) \union {Head(s).data}
  <2>1. i = 1 \/ (i - 1 \in DOMAIN Tail(s) /\ Tail(s)[i - 1] = s[i])
    BY <1>1, SMTT(40)
  <2> QED
    BY <1>1, <2>1 DEF Data
<1> QED
  BY <1>2 DEF Data

\* A call never takes back a persist error that was counted.
LEMMA ErrorsStay ==
  ASSUME TypeOK,
         \/ stats' = stats
         \/ \E f \in Counter : stats' = Bump(stats, f)
         \/ \E n \in Nat : stats' = [stats EXCEPT !.flushed = @ + n],
         stats'.persist_errors = 0
  PROVE  stats.persist_errors = 0
<1>1. stats \in Stats /\ stats.persist_errors \in Nat
  BY DEF TypeOK, Stats
<1>2. CASE stats' = stats
  BY <1>2
<1>3. ASSUME NEW f \in Counter, stats' = Bump(stats, f)
      PROVE  stats'.persist_errors \in {stats.persist_errors, stats.persist_errors + 1}
  BY <1>1, <1>3, SMTT(40) DEF Stats, Bump, Counter
<1>4. ASSUME NEW n \in Nat, stats' = [stats EXCEPT !.flushed = @ + n]
      PROVE  stats'.persist_errors = stats.persist_errors
  BY <1>1, <1>4 DEF Stats
<1>5. stats.persist_errors + 1 # 0
  BY <1>1, SMTT(40)
<1> QED
  BY <1>2, <1>3, <1>4, <1>5

\* Steps that take from memory only what they evict, and write only what is pending.
LEMMA StrayQuiet ==
  ASSUME NoStray,
         boot' = "disk" /\ stats'.persist_errors = 0 => boot = "disk" /\ stats.persist_errors = 0,
         evicted \subseteq evicted', Mem \subseteq Mem' \union evicted',
         OnDisk' \subseteq OnDisk \union Mem',
         \A u \in Threads : pc[u] = "truncate" => pc'[u] = "truncate" /\ held'[u] = held[u]
  PROVE  NoStray'
BY DEF NoStray

\* A step that writes just what is pending, or counts an error.
LEMMA StrayRewritten ==
  ASSUME boot' = "disk" /\ stats'.persist_errors = 0 => OnDisk' \subseteq Mem'
  PROVE  NoStray'
BY DEF NoStray

\* Every step keeps the file free of anything else.
LEMMA NoStrayNext == Typed /\ Asleep /\ NoStray /\ [Next]_vars => NoStray'
<1> SUFFICES ASSUME Typed, Asleep, NoStray, [Next]_vars PROVE NoStray'
  OBVIOUS
<1>t. /\ TypeOK /\ bulk \in Seq(QueuedItem) /\ control \in Seq(QueuedItem)
      /\ disk \in SpoolFile
      /\ pc \in [Threads -> CallState] /\ held \in [Threads -> Seq(QueuedItem)]
  BY DEF Typed, TypeOK
<1>c. {"rejected", "evicted", "enqueued", "recovered", "persist_errors"} \subseteq Counter
  BY DEF Counter
<1>d. ASSUME NEW t \in Threads, Return(t), pc[t] # "truncate"
      PROVE  \A u \in Threads : pc[u] = "truncate" => pc'[u] = "truncate" /\ held'[u] = held[u]
  BY <1>d, <1>t DEF Return
<1>r. ASSUME NEW replaced \in BOOLEAN, RewriteSpool(replaced), boot \in {"disk", "recovering"},
             UNCHANGED <<control, bulk>>
      PROVE  NoStray'
  <2>1. stats'.persist_errors = 0 => disk' = Rewritten(Pending)
    BY <1>r, <1>t, RewriteFiles
  <2>2. Mem' = Mem /\ Data(Pending) = Mem
    BY <1>r, <1>t, DataPending DEF Mem
  <2>3. ASSUME stats'.persist_errors = 0 PROVE OnDisk' = Mem'
    <3>1. Rewritten(Pending).lines = Pending
      BY DEF Rewritten
    <3> QED
      BY <2>1, <2>2, <2>3, <3>1 DEF OnDisk
  <2> QED
    BY <2>3, StrayRewritten
<1>1. ASSUME NEW t \in Threads, NEW p \in Payloads, RejectTooLarge(t, p) PROVE NoStray'
  <2>1. UNCHANGED <<boot, evicted, control, bulk, disk, pc, held>> /\ stats' = Bump(stats, "rejected")
    BY <1>1 DEF RejectTooLarge, inner, calls
  <2>2. stats'.persist_errors = 0 => stats.persist_errors = 0
    BY <2>1, <1>t, <1>c, ErrorsStay
  <2>3. Mem' = Mem /\ OnDisk' = OnDisk
    BY <2>1 DEF Mem, OnDisk
  <2> QED
    BY <2>1, <2>2, <2>3, StrayQuiet
<1>2. ASSUME NEW t \in Threads, NEW p \in Payloads, NEW priority \in Priority,
             EnqueueLock(t, p, priority)
      PROVE NoStray'
  <2>1. /\ UNCHANGED <<boot, stats, evicted, control, bulk, disk>> /\ pc[t] = "idle"
        /\ \A u \in Threads : u # t => pc'[u] = pc[u] /\ held'[u] = held[u]
    BY <1>2, <1>t DEF EnqueueLock, inner
  <2>2. Mem' = Mem /\ OnDisk' = OnDisk
    BY <2>1 DEF Mem, OnDisk
  <2>3. \A u \in Threads : pc[u] = "truncate" => pc'[u] = "truncate" /\ held'[u] = held[u]
    BY <2>1
  <2> QED
    BY <2>1, <2>2, <2>3, StrayQuiet
<1>3. ASSUME NEW t \in Threads, EvictBulk(t) PROVE NoStray'
  <2>1. /\ UNCHANGED <<boot, control, disk, pc, held>> /\ stats' = Bump(stats, "evicted")
        /\ bulk # <<>> /\ bulk' = Tail(bulk) /\ evicted' = evicted \union {Head(bulk).data}
    BY <1>3 DEF EvictBulk
  <2>2. stats'.persist_errors = 0 => stats.persist_errors = 0
    BY <2>1, <1>t, <1>c, ErrorsStay
  <2>3. Data(bulk) \subseteq Data(Tail(bulk)) \union {Head(bulk).data}
    BY <2>1, <1>t, DataSplit
  <2>4. Mem \subseteq Mem' \union evicted' /\ OnDisk' = OnDisk
    BY <2>1, <2>3 DEF Mem, OnDisk
  <2> QED
    BY <2>1, <2>2, <2>4, StrayQuiet
<1>4. ASSUME NEW t \in Threads, RejectFull(t) PROVE NoStray'
  <2>1. /\ UNCHANGED <<boot, evicted, control, bulk, disk>> /\ stats' = Bump(stats, "rejected")
        /\ pc[t] = "room" /\ Return(t)
    BY <1>4 DEF RejectFull, inner, history
  <2>2. stats'.persist_errors = 0 => stats.persist_errors = 0
    BY <2>1, <1>t, <1>c, ErrorsStay
  <2>3. Mem' = Mem /\ OnDisk' = OnDisk
    BY <2>1 DEF Mem, OnDisk
  <2>4. \A u \in Threads : pc[u] = "truncate" => pc'[u] = "truncate" /\ held'[u] = held[u]
    BY <2>1, <1>d
  <2> QED
    BY <2>1, <2>2, <2>3, <2>4, StrayQuiet
<1>5. ASSUME NEW t \in Threads, Push(t) PROVE NoStray'
  <2> DEFINE item == [held[t][1] EXCEPT !.id = next_id]
  <2>1. /\ UNCHANGED <<boot, evicted, disk>> /\ stats' = Bump(stats, "enqueued") /\ pc[t] = "room"
        /\ \/ control' = Append(control, item) /\ UNCHANGED bulk
           \/ bulk' = Append(bulk, item) /\ UNCHANGED control
        /\ \A u \in Threads : u # t => pc'[u] = pc[u] /\ held'[u] = held[u]
    BY <1>5, <1>t DEF Push, history
  <2>2. stats'.persist_errors = 0 => stats.persist_errors = 0
    BY <2>1, <1>t, <1>c, ErrorsStay
  <2>3. item \in QueuedItem
    BY <1>5, <1>t, HeldItem DEF Push, Typed, TypeOK, QueuedItem
  <2> HIDE DEF item
  <2>4. Mem \subseteq Mem' /\ OnDisk' = OnDisk
    <3>1. /\ Data(Append(control, item)) = Data(control) \union {item.data}
          /\ Data(Append(bulk, item)) = Data(bulk) \union {item.data}
      BY <1>t, <2>3, DataAppend
    <3> QED
      BY <2>1, <3>1 DEF Mem, OnDisk
  <2>5. \A u \in Threads : pc[u] = "truncate" => pc'[u] = "truncate" /\ held'[u] = held[u]
    BY <2>1
  <2> QED
    BY <2>1, <2>2, <2>4, <2>5, StrayQuiet
<1>6. ASSUME NEW t \in Threads, AppendSpool(t) PROVE NoStray'
  <2>1. /\ UNCHANGED <<boot, evicted, control, bulk>> /\ Return(t) /\ pc[t] = "append"
        /\ (stats' = stats \/ stats' = Bump(stats, "persist_errors"))
    BY <1>6 DEF AppendSpool, inner
  <2>2. stats'.persist_errors = 0 => stats.persist_errors = 0
    BY <2>1, <1>t, <1>c, ErrorsStay
  <2>3. \/ disk' = disk
        \/ \E i \in DOMAIN Pending : disk' \in {WholeLine(disk, Pending[i])} \union PartLine(disk, Pending[i])
    BY <1>6 DEF AppendSpool
  <2>4. Mem' = Mem
    BY <2>1 DEF Mem
  <2>5. ASSUME NEW i \in DOMAIN Pending
        PROVE  \A e \in {WholeLine(disk, Pending[i])} \union PartLine(disk, Pending[i]) :
                 Data(e.lines) \subseteq OnDisk \union Mem
    <3>1. Pending[i] \in QueuedItem /\ Pending[i].data \in Mem
      <4>1. Pending \in Seq(QueuedItem)
        BY <1>t, PendingType
      <4>2. Pending[i] \in QueuedItem
        BY <4>1, SMTT(40)
      <4> QED
        BY <1>t, <4>2, DataPending, DataMember
    <3>2. /\ Data(WholeLine(disk, Pending[i]).lines) \subseteq Data(disk.lines) \union {Pending[i].data}
          /\ \A e \in PartLine(disk, Pending[i]) :
               Data(e.lines) \subseteq Data(disk.lines) \union {Pending[i].data}
      BY <1>t, <3>1, LineData
    <3> QED
      BY <3>1, <3>2 DEF OnDisk
  <2>6. OnDisk' \subseteq OnDisk \union Mem'
    BY <2>3, <2>4, <2>5 DEF OnDisk
  <2>7. \A u \in Threads : pc[u] = "truncate" => pc'[u] = "truncate" /\ held'[u] = held[u]
    BY <2>1, <1>d
  <2> QED
    BY <2>1, <2>2, <2>4, <2>6, <2>7, StrayQuiet
<1>w. ASSUME NEW replaced \in BOOLEAN, RewriteSpool(replaced), UNCHANGED <<boot, control, bulk>>
      PROVE  NoStray'
  <2>1. CASE boot \in {"disk", "recovering"}
    BY <1>w, <1>r, <2>1
  <2>2. CASE boot \notin {"disk", "recovering"}
    BY <1>w, <2>2, StrayRewritten
  <2> QED
    BY <2>1, <2>2
<1>7. ASSUME NEW t \in Threads, CompactSpool(t) PROVE NoStray'
  BY <1>7, <1>w DEF CompactSpool, inner
<1>8. ASSUME NEW t \in Threads, FlushDrain(t) PROVE NoStray'
  <2>1. /\ UNCHANGED <<boot, evicted, disk>> /\ pc[t] = "idle" /\ held'[t] = Pending /\ pc'[t] = "truncate"
        /\ \A u \in Threads : u # t => pc'[u] = pc[u] /\ held'[u] = held[u]
        /\ stats' = [stats EXCEPT !.flushed = @ + pending_items]
    BY <1>8, <1>t DEF FlushDrain, history
  <2>2. pending_items \in Nat
    BY <1>t, SMTT(40) DEF pending_items
  <2>3. stats'.persist_errors = 0 => stats.persist_errors = 0
    BY <2>1, <2>2, <1>t, ErrorsStay
  <2>4. Data(held'[t]) = Mem /\ OnDisk' = OnDisk
    BY <2>1, <1>t, DataPending DEF OnDisk
  <2>5. \A u \in Threads : pc[u] = "truncate" => pc'[u] = "truncate" /\ held'[u] = held[u]
    BY <2>1
  <2> QED
    BY <2>1, <2>3, <2>4, <2>5 DEF NoStray
<1>9. ASSUME NEW t \in Threads, FlushTruncate(t) PROVE NoStray'
  BY <1>9, <1>w DEF FlushTruncate, inner
<1>10. ASSUME NEW t \in Threads, Persist(t) PROVE NoStray'
  BY <1>10, <1>w DEF Persist, inner
<1>11. CASE Crash \/ Open \/ OpenFails
  <2>1. boot' # "disk"
    BY <1>11 DEF Crash, Open, OpenFails
  <2> QED
    BY <2>1, StrayRewritten
<1>12. CASE RecoverItem
  <2>1. boot' # "disk"
    BY <1>12 DEF RecoverItem
  <2> QED
    BY <2>1, StrayRewritten
<1>13. CASE RecoverDone
  BY <1>13, <1>r DEF RecoverDone, inner
<1>14. CASE UNCHANGED vars
  <2>1. UNCHANGED <<boot, stats, evicted, control, bulk, disk, pc, held>>
    BY <1>14 DEF vars, inner, calls, history
  <2>2. Mem' = Mem /\ OnDisk' = OnDisk
    BY <2>1 DEF Mem, OnDisk
  <2> QED
    BY <2>1, <2>2, StrayQuiet
<1> QED
  BY <1>1, <1>2, <1>3, <1>4, <1>5, <1>6, <1>7, <1>8, <1>9, <1>10, <1>11, <1>12, <1>13, <1>14
     DEF Next, ThreadStep

\* Between calls, and while no disk error is counted, the file holds what is
\* pending and otherwise only what was evicted: for any threads, limits and
\* policy, whatever the calls wrote and rewrote in between.
THEOREM DiskMatchesMemory == Spec => []DiskAgrees
<1>1. Init => NoStray
  BY DEF Init, NoStray
<1>2. Typed /\ Asleep /\ NoStray /\ [Next]_vars => NoStray'
  BY NoStrayNext
<1>3. Typed /\ NoStray /\ Durable => DiskAgrees
  <2> SUFFICES ASSUME Typed, NoStray, Durable, boot = "disk", stats.persist_errors = 0, Quiet
               PROVE  /\ Data(Pending) \subseteq Data(disk.lines)
                      /\ Data(disk.lines) \subseteq Data(Pending) \union evicted
    BY DEF DiskAgrees
  <2>1. Data(Pending) = Mem
    BY DataPending DEF Typed
  <2>2. Data(disk.lines) \subseteq Data(Pending) \union evicted
    BY <2>1 DEF NoStray, Quiet, OnDisk
  <2>3. ASSUME NEW i \in DOMAIN Pending PROVE Pending[i].data \in Data(disk.lines)
    <3>1. In(Pending[i], disk.lines)
      BY DEF Durable, Owes, Quiet
    <3> QED
      BY <3>1 DEF In, Data
  <2> QED
    BY <2>2, <2>3 DEF Data
<1> QED
  BY <1>1, <1>2, <1>3, SizedAlways, PendingIsDurable, PTL DEF Spec
--------------------------------------------------------------------------------
(***************************************************************************)
(* The bytes of the lanes.                                                 *)
(***************************************************************************)
\* The bytes counted along a sequence of payloads.
CountsBytes(g, s) ==
  /\ g \in [0..Len(s) -> Nat] /\ g[0] = 0
  /\ \A i \in 1..Len(s) : g[i] = g[i - 1] + Size[s[i]]

\* Bytes counts them.
LEMMA BytesCounts ==
  ASSUME NEW s \in Seq(Payloads)
  PROVE  \E g : CountsBytes(g, s) /\ Bytes(s) = g[Len(s)]
<1> USE SizeAssumption
<1> DEFINE n == Len(s)
           step == [c \in Nat \X (1..n) |-> c[1] + Size[s[c[2]]]]
           IsUpTo(g) == g = [i \in 0..n |-> IF i = 0 THEN 0 ELSE g[i - 1] + Size[s[i]]]
           upTo == CHOOSE g : IsUpTo(g)
<1>1. n \in Nat /\ \A i \in 1..n : s[i] \in Payloads /\ Size[s[i]] \in Nat
  BY SMTT(40)
<1>2. IsStep(step, Nat, n)
  BY <1>1, SMTT(40) DEF IsStep
<1>3. PICK g : IsFold(g, Nat, 0, n, step)
  <2> HIDE DEF step, n
  <2> QED
    BY <1>1, <1>2, FoldExists
<1> USE DEF IsFold
<1>4. ASSUME NEW i \in 1..n PROVE i - 1 \in 0..n /\ g[i] = g[i - 1] + Size[s[i]]
  <2>1. i - 1 \in 0..n
    BY <1>1, SMTT(40)
  <2>2. <<g[i - 1], i>> \in Nat \X (1..n)
    BY <1>3, <2>1
  <2>3. g[i] = step[<<g[i - 1], i>>]
    BY <1>3
  <2>4. step[<<g[i - 1], i>>] = g[i - 1] + Size[s[i]]
    BY <2>2
  <2> QED
    BY <2>1, <2>3, <2>4
<1>5. IsUpTo(g)
  <2>1. \A i \in 0..n : g[i] = IF i = 0 THEN 0 ELSE g[i - 1] + Size[s[i]]
    BY <1>1, <1>3, <1>4, SMTT(40)
  <2> QED
    BY <1>3, <2>1
<1>6. IsUpTo(upTo)
  BY <1>5
<1>7. Bytes(s) = upTo[n]
  BY DEF Bytes
<1>8. DOMAIN upTo = 0..n /\ \A i \in 0..n : upTo[i] = IF i = 0 THEN 0 ELSE upTo[i - 1] + Size[s[i]]
  BY <1>6
<1> HIDE DEF upTo, n
<1>9. upTo = g
  <2> DEFINE T == {k \in Nat : k <= n => upTo[k] = g[k]}
  <2>1. 0 \in T
    BY <1>1, <1>3, <1>8, SMTT(40)
  <2>2. ASSUME NEW k \in Nat, k \in T PROVE k + 1 \in T
    <3> SUFFICES ASSUME k + 1 <= n PROVE upTo[k + 1] = g[k + 1]
      BY SMTT(40)
    <3>1. k + 1 \in 1..n /\ k + 1 \in 0..n /\ k + 1 # 0 /\ (k + 1) - 1 = k /\ k <= n
      BY <1>1, SMTT(40)
    <3>2. upTo[k + 1] = upTo[k] + Size[s[k + 1]]
      BY <1>8, <3>1
    <3>3. g[k + 1] = g[k] + Size[s[k + 1]]
      BY <1>4, <3>1
    <3> QED
      BY <2>2, <3>1, <3>2, <3>3
  <2> HIDE DEF T
  <2>3. Nat \subseteq T
    BY <2>1, <2>2, InductionOnNat
  <2> USE DEF T
  <2>4. \A k \in 0..n : upTo[k] = g[k]
    BY <1>1, <2>3, SMTT(40)
  <2>5. upTo = [i \in 0..n |-> upTo[i]]
    BY <1>6, <1>8 DEF upTo, n
  <2>6. g = [i \in 0..n |-> g[i]]
    BY <1>3
  <2> QED
    BY <2>4, <2>5, <2>6
<1> USE DEF n
<1> QED
  BY <1>3, <1>4, <1>7, <1>9 DEF CountsBytes

\* Sums may be regrouped.
LEMMA Regroup == \A a, b, c \in Nat : (a + b) + c = (a + c) + b
BY SMTT(40)

\* Two counts along payloads that agree as far as n agree there, and differ by
\* a constant when one of them starts later.
LEMMA CountsAgree ==
  ASSUME NEW s \in Seq(Payloads), NEW u \in Seq(Payloads), NEW g, NEW h, NEW d \in Nat,
         CountsBytes(g, s), CountsBytes(h, u), d <= Len(u), Len(u) <= Len(s) + d,
         \A i \in 1..(Len(u) - d) : u[i + d] = s[i]
  PROVE  h[Len(u)] = g[Len(u) - d] + h[d]
<1> USE SizeAssumption
<1>0. Len(s) \in Nat /\ Len(u) \in Nat /\ \A i \in 1..Len(s) : Size[s[i]] \in Nat
  BY SMTT(40)
<1> DEFINE T == {k \in Nat : k <= Len(u) - d => h[k + d] = g[k] + h[d]}
<1>1. 0 \in T
  <2>1. 0 + d = d /\ g[0] = 0 /\ h[d] \in Nat
    BY <1>0, SMTT(40) DEF CountsBytes
  <2> QED
    BY <2>1, SMTT(40)
<1>2. ASSUME NEW k \in Nat, k \in T PROVE k + 1 \in T
  <2> SUFFICES ASSUME k + 1 <= Len(u) - d PROVE h[(k + 1) + d] = g[k + 1] + h[d]
    BY SMTT(40)
  <2>1. /\ k + 1 \in 1..(Len(u) - d) /\ k + 1 \in 1..Len(s) /\ (k + 1) + d \in 1..Len(u)
        /\ (k + 1) - 1 = k /\ ((k + 1) + d) - 1 = k + d /\ k \in 0..Len(s) /\ d \in 0..Len(u)
    BY <1>0, SMTT(40)
  <2>2. u[(k + 1) + d] = s[k + 1]
    BY <2>1
  <2>3. h[(k + 1) + d] = h[k + d] + Size[u[(k + 1) + d]]
    BY <2>1 DEF CountsBytes
  <2>4. g[k + 1] = g[k] + Size[s[k + 1]]
    BY <2>1 DEF CountsBytes
  <2>5. g[k] \in Nat /\ h[d] \in Nat /\ Size[s[k + 1]] \in Nat
    BY <2>1, <1>0 DEF CountsBytes
  <2>6. h[k + d] = g[k] + h[d]
    BY <1>2, <1>0, SMTT(40)
  <2>7. h[(k + 1) + d] = (g[k] + h[d]) + Size[s[k + 1]]
    BY <2>2, <2>3, <2>6
  <2>8. (g[k] + h[d]) + Size[s[k + 1]] = (g[k] + Size[s[k + 1]]) + h[d]
    BY <2>5, Regroup
  <2> QED
    BY <2>4, <2>7, <2>8
<1> HIDE DEF T
<1>3. Nat \subseteq T
  BY <1>1, <1>2, InductionOnNat
<1>4. Len(u) - d \in Nat /\ (Len(u) - d) + d = Len(u)
  BY <1>0, SMTT(40)
<1>5. Len(u) - d \in T
  BY <1>3, <1>4
<1> QED
  BY <1>4, <1>5, SMTT(40) DEF T

\* An empty queue holds no bytes, and a number of them is never negative.
LEMMA BytesType ==
  /\ Bytes(<<>>) = 0
  /\ \A s \in Seq(Payloads) : Bytes(s) \in Nat
<1>1. ASSUME NEW s \in Seq(Payloads) PROVE Bytes(s) \in Nat /\ (s = <<>> => Bytes(s) = 0)
  <2>1. PICK g : CountsBytes(g, s) /\ Bytes(s) = g[Len(s)]
    BY BytesCounts
  <2>2. Len(s) \in 0..Len(s) /\ (s = <<>> => Len(s) = 0)
    BY SMTT(40)
  <2> QED
    BY <2>1, <2>2 DEF CountsBytes
<1>2. <<>> \in Seq(Payloads)
  BY SMTT(40)
<1> QED
  BY <1>1, <1>2

\* push_back adds the size of its payload.
LEMMA BytesAppend ==
  ASSUME NEW s \in Seq(Payloads), NEW p \in Payloads
  PROVE  Bytes(Append(s, p)) = Bytes(s) + Size[p]
<1> DEFINE u == Append(s, p)
<1>1. /\ u \in Seq(Payloads) /\ Len(u) = Len(s) + 1 /\ Len(s) \in Nat
      /\ u[Len(s) + 1] = p /\ \A i \in 1..Len(s) : u[i] = s[i]
  BY SMTT(40)
<1> HIDE DEF u
<1>2. PICK g : CountsBytes(g, s) /\ Bytes(s) = g[Len(s)]
  BY BytesCounts
<1>3. PICK h : CountsBytes(h, u) /\ Bytes(u) = h[Len(u)]
  BY <1>1, BytesCounts
<1>4. h[Len(u)] = h[Len(s)] + Size[p]
  BY <1>1, <1>3, SMTT(40) DEF CountsBytes
<1>5. h[Len(s)] = g[Len(s)]
  <2> DEFINE k == [i \in 0..Len(s) |-> h[i]]
  <2>1. CountsBytes(k, s)
    BY <1>1, <1>3, SMTT(40) DEF CountsBytes
  <2>2. k[Len(s)] = h[Len(s)] /\ k[0] = 0
    BY <1>1, <1>3, SMTT(40) DEF CountsBytes
  <2>3. /\ 0 \in Nat /\ 0 <= Len(s) /\ Len(s) <= Len(s) + 0 /\ Len(s) - 0 = Len(s)
        /\ \A i \in 1..(Len(s) - 0) : s[i + 0] = s[i]
    BY <1>1, SMTT(40)
  <2> HIDE DEF k
  <2>4. k[Len(s)] = g[Len(s) - 0] + k[0]
    BY <1>2, <2>1, <2>3, CountsAgree, SMTT(40)
  <2>5. g[Len(s)] \in Nat
    BY <1>1, <1>2, SMTT(40) DEF CountsBytes
  <2> QED
    BY <2>2, <2>3, <2>4, <2>5, SMTT(40)
<1> QED
  BY <1>2, <1>3, <1>4, <1>5 DEF u

\* pop_front takes off the size of its payload.
LEMMA BytesTail ==
  ASSUME NEW s \in Seq(Payloads), s # <<>>
  PROVE  Bytes(s) = Bytes(Tail(s)) + Size[Head(s)]
<1> USE SizeAssumption
<1> DEFINE u == Tail(s)
<1>1. /\ u \in Seq(Payloads) /\ Len(u) = Len(s) - 1 /\ Len(s) \in Nat /\ 1 <= Len(s)
      /\ Head(s) = s[1] /\ \A i \in 1..(Len(s) - 1) : s[i + 1] = u[i]
  BY SMTT(40)
<1> HIDE DEF u
<1>2. PICK g : CountsBytes(g, u) /\ Bytes(u) = g[Len(u)]
  BY <1>1, BytesCounts
<1>3. PICK h : CountsBytes(h, s) /\ Bytes(s) = h[Len(s)]
  BY BytesCounts
<1>4. 1 \in Nat /\ 1 <= Len(s) /\ Len(s) <= Len(u) + 1
  BY <1>1, SMTT(40)
<1>5. h[Len(s)] = g[Len(s) - 1] + h[1]
  BY <1>1, <1>2, <1>3, <1>4, CountsAgree, SMTT(40)
<1>6. h[1] = Size[s[1]]
  <2>1. h[1] = h[1 - 1] + Size[s[1]] /\ h[0] = 0 /\ 1 - 1 = 0
    BY <1>1, <1>3, SMTT(40) DEF CountsBytes
  <2>2. Size[s[1]] \in Nat
    BY <1>1, SMTT(40)
  <2> QED
    BY <2>1, <2>2, SMTT(40)
<1> QED
  BY <1>1, <1>2, <1>3, <1>5, <1>6 DEF u

\* The payloads of a lane follow its items.
LEMMA DataOfType ==
  ASSUME NEW s \in Seq(QueuedItem)
  PROVE  DataOf(s) \in Seq(Payloads) /\ Len(DataOf(s)) = Len(s)
<1>1. \A i \in DOMAIN s : s[i] \in QueuedItem
  BY SMTT(40)
<1>2. \A i \in 1..Len(s) : s[i].data \in Payloads
  BY <1>1, SMTT(40) DEF QueuedItem
<1>3. DataOf(s) = [i \in 1..Len(s) |-> s[i].data] /\ Len(s) \in Nat
  BY SMTT(40) DEF DataOf
<1> DEFINE d == [i \in 1..Len(s) |-> s[i].data]
<1>4. d \in [1..Len(s) -> Payloads]
  BY <1>2
<1>5. d \in Seq(Payloads) /\ Len(d) = Len(s)
  BY <1>3, <1>4, SMTT(40)
<1> QED
  BY <1>3, <1>5

\* An item at the back is a payload at the back.
LEMMA DataOfAppend ==
  ASSUME NEW s \in Seq(QueuedItem), NEW x \in QueuedItem
  PROVE  DataOf(Append(s, x)) = Append(DataOf(s), x.data) /\ x.data \in Payloads
<1>1. x.data \in Payloads
  BY DEF QueuedItem
<1>2. Append(s, x) \in Seq(QueuedItem) /\ Len(Append(s, x)) = Len(s) + 1 /\ Len(s) \in Nat
  BY SMTT(40)
<1> DEFINE d == DataOf(s)
           e == DataOf(Append(s, x))
<1>3. d \in Seq(Payloads) /\ Len(d) = Len(s) /\ e \in Seq(Payloads) /\ Len(e) = Len(s) + 1
  BY <1>2, DataOfType
<1>4. ASSUME NEW i \in 1..(Len(s) + 1) PROVE e[i] = Append(d, x.data)[i]
  <2>1. DOMAIN Append(s, x) = 1..(Len(s) + 1) /\ DOMAIN s = 1..Len(s)
    BY <1>2, SMTT(40)
  <2>2. e[i] = Append(s, x)[i].data
    BY <2>1 DEF DataOf
  <2>3. CASE i = Len(s) + 1
    <3>1. Append(s, x)[i] = x
      BY <2>3, SMTT(40)
    <3> HIDE DEF d, e
    <3> QED
      BY <1>1, <1>3, <2>2, <2>3, <3>1, SMTT(40)
  <2>4. CASE i # Len(s) + 1
    <3>1. i \in 1..Len(s)
      BY <1>2, <2>4, SMTT(40)
    <3>2. Append(s, x)[i] = s[i]
      BY <3>1, SMTT(40)
    <3>3. d[i] = s[i].data
      BY <2>1, <3>1 DEF DataOf
    <3> HIDE DEF d, e
    <3>4. Append(d, x.data)[i] = d[i]
      BY <1>1, <1>3, <3>1, SMTT(40)
    <3> QED
      BY <2>2, <3>2, <3>3, <3>4
  <2> QED
    BY <2>3, <2>4
<1> HIDE DEF d, e
<1>5. Append(d, x.data) \in Seq(Payloads) /\ Len(Append(d, x.data)) = Len(s) + 1
  BY <1>1, <1>3, SMTT(40)
<1>6. e = Append(d, x.data)
  BY <1>3, <1>4, <1>5, SeqEqual
<1> QED
  BY <1>1, <1>6 DEF d, e

\* The first item carries the first payload.
LEMMA DataOfTail ==
  ASSUME NEW s \in Seq(QueuedItem), s # <<>>
  PROVE  /\ DataOf(Tail(s)) = Tail(DataOf(s)) /\ Head(DataOf(s)) = Head(s).data
         /\ DataOf(s) # <<>>
<1>1. /\ Tail(s) \in Seq(QueuedItem) /\ Len(Tail(s)) = Len(s) - 1 /\ Len(s) \in Nat
      /\ Len(s) >= 1 /\ Head(s) = s[1] /\ \A i \in 1..(Len(s) - 1) : Tail(s)[i] = s[i + 1]
  BY SMTT(40)
<1> DEFINE d == DataOf(s)
           e == DataOf(Tail(s))
<1>2. d \in Seq(Payloads) /\ Len(d) = Len(s) /\ e \in Seq(Payloads) /\ Len(e) = Len(s) - 1
  BY <1>1, DataOfType
<1>3. /\ \A i \in 1..Len(s) : d[i] = s[i].data
      /\ \A i \in 1..(Len(s) - 1) : e[i] = Tail(s)[i].data
  BY <1>1, SMTT(40) DEF DataOf
<1> HIDE DEF d, e
<1>4. /\ d # <<>> /\ Tail(d) \in Seq(Payloads) /\ Len(Tail(d)) = Len(s) - 1
      /\ \A i \in 1..(Len(s) - 1) : Tail(d)[i] = d[i + 1]
  BY <1>1, <1>2, SMTT(40)
<1>5. ASSUME NEW i \in 1..(Len(s) - 1) PROVE e[i] = Tail(d)[i]
  <2>1. i + 1 \in 1..Len(s)
    BY <1>1, SMTT(40)
  <2> QED
    BY <1>1, <1>3, <1>4, <2>1
<1>6. e = Tail(d)
  BY <1>2, <1>4, <1>5, SeqEqual
<1>7. Head(d) = Head(s).data
  <2>1. 1 \in 1..Len(s)
    BY <1>1, SMTT(40)
  <2> QED
    BY <1>1, <1>2, <1>3, <1>4, <2>1, SMTT(40)
<1> QED
  BY <1>4, <1>6, <1>7 DEF d, e

\* The bytes of a lane.
LEMMA LaneBytes ==
  ASSUME NEW s \in Seq(QueuedItem)
  PROVE  /\ Bytes(DataOf(s)) \in Nat /\ Bytes(DataOf(<<>>)) = 0
         /\ \A x \in QueuedItem : Bytes(DataOf(Append(s, x))) = Bytes(DataOf(s)) + Size[x.data]
         /\ s # <<>> => Bytes(DataOf(s)) = Bytes(DataOf(Tail(s))) + Size[Head(s).data]
<1>1. DataOf(s) \in Seq(Payloads)
  BY DataOfType
<1>2. DataOf(<<>>) = <<>>
  BY SMTT(40) DEF DataOf
<1>3. ASSUME NEW x \in QueuedItem
      PROVE  Bytes(DataOf(Append(s, x))) = Bytes(DataOf(s)) + Size[x.data]
  BY <1>1, DataOfAppend, BytesAppend
<1>4. ASSUME s # <<>> PROVE Bytes(DataOf(s)) = Bytes(DataOf(Tail(s))) + Size[Head(s).data]
  BY <1>1, <1>4, DataOfTail, BytesTail
<1> QED
  BY <1>1, <1>2, <1>3, <1>4, BytesType

\* Every push, pop, drain and recovery moves pending_bytes by what it moves.
LEMMA BytesExactNext == Typed /\ Sized /\ BytesExact /\ [Next]_vars => BytesExact'
<1> SUFFICES ASSUME Typed, Sized, BytesExact, [Next]_vars PROVE BytesExact'
  OBVIOUS
<1> USE SizeAssumption
<1>t. /\ TypeOK /\ control \in Seq(QueuedItem) /\ bulk \in Seq(QueuedItem)
      /\ recovered \in Seq(QueuedItem) /\ pending_bytes \in Nat
  BY DEF Typed, TypeOK
<1> DEFINE c == Bytes(DataOf(control))
           b == Bytes(DataOf(bulk))
<1>b. c \in Nat /\ b \in Nat /\ pending_bytes = c + b /\ Bytes(DataOf(<<>>)) = 0
  BY <1>t, LaneBytes DEF BytesExact
<1>q. ASSUME UNCHANGED <<control, bulk, pending_bytes>> PROVE BytesExact'
  BY <1>q DEF BytesExact
<1>e. ASSUME NEW item \in QueuedItem, pending_bytes' = pending_bytes + Size[item.data],
             \/ control' = Append(control, item) /\ UNCHANGED bulk
             \/ bulk' = Append(bulk, item) /\ UNCHANGED control
      PROVE  BytesExact'
  <2>1. /\ Bytes(DataOf(Append(control, item))) = c + Size[item.data]
        /\ Bytes(DataOf(Append(bulk, item))) = b + Size[item.data]
    BY <1>t, LaneBytes
  <2>2. Size[item.data] \in Nat
    BY DEF QueuedItem
  <2>3. CASE control' = Append(control, item) /\ UNCHANGED bulk
    <3>1. Bytes(DataOf(control')) = c + Size[item.data] /\ Bytes(DataOf(bulk')) = b
      BY <2>1, <2>3
    <3> HIDE DEF c, b
    <3>2. pending_bytes' = (c + Size[item.data]) + b
      BY <1>b, <1>e, <2>2, SMTT(40)
    <3> QED
      BY <3>1, <3>2 DEF BytesExact
  <2>4. CASE bulk' = Append(bulk, item) /\ UNCHANGED control
    <3>1. Bytes(DataOf(bulk')) = b + Size[item.data] /\ Bytes(DataOf(control')) = c
      BY <2>1, <2>4
    <3> HIDE DEF c, b
    <3>2. pending_bytes' = c + (b + Size[item.data])
      BY <1>b, <1>e, <2>2, SMTT(40)
    <3> QED
      BY <3>1, <3>2 DEF BytesExact
  <2> QED
    BY <1>e, <2>3, <2>4
<1>1. ASSUME NEW t \in Threads, NEW p \in Payloads,
             RejectTooLarge(t, p) \/ \E priority \in Priority : EnqueueLock(t, p, priority)
      PROVE  BytesExact'
  BY <1>1, <1>q DEF RejectTooLarge, EnqueueLock, inner
<1>2. ASSUME NEW t \in Threads, EvictBulk(t) PROVE BytesExact'
  <2> DEFINE r == Bytes(DataOf(Tail(bulk)))
             z == Size[Head(bulk).data]
  <2>1. /\ bulk # <<>> /\ bulk' = Tail(bulk) /\ control' = control
        /\ pending_bytes' = SaturatingSub(pending_bytes, z)
    BY <1>2 DEF EvictBulk
  <2>2. Head(bulk) \in QueuedItem /\ Tail(bulk) \in Seq(QueuedItem)
    BY <1>t, <2>1, SMTT(40)
  <2>3. z \in Nat /\ r \in Nat /\ b = r + z
    <3>1. z \in Nat
      BY <2>2 DEF QueuedItem
    <3>2. r \in Nat
      BY <2>2, LaneBytes
    <3>3. b = r + z
      BY <1>t, <2>1, LaneBytes
    <3> QED
      BY <3>1, <3>2, <3>3
  <2>4. Bytes(DataOf(bulk')) = r /\ Bytes(DataOf(control')) = c
    BY <2>1
  <2> HIDE DEF c, b, r, z
  <2>5. pending_bytes' = c + r
    BY <1>b, <2>1, <2>3, SMTT(40) DEF SaturatingSub
  <2> QED
    BY <2>4, <2>5 DEF BytesExact
<1>3. ASSUME NEW t \in Threads, RejectFull(t) \/ AppendSpool(t) \/ CompactSpool(t)
                                  \/ FlushTruncate(t) \/ Persist(t)
      PROVE  BytesExact'
  BY <1>3, <1>q DEF RejectFull, AppendSpool, CompactSpool, FlushTruncate, Persist, inner
<1>4. ASSUME NEW t \in Threads, Push(t) PROVE BytesExact'
  <2> DEFINE item == [held[t][1] EXCEPT !.id = next_id]
  <2>1. item \in QueuedItem
    BY <1>4, <1>t, HeldItem DEF Push, Typed, TypeOK, QueuedItem
  <2>2. /\ pending_bytes' = pending_bytes + Size[item.data]
        /\ \/ control' = Append(control, item) /\ UNCHANGED bulk
           \/ bulk' = Append(bulk, item) /\ UNCHANGED control
    BY <1>4 DEF Push
  <2> HIDE DEF item
  <2> QED
    BY <1>e, <2>1, <2>2
<1>5. ASSUME NEW t \in Threads, FlushDrain(t) PROVE BytesExact'
  <2>1. control' = <<>> /\ bulk' = <<>> /\ pending_bytes' = 0
    BY <1>5 DEF FlushDrain
  <2>2. Bytes(DataOf(control')) = 0 /\ Bytes(DataOf(bulk')) = 0
    BY <1>b, <2>1
  <2> QED
    BY <2>1, <2>2, SMTT(40) DEF BytesExact
<1>6. CASE Crash
  <2>1. control' = <<>> /\ bulk' = <<>> /\ pending_bytes' = 0
    BY <1>6 DEF Crash, EmptyInner
  <2>2. Bytes(DataOf(control')) = 0 /\ Bytes(DataOf(bulk')) = 0
    BY <1>b, <2>1
  <2> QED
    BY <2>1, <2>2, SMTT(40) DEF BytesExact
<1>7. CASE Open \/ OpenFails \/ RecoverDone \/ UNCHANGED vars
  BY <1>7, <1>q DEF Open, OpenFails, RecoverDone, vars, inner
<1>8. CASE RecoverItem
  <2>1. Head(recovered) \in QueuedItem
    BY <1>8, <1>t, SMTT(40) DEF RecoverItem
  <2>2. CASE UNCHANGED inner
    BY <1>q, <2>2 DEF inner
  <2>3. CASE ~UNCHANGED inner
    <3>1. /\ pending_bytes' = pending_bytes + Size[Head(recovered).data]
          /\ \/ control' = Append(control, Head(recovered)) /\ UNCHANGED bulk
             \/ bulk' = Append(bulk, Head(recovered)) /\ UNCHANGED control
      BY <1>8, <2>3 DEF RecoverItem
    <3> QED
      BY <1>e, <2>1, <3>1
  <2> QED
    BY <2>2, <2>3
<1> QED
  BY <1>1, <1>2, <1>3, <1>4, <1>5, <1>6, <1>7, <1>8 DEF Next, ThreadStep

\* pending_bytes, which saturating subtractions could let drift, is always the
\* number of bytes the two lanes hold.
THEOREM BytesAreExact == Spec => []BytesExact
<1>1. Init => BytesExact
  <2>1. <<>> \in Seq(QueuedItem)
    BY SMTT(40)
  <2>2. Bytes(DataOf(<<>>)) = 0
    BY <2>1, LaneBytes
  <2> QED
    BY <2>2, SMTT(40) DEF Init, BytesExact
<1>2. Typed /\ Sized /\ BytesExact /\ [Next]_vars => BytesExact'
  BY BytesExactNext
<1> QED
  BY <1>1, <1>2, SizedAlways, PTL DEF Spec
================================================================================
