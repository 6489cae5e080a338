---------------------------- MODULE StoreAndForward ----------------------------
(***************************************************************************)
(* core-supervisor/src/store_and_forward.rs: the bounded two-lane queue    *)
(* that holds telemetry while the control plane is detached, and the       *)
(* sealed spool file it keeps on disk.                                     *)
(*                                                                         *)
(* The mutex `inner` is released between the push of an item and the write *)
(* of its record, and between the draining of the lanes and the truncation *)
(* of the file: a call is several steps here, one per critical section.    *)
(* The loop that makes room runs under the lock, one step per iteration.   *)
(*                                                                         *)
(* A payload stands for the bytes of one item.  Every call offers a        *)
(* payload of its own, so that a second delivery can be told from a first. *)
(* Sealing is abstracted to "readable again or failed".                    *)
(***************************************************************************)
EXTENDS Filters, FiniteSets

CONSTANTS Threads,    \* threads that call the queue
          Payloads,   \* payloads ever offered
          Size,       \* Size[p]: bytes of payload p
          MaxItems,   \* QueueLimits.max_items
          MaxBytes,   \* QueueLimits.max_bytes
          EvictOldest,\* QueueLimits.policy = OverflowPolicy::EvictOldest
          MaxFaults,  \* bound on failing disk operations
          MaxCrashes  \* bound on process crashes

ASSUME SizeAssumption == Size \in [Payloads -> Nat]
ASSUME LimitAssumption == MaxItems \in Nat /\ MaxBytes \in Nat
ASSUME PolicyAssumption == EvictOldest \in BOOLEAN
ASSUME BoundAssumption == MaxFaults \in Nat /\ MaxCrashes \in Nat

Priority == {"Control", "Bulk"}
QueuedItem == [id : Nat, priority : Priority, data : Payloads]

VARIABLES
  boot,           \* "down", "recovering" (inside open), "disk" or "memory"
  control, bulk,  \* the two lanes
  next_id,        \* next id to assign
  pending_bytes,  \* payload bytes held, as the code counts them
  stats,          \* the lifecycle counters
  disk,           \* the spool file
  recovered,      \* records parsed by open and not yet taken in
  pc,             \* where the call of each thread stands
  held,           \* the items the call of each thread works on
  compact_needed, \* the call has evicted something
  faults, crashes,\* failing disk operations and crashes so far
  used,           \* history: payloads offered so far
  acked,          \* history: items whose try_enqueue returned Ok
  evicted,        \* history: payloads evicted to make room
  settled         \* history: payloads returned by a flush that truncated the spool

inner == <<control, bulk, next_id, pending_bytes>>
calls == <<pc, held, compact_needed>>
bounds == <<faults, crashes>>
history == <<used, acked, evicted, settled>>
vars == <<boot, inner, stats, disk, recovered, calls, bounds, history>>

(***************************************************************************)
(* The spool file: the magic header, the complete records, a flag for a    *)
(* complete line that is not a record, and what follows the last newline:  *)
(* nothing, a fragment ("torn"), or a whole record whose newline is        *)
(* missing ("bare", counted as the last element of lines).                 *)
(***************************************************************************)
NoFile == [header |-> FALSE, lines |-> <<>>, bad |-> FALSE, tail |-> "none"]
Rewritten(items) == [header |-> TRUE, lines |-> items, bad |-> FALSE, tail |-> "none"]

Front(s) == SubSeq(s, 1, Len(s) - 1)

\* Mutants of WholeLine: the record goes to the front; the write is forgotten.
LineInFront(d, it) == [d EXCEPT !.lines = <<it>> \o @]
LineForgotten(d, it) == d

\* A whole line: it completes a fragment left by an earlier write into garbage.
WholeLine(d, it) ==
  CASE d.tail = "none" -> [d EXCEPT !.lines = Append(@, it)]
    [] d.tail = "torn" -> [d EXCEPT !.bad = TRUE, !.tail = "none"]
    [] d.tail = "bare" -> [d EXCEPT !.bad = TRUE, !.tail = "none", !.lines = Front(@)]

\* What a write cut short may leave.
PartLine(d, it) ==
  CASE d.tail = "none" -> {[d EXCEPT !.tail = "torn"],
                           [d EXCEPT !.tail = "bare", !.lines = Append(@, it)]}
    [] d.tail = "torn" -> {d}
    [] d.tail = "bare" -> {[d EXCEPT !.tail = "torn", !.lines = Front(@)]}

\* parse_spool fails: content without the header, or an invalid complete line.
IsEmptyFile(d) == ~d.header /\ d.lines = <<>> /\ ~d.bad /\ d.tail = "none"
\* Mutant of Refused: a torn trailing record is not tolerated.
RefusedWhenTorn(d) == ~IsEmptyFile(d) /\ (~d.header \/ d.bad \/ d.tail = "torn")

Refused(d) == ~IsEmptyFile(d) /\ (~d.header \/ d.bad)

In(x, s) == \E i \in DOMAIN s : s[i] = x
Data(s) == {s[i].data : i \in DOMAIN s}

pending_items == Len(control) + Len(bulk)
Pending == control \o bulk
HasSpool == boot \in {"disk", "recovering"}
Running == boot \in {"disk", "memory"}
LockFree == \A t \in Threads : pc[t] # "room"

ZeroStats == [enqueued |-> 0, flushed |-> 0, rejected |-> 0, evicted |-> 0,
              recovered |-> 0, persist_errors |-> 0]
Bump(s, field) == [s EXCEPT ![field] = @ + 1]

EmptyInner ==
  /\ control' = <<>> /\ bulk' = <<>>
  /\ next_id' = 0 /\ pending_bytes' = 0

Return(t) ==
  /\ pc' = [pc EXCEPT ![t] = "idle"]
  /\ held' = [held EXCEPT ![t] = <<>>]
  /\ compact_needed' = [compact_needed EXCEPT ![t] = FALSE]

Init ==
  /\ boot = "down"
  /\ control = <<>> /\ bulk = <<>> /\ next_id = 0 /\ pending_bytes = 0
  /\ stats = ZeroStats /\ disk = NoFile /\ recovered = <<>>
  /\ pc = [t \in Threads |-> "idle"]
  /\ held = [t \in Threads |-> <<>>]
  /\ compact_needed = [t \in Threads |-> FALSE]
  /\ faults = 0 /\ crashes = 0
  /\ used = {} /\ acked = {} /\ evicted = {} /\ settled = {}
--------------------------------------------------------------------------------
(***************************************************************************)
(* try_enqueue                                                             *)
(***************************************************************************)
RejectTooLarge(t, p) ==
  /\ Running /\ pc[t] = "idle" /\ p \notin used /\ LockFree
  /\ Size[p] > MaxBytes
  /\ stats' = Bump(stats, "rejected")
  /\ used' = used \union {p}
  /\ UNCHANGED <<boot, inner, disk, recovered, calls, bounds, acked, evicted, settled>>

EnqueueLock(t, p, priority) ==
  /\ Running /\ pc[t] = "idle" /\ p \notin used /\ LockFree
  /\ Size[p] <= MaxBytes
  /\ pc' = [pc EXCEPT ![t] = "room"]
  /\ held' = [held EXCEPT ![t] = <<[id |-> 0, priority |-> priority, data |-> p]>>]
  /\ used' = used \union {p}
  /\ UNCHANGED <<boot, inner, stats, disk, recovered, compact_needed, bounds,
                 acked, evicted, settled>>

\* Mutant of NeedsRoom: the new item is not counted.
NeedsRoomLate(t) ==
  \/ pending_items > MaxItems
  \/ pending_bytes + Size[held[t][1].data] > MaxBytes

NeedsRoom(t) ==
  \/ pending_items + 1 > MaxItems
  \/ pending_bytes + Size[held[t][1].data] > MaxBytes

\* Mutants of SaturatingSub: operands swapped; the evicted bytes stay counted.
SwappedSub(a, b) == b - a
ForgottenSub(a, b) == a

SaturatingSub(a, b) == IF a >= b THEN a - b ELSE 0

\* Mutants of EvictBulk: an uncounted eviction; an eviction from the control
\* lane once the bulk lane is empty; an eviction that removes nothing.
EvictUncounted(t) ==
  /\ pc[t] = "room" /\ NeedsRoom(t) /\ EvictOldest /\ bulk # <<>>
  /\ pending_bytes' = SaturatingSub(pending_bytes, Size[Head(bulk).data])
  /\ bulk' = Tail(bulk)
  /\ compact_needed' = [compact_needed EXCEPT ![t] = TRUE]
  /\ evicted' = evicted \union {Head(bulk).data}
  /\ UNCHANGED <<boot, control, next_id, stats, disk, recovered, pc, held, bounds,
                 used, acked, settled>>
EvictControl(t) ==
  /\ pc[t] = "room" /\ NeedsRoom(t) /\ EvictOldest /\ bulk = <<>> /\ control # <<>>
  /\ pending_bytes' = SaturatingSub(pending_bytes, Size[Head(control).data])
  /\ control' = Tail(control)
  /\ stats' = Bump(stats, "evicted")
  /\ compact_needed' = [compact_needed EXCEPT ![t] = TRUE]
  /\ evicted' = evicted \union {Head(control).data}
  /\ UNCHANGED <<boot, bulk, next_id, disk, recovered, pc, held, bounds, used, acked, settled>>
EvictNothing(t) ==
  /\ pc[t] = "room" /\ NeedsRoom(t) /\ EvictOldest /\ bulk # <<>>
  /\ compact_needed' = [compact_needed EXCEPT ![t] = TRUE]
  /\ UNCHANGED <<boot, inner, stats, disk, recovered, pc, held, bounds, history>>

EvictBulk(t) ==
  /\ pc[t] = "room" /\ NeedsRoom(t) /\ EvictOldest /\ bulk # <<>>
  /\ pending_bytes' = SaturatingSub(pending_bytes, Size[Head(bulk).data])
  /\ bulk' = Tail(bulk)
  /\ stats' = Bump(stats, "evicted")
  /\ compact_needed' = [compact_needed EXCEPT ![t] = TRUE]
  /\ evicted' = evicted \union {Head(bulk).data}
  /\ UNCHANGED <<boot, control, next_id, disk, recovered, pc, held, bounds,
                 used, acked, settled>>

\* Both early returns of the loop: no spool write follows, even after evictions.
RejectFull(t) ==
  /\ pc[t] = "room" /\ NeedsRoom(t) /\ (~EvictOldest \/ bulk = <<>>)
  /\ stats' = Bump(stats, "rejected")
  /\ Return(t)
  /\ UNCHANGED <<boot, inner, disk, recovered, bounds, history>>

Push(t) ==
  LET item == [held[t][1] EXCEPT !.id = next_id] IN
  /\ pc[t] = "room" /\ ~NeedsRoom(t)
  /\ next_id' = next_id + 1
  /\ pending_bytes' = pending_bytes + Size[item.data]
  /\ stats' = Bump(stats, "enqueued")
  /\ IF item.priority = "Control"
     THEN control' = Append(control, item) /\ UNCHANGED bulk
     ELSE bulk' = Append(bulk, item) /\ UNCHANGED control
  /\ held' = [held EXCEPT ![t] = <<item>>]
  /\ pc' = [pc EXCEPT ![t] = IF compact_needed[t] THEN "compact" ELSE "append"]
  /\ UNCHANGED <<boot, disk, recovered, compact_needed, bounds, history>>

AppendSpool(t) ==
  /\ pc[t] = "append" /\ LockFree
  /\ \/ /\ ~HasSpool
        /\ UNCHANGED <<stats, disk, faults>>
     \/ /\ HasSpool
        /\ \A i \in DOMAIN Pending : Pending[i].id # held[t][1].id
        /\ stats' = Bump(stats, "persist_errors")
        /\ UNCHANGED <<disk, faults>>
     \/ \E i \in DOMAIN Pending :
          /\ HasSpool /\ Pending[i].id = held[t][1].id
          /\ disk' = WholeLine(disk, Pending[i])
          /\ UNCHANGED <<stats, faults>>
     \/ \E i \in DOMAIN Pending :
          /\ HasSpool /\ Pending[i].id = held[t][1].id
          /\ faults < MaxFaults /\ faults' = faults + 1
          /\ disk' \in {disk} \union PartLine(disk, Pending[i])
          /\ stats' = Bump(stats, "persist_errors")
  /\ acked' = acked \union {held[t][1]}
  /\ Return(t)
  /\ UNCHANGED <<boot, inner, recovered, crashes, used, evicted, settled>>

(***************************************************************************)
(* rewrite_spool: temporary file and rename, so that the file is the new   *)
(* one (possibly without an item that could not be sealed) or the old one. *)
(***************************************************************************)
\* Mutant of RewriteSpool: the file is not truncated.
RewriteByAppending(replaced) ==
  /\ replaced
  /\ disk' = IF HasSpool THEN [disk EXCEPT !.header = TRUE, !.lines = @ \o Pending] ELSE disk
  /\ UNCHANGED <<stats, faults>>

RewriteSpool(replaced) ==
  \/ /\ ~HasSpool /\ replaced
     /\ UNCHANGED <<disk, stats, faults>>
  \/ /\ HasSpool /\ replaced
     /\ disk' = Rewritten(Pending)
     /\ UNCHANGED <<stats, faults>>
  \/ /\ HasSpool /\ faults < MaxFaults
     /\ IF replaced THEN \E i \in DOMAIN Pending : disk' = Rewritten(Without(Pending, i))
                    ELSE disk' = disk
     /\ stats' = Bump(stats, "persist_errors")
     /\ faults' = faults + 1

CompactSpool(t) ==
  /\ pc[t] = "compact" /\ LockFree
  /\ \E replaced \in BOOLEAN : RewriteSpool(replaced)
  /\ acked' = acked \union {held[t][1]}
  /\ Return(t)
  /\ UNCHANGED <<boot, inner, recovered, crashes, used, evicted, settled>>

(***************************************************************************)
(* flush and persist                                                       *)
(***************************************************************************)
FlushDrain(t) ==
  /\ Running /\ pc[t] = "idle" /\ LockFree
  /\ held' = [held EXCEPT ![t] = Pending]
  /\ control' = <<>> /\ bulk' = <<>> /\ pending_bytes' = 0
  /\ stats' = [stats EXCEPT !.flushed = @ + pending_items]
  /\ pc' = [pc EXCEPT ![t] = "truncate"]
  /\ UNCHANGED <<boot, next_id, disk, recovered, compact_needed, bounds, history>>

\* Mutants of FlushTruncate: the file is emptied, whatever was pushed since; a
\* rewrite that fails is not counted.
FlushTruncateAll(t) ==
  /\ pc[t] = "truncate" /\ LockFree
  /\ disk' = IF HasSpool THEN Rewritten(<<>>) ELSE disk
  /\ settled' = settled \union Data(held[t])
  /\ Return(t)
  /\ UNCHANGED <<boot, inner, stats, recovered, bounds, used, acked, evicted>>
FlushTruncateSilent(t) ==
  /\ pc[t] = "truncate" /\ LockFree
  /\ \/ /\ disk' = IF HasSpool THEN Rewritten(Pending) ELSE disk
        /\ settled' = settled \union Data(held[t])
        /\ UNCHANGED faults
     \/ /\ HasSpool /\ faults < MaxFaults /\ faults' = faults + 1
        /\ UNCHANGED <<disk, settled>>
  /\ Return(t)
  /\ UNCHANGED <<boot, inner, stats, recovered, crashes, used, acked, evicted>>

FlushTruncate(t) ==
  /\ pc[t] = "truncate" /\ LockFree
  /\ \E replaced \in BOOLEAN :
       /\ RewriteSpool(replaced)
       /\ settled' = IF replaced THEN settled \union Data(held[t]) ELSE settled
  /\ Return(t)
  /\ UNCHANGED <<boot, inner, recovered, crashes, used, acked, evicted>>

Persist(t) ==
  /\ Running /\ pc[t] = "idle" /\ LockFree
  /\ \E replaced \in BOOLEAN : RewriteSpool(replaced)
  /\ UNCHANGED <<boot, inner, recovered, calls, crashes, history>>
--------------------------------------------------------------------------------
(***************************************************************************)
(* Crash, and open at the next start of the process                        *)
(***************************************************************************)
\* The write of a record may be cut by the crash.
Crash ==
  /\ boot # "down" /\ crashes < MaxCrashes
  /\ boot' = "down" /\ crashes' = crashes + 1
  /\ EmptyInner
  /\ recovered' = <<>>
  /\ pc' = [t \in Threads |-> "idle"]
  /\ held' = [t \in Threads |-> <<>>]
  /\ compact_needed' = [t \in Threads |-> FALSE]
  /\ \/ UNCHANGED disk
     \/ \E t \in Threads, i \in DOMAIN Pending :
          /\ HasSpool /\ LockFree /\ pc[t] = "append"
          /\ Pending[i].id = held[t][1].id
          /\ disk' \in PartLine(disk, Pending[i])
  /\ UNCHANGED <<stats, faults, history>>

\* Mutant of Open: the records are taken from the end of the file.
OpenFromEnd ==
  /\ boot = "down" /\ ~Refused(disk)
  /\ boot' = "recovering"
  /\ recovered' = [i \in DOMAIN disk.lines |-> disk.lines[Len(disk.lines) + 1 - i]]
  /\ stats' = ZeroStats
  /\ UNCHANGED <<inner, disk, calls, bounds, history>>

Open ==
  /\ boot = "down" /\ ~Refused(disk)
  /\ boot' = "recovering"
  /\ recovered' = disk.lines
  /\ stats' = ZeroStats
  /\ UNCHANGED <<inner, disk, calls, bounds, history>>

\* main falls back to the in-memory queue and leaves the file alone.
OpenFails ==
  /\ boot = "down"
  /\ \/ Refused(disk) /\ UNCHANGED faults
     \/ faults < MaxFaults /\ faults' = faults + 1
  /\ boot' = "memory"
  /\ stats' = ZeroStats
  /\ UNCHANGED <<inner, disk, recovered, calls, crashes, history>>

RecoverItem ==
  LET item == Head(recovered) IN
  /\ boot = "recovering" /\ recovered # <<>>
  /\ recovered' = Tail(recovered)
  /\ IF pending_items >= MaxItems \/ pending_bytes + Size[item.data] > MaxBytes
     THEN /\ stats' = Bump(stats, "rejected")
          /\ UNCHANGED inner
     ELSE /\ next_id' = IF next_id >= item.id + 1 THEN next_id ELSE item.id + 1
          /\ pending_bytes' = pending_bytes + Size[item.data]
          /\ stats' = Bump(stats, "recovered")
          /\ IF item.priority = "Control"
             THEN control' = Append(control, item) /\ UNCHANGED bulk
             ELSE bulk' = Append(bulk, item) /\ UNCHANGED control
  /\ UNCHANGED <<boot, disk, calls, bounds, history>>

RecoverDone ==
  /\ boot = "recovering" /\ recovered = <<>>
  /\ boot' = "disk"
  /\ \E replaced \in BOOLEAN : RewriteSpool(replaced)
  /\ UNCHANGED <<inner, recovered, calls, crashes, history>>
--------------------------------------------------------------------------------
ThreadStep(t) ==
  \/ EvictBulk(t) \/ RejectFull(t) \/ Push(t)
  \/ AppendSpool(t) \/ CompactSpool(t) \/ FlushTruncate(t)

Next ==
  \/ \E t \in Threads :
       \/ \E p \in Payloads : RejectTooLarge(t, p)
       \/ \E p \in Payloads, priority \in Priority : EnqueueLock(t, p, priority)
       \/ FlushDrain(t) \/ Persist(t) \/ ThreadStep(t)
  \/ Crash \/ Open \/ OpenFails \/ RecoverItem \/ RecoverDone

Spec == Init /\ [][Next]_vars

\* A running thread is scheduled and the lock is released; nobody is obliged
\* to call the queue, to crash it or to start the process again.
Fairness == \A t \in Threads : WF_vars(ThreadStep(t))
FairSpec == Spec /\ Fairness
--------------------------------------------------------------------------------
(***************************************************************************)
(* Properties                                                              *)
(***************************************************************************)
Boot == {"down", "recovering", "disk", "memory"}
CallState == {"idle", "room", "append", "compact", "truncate"}
Stats == [enqueued : Nat, flushed : Nat, rejected : Nat, evicted : Nat,
          recovered : Nat, persist_errors : Nat]
SpoolFile == [header : BOOLEAN, lines : Seq(QueuedItem), bad : BOOLEAN,
              tail : {"none", "torn", "bare"}]

\* Types of the queue's state (struct Inner, the spool file and the calls).
TypeOK ==
  /\ boot \in Boot
  /\ control \in Seq(QueuedItem) /\ bulk \in Seq(QueuedItem)
  /\ next_id \in Nat /\ pending_bytes \in Nat
  /\ stats \in Stats /\ disk \in SpoolFile
  /\ recovered \in Seq(QueuedItem)
  /\ pc \in [Threads -> CallState]
  /\ held \in [Threads -> Seq(QueuedItem)]
  /\ compact_needed \in [Threads -> BOOLEAN]
  /\ faults \in Nat /\ crashes \in Nat
  /\ used \in SUBSET Payloads /\ acked \in SUBSET QueuedItem
  /\ evicted \in SUBSET Payloads /\ settled \in SUBSET Payloads

\* Neither a burst of calls, nor the recovery of a spool larger than the
\* limits (open, 359-379), takes the queue over max_items or max_bytes.
Bounded == pending_items <= MaxItems /\ pending_bytes <= MaxBytes

DataOf(s) == [i \in DOMAIN s |-> s[i].data]

\* The bytes of a sequence of payloads.
Bytes(s) ==
  LET upTo[i \in 0..Len(s)] == IF i = 0 THEN 0 ELSE upTo[i - 1] + Size[s[i]]
  IN  upTo[Len(s)]

\* pending_bytes, kept by additions and saturating subtractions, is the number
\* of bytes actually held (Inner.pending_bytes, 269).
BytesExact == pending_bytes = Bytes(DataOf(control)) + Bytes(DataOf(bulk))

\* The counters of QueueStats balance at every step: what came in (enqueued,
\* recovered) is pending, flushed or evicted, never counted twice or dropped.
Accounting ==
  stats.enqueued + stats.recovered = pending_items + stats.flushed + stats.evicted
    \/ boot = "down"

\* Control items are never evicted: while the process lives, the control lane
\* changes only at its back, except when a flush drains it.
ControlAppendOnly ==
  [][boot' # "down" /\ control' # control /\ stats'.flushed = stats.flushed
       => /\ Len(control') > Len(control)
          /\ SubSeq(control', 1, Len(control)) = control]_vars

\* The call that pushed item it has not written its record yet.
Owes(t, it) == pc[t] \in {"append", "compact"} /\ held[t] = <<it>>

\* While no disk error was counted, the file is well formed and every pending
\* item is in it, unless the call that pushed the item is still to write it:
\* whatever other calls compact, truncate or append in between (497-515).
Durable ==
  boot = "disk" /\ stats.persist_errors = 0 =>
    /\ disk.header /\ ~disk.bad /\ disk.tail = "none"
    /\ \A i \in DOMAIN Pending :
         In(Pending[i], disk.lines) \/ \E t \in Threads : Owes(t, Pending[i])

\* "a crash after a successful flush does not replay already-delivered data"
\* (541-543): a payload returned by a flush that truncated the spool is never
\* again pending, on disk or recovered, whatever crashes and faults follow.
NoReplay == settled \intersect (Data(Pending) \union Data(disk.lines) \union Data(recovered)) = {}

\* A spool is refused at start (parse_spool, 387-436) only after some disk
\* operation failed: crashes alone, however they cut a write, leave a file
\* that opens.
SpoolOpens == faults = 0 => ~Refused(disk)

Quiet == \A t \in Threads : pc[t] = "idle"

\* The items of one priority, in the order of the sequence.
Lane(s, priority) ==
  LET upTo[i \in 0..Len(s)] ==
        IF i = 0 THEN <<>>
        ELSE IF s[i].priority = priority THEN Append(upTo[i - 1], s[i]) ELSE upTo[i - 1]
  IN  upTo[Len(s)]

\* What the file holds, with no call in progress and no disk error counted, is
\* what is pending and, besides it, only items that were evicted: "rewrite the
\* whole spool so disk and memory agree" (510-511) is not reached by a call
\* that evicts and is then refused (487), nor undone by what other calls
\* append, rewrite or truncate between the two halves of this one (497-515).
DiskAgrees ==
  boot = "disk" /\ stats.persist_errors = 0 /\ Quiet =>
    /\ Data(Pending) \subseteq Data(disk.lines)
    /\ Data(disk.lines) \subseteq Data(Pending) \union evicted

\* The comment at 510-511 as it stands.  It does not hold under EvictOldest:
\* RejectFull after EvictBulk leaves the evicted items in the file.
DiskMatches ==
  boot = "disk" /\ stats.persist_errors = 0 /\ Quiet =>
    Lane(disk.lines, "Control") = control /\ Lane(disk.lines, "Bulk") = bulk

\* Crash recovery restores "lane order" (20-21): with one caller, ids never
\* decrease along a lane.  (Of two callers, the one that pushed first may
\* append last, and recovery keeps the order of the file.)
LaneOrder ==
  faults = 0 => \A lane \in {control, bulk} :
                  \A i, j \in DOMAIN lane : i < j => lane[i].id <= lane[j].id

\* No item is pending twice.  This does not hold with two callers: a rewrite by
\* one between the push and the append of the other (509-515) writes the item,
\* the append writes it again, and open takes in both records.
PendingOnce ==
  faults = 0 => \A i, j \in DOMAIN Pending : Pending[i] = Pending[j] => i = j

\* "every accepted item is ... appended" and "open ... reloads the spool"
\* (16-21): without disk failures, an item whose enqueue returned Ok stays in
\* the file across any crash, unless a flush has taken it or room was made.
AckedDurable ==
  faults = 0 => \A a \in acked :
                  \/ a.data \in settled \union evicted \/ In(a, disk.lines)
                  \/ \E t \in Threads : pc[t] = "truncate" /\ In(a, held[t])

\* Every call returns: the loop that makes room ends, and the lock is always
\* given back.
CallsReturn == \A t \in Threads : []<>(pc[t] = "idle")

Durably == INSTANCE DurableQueue WITH
             control <- DataOf(Lane(disk.lines, "Control")),
             bulk <- DataOf(Lane(disk.lines, "Bulk")),
             taken <- settled

\* Used from one thread, with RejectNew and without disk failures, the queue
\* implements the durable queue whose lanes are those of the spool file:
\* try_enqueue takes effect when the record is written, flush when the file is
\* truncated, and a crash with the recovery after it changes nothing.
ImplementsDurableQueue == Durably!Spec
================================================================================
