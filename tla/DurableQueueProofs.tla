--------------------------- MODULE DurableQueueProofs ---------------------------
(***************************************************************************)
(* What the queue promises a caller who uses it from one thread with       *)
(* RejectNew: the order of the lanes and every acknowledged item survive   *)
(* crashes, and the file implements DurableQueue.  Both hypotheses are     *)
(* needed: with two threads none of this holds, and with EvictOldest what  *)
(* a refused call evicted comes back in place of an acknowledged item.     *)
(***************************************************************************)
EXTENDS StoreAndForwardProofs

USE ZenonT(40)

(***************************************************************************)
(* Lanes                                                                   *)
(***************************************************************************)
LaneStep(s, p) ==
  [c \in Seq(QueuedItem) \X (1..Len(s)) |->
     IF s[c[2]].priority = p THEN Append(c[1], s[c[2]]) ELSE c[1]]
Picks(g, s, p, n) ==
  \A i \in 1..n : g[i] = IF s[i].priority = p THEN Append(g[i - 1], s[i]) ELSE g[i - 1]
IsLane(g, s, p) ==
  g \in [0..Len(s) -> Seq(QueuedItem)] /\ g[0] = <<>> /\ Picks(g, s, p, Len(s))

\* Two lanes picked along sequences that agree as far as n agree there.
LEMMA LanesAgree ==
  ASSUME NEW s, NEW u, NEW p, NEW g, NEW h, NEW n \in Nat,
         \A i \in 1..n : s[i] = u[i],
         g[0] = h[0], Picks(g, s, p, n), Picks(h, u, p, n)
  PROVE  \A k \in 0..n : g[k] = h[k]
<1> DEFINE T == {k \in Nat : k <= n => g[k] = h[k]}
<1>1. 0 \in T
  OBVIOUS
<1>2. ASSUME NEW k \in Nat, k \in T PROVE k + 1 \in T
  <2> SUFFICES ASSUME k + 1 <= n PROVE g[k + 1] = h[k + 1]
    BY SMTT(40)
  <2>1. k + 1 \in 1..n /\ (k + 1) - 1 = k /\ g[k] = h[k]
    BY <1>2, SMTT(40)
  <2> QED
    BY <2>1 DEF Picks
<1> HIDE DEF T
<1>3. Nat \subseteq T
  BY <1>1, <1>2, InductionOnNat
<1> QED
  BY <1>3, SMTT(40) DEF T

\* Lane picks the items of one priority, in order.
LEMMA LanePicks ==
  ASSUME NEW s \in Seq(QueuedItem), NEW p
  PROVE  \E g : IsLane(g, s, p) /\ Lane(s, p) = g[Len(s)]
<1> DEFINE n == Len(s)
           step == LaneStep(s, p)
           IsUpTo(g) == g = [i \in 0..n |->
                              IF i = 0 THEN <<>>
                              ELSE IF s[i].priority = p THEN Append(g[i - 1], s[i]) ELSE g[i - 1]]
           upTo == CHOOSE g : IsUpTo(g)
<1>1. n \in Nat /\ \A i \in 1..n : s[i] \in QueuedItem
  BY SMTT(40)
<1>2. IsStep(step, Seq(QueuedItem), n)
  <2>1. ASSUME NEW c \in Seq(QueuedItem) \X (1..n)
        PROVE  (IF s[c[2]].priority = p THEN Append(c[1], s[c[2]]) ELSE c[1]) \in Seq(QueuedItem)
    <3>1. c[1] \in Seq(QueuedItem) /\ s[c[2]] \in QueuedItem
      BY <1>1
    <3>2. Append(c[1], s[c[2]]) \in Seq(QueuedItem)
      BY <3>1, SMTT(40)
    <3> QED
      BY <3>1, <3>2
  <2> QED
    BY <2>1 DEF IsStep, LaneStep
<1>3. PICK g : IsFold(g, Seq(QueuedItem), <<>>, n, step)
  <2>1. <<>> \in Seq(QueuedItem)
    BY SMTT(40)
  <2> HIDE DEF step, n
  <2> QED
    BY <1>1, <1>2, <2>1, FoldExists
<1>4. \A i \in 1..n : g[i] = IF s[i].priority = p THEN Append(g[i - 1], s[i]) ELSE g[i - 1]
  <2> TAKE i \in 1..n
  <2>1. i - 1 \in 0..n
    BY <1>1, SMTT(40)
  <2>2. <<g[i - 1], i>> \in Seq(QueuedItem) \X (1..n)
    BY <1>3, <2>1 DEF IsFold
  <2>3. g[i] = step[<<g[i - 1], i>>]
    BY <1>3 DEF IsFold
  <2> QED
    BY <2>2, <2>3 DEF LaneStep
<1>5. g \in [0..n -> Seq(QueuedItem)] /\ g[0] = <<>>
  BY <1>3 DEF IsFold
<1> HIDE DEF step
<1>6. IsUpTo(g)
  <2>1. \A i \in 0..n : g[i] = IF i = 0 THEN <<>>
                               ELSE IF s[i].priority = p THEN Append(g[i - 1], s[i]) ELSE g[i - 1]
    <3>1. \A i \in 0..n : i = 0 \/ i \in 1..n
      BY <1>1, SMTT(40)
    <3> HIDE DEF n
    <3> QED
      BY <1>4, <1>5, <3>1
  <2> QED
    BY <1>5, <2>1
<1>7. IsUpTo(upTo)
  BY <1>6
<1>8. Lane(s, p) = upTo[n]
  BY DEF Lane
<1>9. /\ DOMAIN upTo = 0..n /\ upTo[0] = <<>>
      /\ \A i \in 1..n : upTo[i] = IF s[i].priority = p THEN Append(upTo[i - 1], s[i]) ELSE upTo[i - 1]
  <2> HIDE DEF upTo
  <2>1. DOMAIN upTo = 0..n /\ 0 \in 0..n /\ \A i \in 1..n : i \in 0..n /\ i # 0
    BY <1>1, <1>7, SMTT(40)
  <2> QED
    BY <1>7, <2>1
<1> HIDE DEF upTo
<1>10. upTo[n] = g[n]
  <2>1. n \in 0..n /\ n \in Nat /\ upTo[0] = g[0]
    BY <1>1, <1>5, <1>9, SMTT(40)
  <2>2. Picks(g, s, p, n) /\ Picks(upTo, s, p, n)
    BY <1>4, <1>9 DEF Picks
  <2>3. \A i \in 1..n : s[i] = s[i]
    OBVIOUS
  <2> HIDE DEF n
  <2>4. \A k \in 0..n : upTo[k] = g[k]
    BY <2>1, <2>2, <2>3, LanesAgree, SMTT(40)
  <2> QED
    BY <2>1, <2>4
<1> QED
  BY <1>4, <1>5, <1>8, <1>10 DEF IsLane, Picks

\* An empty file has empty lanes, and lanes are sequences of items.
LEMMA LaneType ==
  ASSUME NEW p
  PROVE  Lane(<<>>, p) = <<>> /\ \A s \in Seq(QueuedItem) : Lane(s, p) \in Seq(QueuedItem)
<1>1. ASSUME NEW s \in Seq(QueuedItem)
      PROVE  Lane(s, p) \in Seq(QueuedItem) /\ (s = <<>> => Lane(s, p) = <<>>)
  <2>1. PICK g : IsLane(g, s, p) /\ Lane(s, p) = g[Len(s)]
    BY LanePicks
  <2>2. Len(s) \in 0..Len(s) /\ (s = <<>> => Len(s) = 0)
    BY SMTT(40)
  <2> QED
    BY <2>1, <2>2 DEF IsLane
<1>2. <<>> \in Seq(QueuedItem)
  BY SMTT(40)
<1> QED
  BY <1>1, <1>2

\* A record at the end of the file is an item at the back of its lane.
LEMMA LaneAppend ==
  ASSUME NEW s \in Seq(QueuedItem), NEW x \in QueuedItem, NEW p
  PROVE  Lane(Append(s, x), p) = IF x.priority = p THEN Append(Lane(s, p), x) ELSE Lane(s, p)
<1> DEFINE u == Append(s, x)
           n == Len(s)
<1>1. /\ u \in Seq(QueuedItem) /\ Len(u) = n + 1 /\ n \in Nat
      /\ u[n + 1] = x /\ \A i \in 1..n : s[i] = u[i]
  BY SMTT(40)
<1> HIDE DEF u
<1>2. PICK g : IsLane(g, s, p) /\ Lane(s, p) = g[n]
  BY LanePicks
<1>3. PICK h : IsLane(h, u, p) /\ Lane(u, p) = h[Len(u)]
  BY <1>1, LanePicks
<1>4. h[n + 1] = IF x.priority = p THEN Append(h[n], x) ELSE h[n]
  <2>1. n + 1 \in 1..Len(u) /\ (n + 1) - 1 = n
    BY <1>1, SMTT(40)
  <2> QED
    BY <1>1, <1>3, <2>1 DEF IsLane, Picks
<1>5. g[n] = h[n]
  <2>1. n \in 0..n /\ 1..n \subseteq 1..Len(u)
    BY <1>1, SMTT(40)
  <2>2. g[0] = h[0]
    BY <1>2, <1>3 DEF IsLane
  <2>3. Picks(g, s, p, n) /\ Picks(h, u, p, n)
    BY <1>2, <1>3, <2>1 DEF IsLane, Picks
  <2> HIDE DEF n
  <2>4. \A k \in 0..n : g[k] = h[k]
    BY <1>1, <2>2, <2>3, LanesAgree, SMTT(40)
  <2> QED
    BY <2>1, <2>4
<1> QED
  BY <1>1, <1>2, <1>3, <1>4, <1>5 DEF u

\* The two lanes share out the items of a file, and with them its length and
\* its bytes; every item of a lane has its priority.
LEMMA LanesPartition ==
  ASSUME NEW s \in Seq(QueuedItem)
  PROVE  /\ Items(s) = Items(Lane(s, "Control")) \union Items(Lane(s, "Bulk"))
         /\ Len(s) = Len(Lane(s, "Control")) + Len(Lane(s, "Bulk"))
         /\ Bytes(DataOf(s)) = Bytes(DataOf(Lane(s, "Control"))) + Bytes(DataOf(Lane(s, "Bulk")))
         /\ \A x \in Items(Lane(s, "Control")) : x.priority = "Control"
         /\ \A x \in Items(Lane(s, "Bulk")) : x.priority = "Bulk"
<1> DEFINE C(u) == Lane(u, "Control")
           B(u) == Lane(u, "Bulk")
           Shares(u) ==
             /\ Items(u) = Items(C(u)) \union Items(B(u))
             /\ Len(u) = Len(C(u)) + Len(B(u))
             /\ Bytes(DataOf(u)) = Bytes(DataOf(C(u))) + Bytes(DataOf(B(u)))
             /\ \A x \in Items(C(u)) : x.priority = "Control"
             /\ \A x \in Items(B(u)) : x.priority = "Bulk"
           T == {u \in Seq(QueuedItem) : Shares(u)}
<1>1. <<>> \in T
  <2>1. C(<<>>) = <<>> /\ B(<<>>) = <<>> /\ <<>> \in Seq(QueuedItem)
    BY LaneType, SMTT(40)
  <2>2. Bytes(DataOf(<<>>)) = 0 /\ Items(<<>>) = {}
    BY <2>1, LaneBytes, ItemsBasic
  <2>3. Shares(<<>>)
    BY <2>1, <2>2, SMTT(40)
  <2> QED
    BY <2>1, <2>3
<1>2. ASSUME NEW u \in Seq(QueuedItem), NEW x \in QueuedItem, u \in T PROVE Append(u, x) \in T
  <2> DEFINE v == Append(u, x)
  <2>1. v \in Seq(QueuedItem) /\ Shares(u) /\ C(u) \in Seq(QueuedItem) /\ B(u) \in Seq(QueuedItem)
    <3>1. C(u) \in Seq(QueuedItem) /\ B(u) \in Seq(QueuedItem)
      BY LaneType
    <3>2. v \in Seq(QueuedItem)
      BY SMTT(40)
    <3> HIDE DEF Shares
    <3> QED
      BY <1>2, <3>1, <3>2
  <2>2. x.priority \in {"Control", "Bulk"} /\ Size[x.data] \in Nat
    BY SizeAssumption DEF QueuedItem, Priority
  <2>3. \/ x.priority = "Control" /\ C(v) = Append(C(u), x) /\ B(v) = B(u)
        \/ x.priority = "Bulk" /\ B(v) = Append(B(u), x) /\ C(v) = C(u)
    BY <2>2, LaneAppend, SMTT(40)
  <2>4. \A w \in Seq(QueuedItem) :
          /\ Items(Append(w, x)) = Items(w) \union {x}
          /\ Len(Append(w, x)) = Len(w) + 1 /\ Len(w) \in Nat
          /\ Bytes(DataOf(Append(w, x))) = Bytes(DataOf(w)) + Size[x.data]
          /\ Bytes(DataOf(w)) \in Nat
    BY ItemsAppend, LaneBytes, SMTT(40)
  <2>5. /\ Items(v) = Items(u) \union {x} /\ Len(v) = Len(u) + 1
        /\ Bytes(DataOf(v)) = Bytes(DataOf(u)) + Size[x.data]
    BY <2>4
  <2> HIDE DEF C, B, v
  <2>6. CASE x.priority = "Control" /\ C(v) = Append(C(u), x) /\ B(v) = B(u)
    <3>1. /\ Items(C(v)) = Items(C(u)) \union {x} /\ Len(C(v)) = Len(C(u)) + 1
          /\ Bytes(DataOf(C(v))) = Bytes(DataOf(C(u))) + Size[x.data]
          /\ Bytes(DataOf(C(u))) \in Nat /\ Len(C(u)) \in Nat
          /\ Bytes(DataOf(B(u))) \in Nat /\ Len(B(u)) \in Nat
      BY <2>1, <2>4, <2>6
    <3>2. Len(v) = Len(C(v)) + Len(B(v))
      BY <2>1, <2>5, <2>6, <3>1, SMTT(40)
    <3>3. Bytes(DataOf(v)) = Bytes(DataOf(C(v))) + Bytes(DataOf(B(v)))
      BY <2>1, <2>2, <2>5, <2>6, <3>1, SMTT(40)
    <3>4. Shares(v)
      BY <2>1, <2>5, <2>6, <3>1, <3>2, <3>3
    <3> QED
      BY <2>1, <3>4 DEF v
  <2>7. CASE x.priority = "Bulk" /\ B(v) = Append(B(u), x) /\ C(v) = C(u)
    <3>1. /\ Items(B(v)) = Items(B(u)) \union {x} /\ Len(B(v)) = Len(B(u)) + 1
          /\ Bytes(DataOf(B(v))) = Bytes(DataOf(B(u))) + Size[x.data]
          /\ Bytes(DataOf(C(u))) \in Nat /\ Len(C(u)) \in Nat
          /\ Bytes(DataOf(B(u))) \in Nat /\ Len(B(u)) \in Nat
      BY <2>1, <2>4, <2>7
    <3>2. Len(v) = Len(C(v)) + Len(B(v))
      BY <2>1, <2>5, <2>7, <3>1, SMTT(40)
    <3>3. Bytes(DataOf(v)) = Bytes(DataOf(C(v))) + Bytes(DataOf(B(v)))
      BY <2>1, <2>2, <2>5, <2>7, <3>1, SMTT(40)
    <3>4. Shares(v)
      BY <2>1, <2>5, <2>7, <3>1, <3>2, <3>3
    <3> QED
      BY <2>1, <3>4 DEF v
  <2> QED
    BY <2>3, <2>6, <2>7
<1> HIDE DEF T
<1>3. Seq(QueuedItem) \subseteq T
  BY <1>1, <1>2, InductionOnSeq
<1>4. s \in T
  BY <1>3
<1> QED
  BY <1>4 DEF T

\* The lane of two files one after the other.
LEMMA LaneConcat ==
  ASSUME NEW s \in Seq(QueuedItem), NEW u \in Seq(QueuedItem), NEW p
  PROVE  Lane(s \o u, p) = Lane(s, p) \o Lane(u, p)
<1> DEFINE T == {v \in Seq(QueuedItem) : Lane(s \o v, p) = Lane(s, p) \o Lane(v, p)}
<1>0. Lane(s, p) \in Seq(QueuedItem)
  BY LaneType
<1>1. <<>> \in T
  <2>1. s \o <<>> = s /\ Lane(<<>>, p) = <<>> /\ Lane(s, p) \o <<>> = Lane(s, p)
    BY <1>0, LaneType, ConcatEdges
  <2>2. Lane(s \o <<>>, p) = Lane(s, p) \o Lane(<<>>, p)
    BY <2>1
  <2> QED
    BY <2>2, SMTT(40)
<1>2. ASSUME NEW v \in Seq(QueuedItem), NEW x \in QueuedItem, v \in T PROVE Append(v, x) \in T
  <2>1. Append(v, x) \in Seq(QueuedItem) /\ s \o v \in Seq(QueuedItem) /\ Lane(v, p) \in Seq(QueuedItem)
    <3>1. Append(v, x) \in Seq(QueuedItem) /\ s \o v \in Seq(QueuedItem)
      BY SMTT(40)
    <3>2. Lane(v, p) \in Seq(QueuedItem)
      BY LaneType
    <3> QED
      BY <3>1, <3>2
  <2>2. s \o Append(v, x) = Append(s \o v, x)
    BY ConcatEdges, SMTT(40)
  <2>3. Lane(s, p) \o Append(Lane(v, p), x) = Append(Lane(s, p) \o Lane(v, p), x)
    BY <1>0, <2>1, ConcatEdges, SMTT(40)
  <2>4. Lane(Append(s \o v, x), p) =
          IF x.priority = p THEN Append(Lane(s \o v, p), x) ELSE Lane(s \o v, p)
    BY <2>1, LaneAppend
  <2>5. Lane(Append(v, x), p) = IF x.priority = p THEN Append(Lane(v, p), x) ELSE Lane(v, p)
    BY LaneAppend
  <2>6. Lane(s \o v, p) = Lane(s, p) \o Lane(v, p)
    BY <1>2
  <2>7. Lane(s \o Append(v, x), p) = Lane(s, p) \o Lane(Append(v, x), p)
    BY <2>2, <2>3, <2>4, <2>5, <2>6
  <2> QED
    BY <2>1, <2>7
<1> HIDE DEF T
<1>3. Seq(QueuedItem) \subseteq T
  BY <1>1, <1>2, InductionOnSeq
<1>4. u \in T
  BY <1>3
<1> QED
  BY <1>4 DEF T

\* A file of one priority is its own lane, and the other lane is empty.
LEMMA LaneOwn ==
  ASSUME NEW s \in Seq(QueuedItem), NEW p, NEW q
  PROVE  (\A x \in Items(s) : x.priority = q) => Lane(s, p) = IF p = q THEN s ELSE <<>>
<1> DEFINE Own(v) == (\A x \in Items(v) : x.priority = q) => Lane(v, p) = IF p = q THEN v ELSE <<>>
           T == {v \in Seq(QueuedItem) : Own(v)}
<1>1. <<>> \in T
  BY LaneType, SMTT(40)
<1>2. ASSUME NEW v \in Seq(QueuedItem), NEW x \in QueuedItem, v \in T PROVE Append(v, x) \in T
  <2>1. Append(v, x) \in Seq(QueuedItem) /\ Items(Append(v, x)) = Items(v) \union {x}
    BY ItemsAppend, SMTT(40)
  <2>2. Lane(Append(v, x), p) = IF x.priority = p THEN Append(Lane(v, p), x) ELSE Lane(v, p)
    BY LaneAppend
  <2>3. Own(Append(v, x))
    BY <1>2, <2>1, <2>2
  <2> QED
    BY <2>1, <2>3
<1> HIDE DEF T
<1>3. Seq(QueuedItem) \subseteq T
  BY <1>1, <1>2, InductionOnSeq
<1>4. s \in T
  BY <1>3
<1> QED
  BY <1>4 DEF T

\* The bytes of two files one after the other.
LEMMA BytesConcat ==
  ASSUME NEW s \in Seq(QueuedItem), NEW u \in Seq(QueuedItem)
  PROVE  Bytes(DataOf(s \o u)) = Bytes(DataOf(s)) + Bytes(DataOf(u))
<1> DEFINE W(v) == Bytes(DataOf(v))
           T == {v \in Seq(QueuedItem) : W(s \o v) = W(s) + W(v)}
<1>0. \A v \in Seq(QueuedItem) : W(v) \in Nat
  BY LaneBytes
<1>1. <<>> \in T
  <2>1. s \o <<>> = s /\ W(<<>>) = 0 /\ W(s) \in Nat
    BY <1>0, LaneBytes, ConcatEdges
  <2> QED
    BY <2>1, SMTT(40)
<1>2. ASSUME NEW v \in Seq(QueuedItem), NEW x \in QueuedItem, v \in T PROVE Append(v, x) \in T
  <2>1. Append(v, x) \in Seq(QueuedItem) /\ s \o v \in Seq(QueuedItem) /\ Size[x.data] \in Nat
    BY SizeAssumption, SMTT(40) DEF QueuedItem
  <2>2. s \o Append(v, x) = Append(s \o v, x)
    BY ConcatEdges, SMTT(40)
  <2>3. W(Append(s \o v, x)) = W(s \o v) + Size[x.data] /\ W(Append(v, x)) = W(v) + Size[x.data]
    BY <2>1, LaneBytes
  <2>4. W(s) \in Nat /\ W(v) \in Nat /\ W(s \o v) = W(s) + W(v)
    BY <1>0, <1>2
  <2> HIDE DEF W
  <2>5. W(s \o Append(v, x)) = W(s) + W(Append(v, x))
    BY <2>1, <2>2, <2>3, <2>4, SMTT(40)
  <2> QED
    BY <2>1, <2>5
<1> HIDE DEF T
<1>3. Seq(QueuedItem) \subseteq T
  BY <1>1, <1>2, InductionOnSeq
<1>4. u \in T
  BY <1>3
<1> QED
  BY <1>4 DEF T
--------------------------------------------------------------------------------
(***************************************************************************)
(* The queue used from one thread, with RejectNew.  Mirror says what the   *)
(* file holds at every point of a call; Kept adds what a healthy disk      *)
(* keeps through a crash, and is needed for the recovery after it.         *)
(***************************************************************************)
Sequential == ~EvictOldest /\ \A t, u \in Threads : t = u

Holds(lines, c, b) == Lane(lines, "Control") = c /\ Lane(lines, "Bulk") = b
Strict(s) == \A i, j \in DOMAIN s : i < j => s[i].id < s[j].id

NoCompaction == \A t \in Threads : pc[t] # "compact" /\ compact_needed[t] = FALSE
Sorted == /\ \A x \in Items(control) : x.priority = "Control"
          /\ \A x \in Items(bulk) : x.priority = "Bulk"

Mirror ==
  boot = "disk" /\ stats.persist_errors = 0 =>
    /\ (\A t \in Threads : pc[t] \in {"idle", "room"}) => Holds(disk.lines, control, bulk)
    /\ \A t \in Threads :
         /\ pc[t] = "append" =>
              /\ Holds(Append(disk.lines, held[t][1]), control, bulk)
              /\ held[t][1].data \notin Data(disk.lines)
         /\ pc[t] = "truncate" =>
              /\ control = <<>> /\ bulk = <<>>
              /\ held[t] = Lane(disk.lines, "Control") \o Lane(disk.lines, "Bulk")

Kept ==
  faults = 0 =>
    /\ boot = "disk" => stats.persist_errors = 0
    /\ Len(disk.lines) <= MaxItems /\ Bytes(DataOf(disk.lines)) <= MaxBytes
    /\ Strict(Lane(disk.lines, "Control")) /\ Strict(Lane(disk.lines, "Bulk"))
    /\ Strict(control) /\ Strict(bulk)
    /\ boot = "recovering" =>
         /\ stats.persist_errors = 0
         /\ \E done \in Seq(QueuedItem) :
              disk.lines = done \o recovered /\ Holds(done, control, bulk)

AckedStays == faults = 0 => \A a \in acked : a.data \in settled \/ a \in Items(disk.lines)

\* try_enqueue and open put an item in the lane of its priority.
LEMMA SortedNext == Typed /\ Sorted /\ [Next]_vars => Sorted'
<1> SUFFICES ASSUME Typed, Sorted, [Next]_vars PROVE Sorted'
  OBVIOUS
<1>t. /\ TypeOK /\ control \in Seq(QueuedItem) /\ bulk \in Seq(QueuedItem)
      /\ recovered \in Seq(QueuedItem)
  BY DEF Typed, TypeOK
<1>s. /\ \A x \in Items(control) : x.priority = "Control"
      /\ \A x \in Items(bulk) : x.priority = "Bulk"
  BY DEF Sorted
<1>q. ASSUME UNCHANGED <<control, bulk>> PROVE Sorted'
  BY <1>q, <1>s DEF Sorted
<1>e. ASSUME control' = <<>>, bulk' = <<>> PROVE Sorted'
  BY <1>e, ItemsBasic DEF Sorted
<1>a. ASSUME NEW item \in QueuedItem,
             IF item.priority = "Control"
             THEN control' = Append(control, item) /\ UNCHANGED bulk
             ELSE bulk' = Append(bulk, item) /\ UNCHANGED control
      PROVE  Sorted'
  <2>1. /\ Items(Append(control, item)) = Items(control) \union {item}
        /\ Items(Append(bulk, item)) = Items(bulk) \union {item}
    BY <1>t, ItemsAppend, SMTT(40)
  <2>2. item.priority \in {"Control", "Bulk"}
    BY DEF QueuedItem, Priority
  <2> QED
    BY <1>a, <1>s, <2>1, <2>2 DEF Sorted
<1>1. ASSUME NEW t \in Threads, NEW p \in Payloads, RejectTooLarge(t, p) PROVE Sorted'
  BY <1>1, <1>q DEF RejectTooLarge, inner
<1>2. ASSUME NEW t \in Threads, NEW p \in Payloads, NEW priority \in Priority,
             EnqueueLock(t, p, priority)
      PROVE  Sorted'
  BY <1>2, <1>q DEF EnqueueLock, inner
<1>3. ASSUME NEW t \in Threads, EvictBulk(t) PROVE Sorted'
  <2>1. bulk # <<>> /\ bulk' = Tail(bulk) /\ control' = control
    BY <1>3 DEF EvictBulk
  <2>2. Items(bulk') \subseteq Items(bulk)
    BY <1>t, <2>1, ItemsTail
  <2> QED
    BY <1>s, <2>1, <2>2 DEF Sorted
<1>4. ASSUME NEW t \in Threads, RejectFull(t) PROVE Sorted'
  BY <1>4, <1>q DEF RejectFull, inner
<1>5. ASSUME NEW t \in Threads, Push(t) PROVE Sorted'
  <2> DEFINE item == [held[t][1] EXCEPT !.id = next_id]
  <2>1. item \in QueuedItem
    BY <1>5, <1>t, HeldItem DEF Push, Typed, TypeOK, QueuedItem
  <2>2. IF item.priority = "Control"
        THEN control' = Append(control, item) /\ UNCHANGED bulk
        ELSE bulk' = Append(bulk, item) /\ UNCHANGED control
    BY <1>5 DEF Push
  <2> HIDE DEF item
  <2> QED
    BY <1>a, <2>1, <2>2
<1>6. ASSUME NEW t \in Threads,
             AppendSpool(t) \/ CompactSpool(t) \/ FlushTruncate(t) \/ Persist(t)
      PROVE  Sorted'
  BY <1>6, <1>q DEF AppendSpool, CompactSpool, FlushTruncate, Persist, inner
<1>7. ASSUME NEW t \in Threads, FlushDrain(t) PROVE Sorted'
  BY <1>7, <1>e DEF FlushDrain
<1>8. CASE Crash
  BY <1>8, <1>e DEF Crash, EmptyInner
<1>9. CASE Open \/ OpenFails \/ RecoverDone
  BY <1>9, <1>q DEF Open, OpenFails, RecoverDone, inner
<1>10. CASE RecoverItem
  <2>1. Head(recovered) \in QueuedItem
    BY <1>10, <1>t, SMTT(40) DEF RecoverItem
  <2>2. \/ UNCHANGED <<control, bulk>>
        \/ IF Head(recovered).priority = "Control"
           THEN control' = Append(control, Head(recovered)) /\ UNCHANGED bulk
           ELSE bulk' = Append(bulk, Head(recovered)) /\ UNCHANGED control
    BY <1>10 DEF RecoverItem, inner
  <2> QED
    BY <1>a, <1>q, <2>1, <2>2
<1>11. CASE UNCHANGED vars
  BY <1>11, <1>q DEF vars, inner
<1> QED
  BY <1>1, <1>2, <1>3, <1>4, <1>5, <1>6, <1>7, <1>8, <1>9, <1>10, <1>11 DEF Next, ThreadStep

\* With RejectNew nothing is evicted, so no call ends in a compaction.
LEMMA NoCompactionNext ==
  ASSUME Sequential
  PROVE  Typed /\ NoCompaction /\ [Next]_vars => NoCompaction'
<1> SUFFICES ASSUME Typed, NoCompaction, [Next]_vars PROVE NoCompaction'
  OBVIOUS
<1>t. pc \in [Threads -> CallState] /\ compact_needed \in [Threads -> BOOLEAN]
  BY DEF Typed, TypeOK
<1>q. ASSUME UNCHANGED <<pc, compact_needed>> PROVE NoCompaction'
  BY <1>q, SMTT(40) DEF NoCompaction
<1>r. ASSUME NEW t \in Threads, Return(t) PROVE NoCompaction'
  BY <1>r, <1>t DEF NoCompaction, Return
<1>1. ASSUME NEW t \in Threads, NEW p \in Payloads, RejectTooLarge(t, p) PROVE NoCompaction'
  BY <1>1, <1>q DEF RejectTooLarge, calls
<1>2. ASSUME NEW t \in Threads, NEW p \in Payloads, NEW priority \in Priority,
             EnqueueLock(t, p, priority)
      PROVE  NoCompaction'
  BY <1>2, <1>t DEF EnqueueLock, NoCompaction
<1>3. ASSUME NEW t \in Threads, EvictBulk(t) PROVE NoCompaction'
  BY <1>3 DEF EvictBulk, Sequential
<1>4. ASSUME NEW t \in Threads, Push(t) PROVE NoCompaction'
  <2>1. /\ compact_needed' = compact_needed /\ compact_needed[t] = FALSE
        /\ pc' = [pc EXCEPT ![t] = IF compact_needed[t] THEN "compact" ELSE "append"]
    BY <1>4, SMTT(40) DEF Push, NoCompaction
  <2>2. pc' = [pc EXCEPT ![t] = "append"]
    BY <2>1
  <2> QED
    BY <1>t, <2>1, <2>2 DEF NoCompaction
<1>5. ASSUME NEW t \in Threads,
             RejectFull(t) \/ AppendSpool(t) \/ CompactSpool(t) \/ FlushTruncate(t)
      PROVE  NoCompaction'
  BY <1>5, <1>r DEF RejectFull, AppendSpool, CompactSpool, FlushTruncate
<1>6. ASSUME NEW t \in Threads, FlushDrain(t) PROVE NoCompaction'
  BY <1>6, <1>t DEF FlushDrain, NoCompaction
<1>7. ASSUME NEW t \in Threads, Persist(t) PROVE NoCompaction'
  BY <1>7, <1>q DEF Persist, calls
<1>8. CASE Crash
  BY <1>8 DEF Crash, NoCompaction
<1>9. CASE Open \/ OpenFails \/ RecoverItem \/ RecoverDone \/ UNCHANGED vars
  BY <1>9, <1>q DEF Open, OpenFails, RecoverItem, RecoverDone, vars, calls
<1> QED
  BY <1>1, <1>2, <1>3, <1>4, <1>5, <1>6, <1>7, <1>8, <1>9 DEF Next, ThreadStep

\* rewrite_spool writes the control lane before the bulk lane, so that reading
\* the file back gives the two lanes.
LEMMA PendingHolds ==
  ASSUME TypeOK, Sorted
  PROVE  Holds(Pending, control, bulk)
<1>1. control \in Seq(QueuedItem) /\ bulk \in Seq(QueuedItem)
  BY DEF TypeOK
<1>2. /\ Lane(control \o bulk, "Control") = Lane(control, "Control") \o Lane(bulk, "Control")
      /\ Lane(control \o bulk, "Bulk") = Lane(control, "Bulk") \o Lane(bulk, "Bulk")
  BY <1>1, LaneConcat, SMTT(40)
<1>3. Lane(control, "Control") = control /\ Lane(control, "Bulk") = <<>>
  BY <1>1, LaneOwn DEF Sorted
<1>4. Lane(bulk, "Control") = <<>> /\ Lane(bulk, "Bulk") = bulk
  BY <1>1, LaneOwn DEF Sorted
<1>5. control \o <<>> = control /\ <<>> \o bulk = bulk
  BY <1>1, ConcatEdges
<1> QED
  BY <1>2, <1>3, <1>4, <1>5 DEF Holds, Pending

\* An item written after the others is last in its lane.
LEMMA HoldsAppend ==
  ASSUME NEW s \in Seq(QueuedItem), NEW x \in QueuedItem, NEW c, NEW b, NEW c1, NEW b1,
         Holds(s, c, b),
         IF x.priority = "Control" THEN c1 = Append(c, x) /\ b1 = b
                                   ELSE b1 = Append(b, x) /\ c1 = c
  PROVE  Holds(Append(s, x), c1, b1)
<1>1. /\ Lane(Append(s, x), "Control")
           = IF x.priority = "Control" THEN Append(Lane(s, "Control"), x) ELSE Lane(s, "Control")
      /\ Lane(Append(s, x), "Bulk")
           = IF x.priority = "Bulk" THEN Append(Lane(s, "Bulk"), x) ELSE Lane(s, "Bulk")
  BY LaneAppend
<1>2. x.priority \in {"Control", "Bulk"} /\ "Control" # "Bulk"
  BY DEF QueuedItem, Priority
<1>3. CASE x.priority = "Control"
  BY <1>1, <1>2, <1>3 DEF Holds
<1>4. CASE x.priority = "Bulk"
  BY <1>1, <1>2, <1>4 DEF Holds
<1> QED
  BY <1>2, <1>3, <1>4

\* A file with the lanes of the queue has its items, their number and bytes.
LEMMA HoldsMeans ==
  ASSUME TypeOK, NEW s \in Seq(QueuedItem), Holds(s, control, bulk)
  PROVE  /\ Items(s) = Items(Pending) /\ Len(s) = pending_items
         /\ Bytes(DataOf(s)) = Bytes(DataOf(control)) + Bytes(DataOf(bulk))
<1>1. Items(Pending) = Items(control) \union Items(bulk)
  BY ItemsConcat DEF TypeOK, Pending
<1> QED
  BY <1>1, LanesPartition DEF Holds, pending_items

\* One thread: what its call does is all that happens, so the file and the
\* lanes are apart only between the two critical sections of that call.
LEMMA MirrorNext ==
  ASSUME Sequential
  PROVE  Typed /\ Asleep /\ Apart /\ Filed /\ NoCompaction /\ Sorted /\ Mirror /\ [Next]_vars
           => Mirror'
<1> SUFFICES ASSUME Typed, Asleep, Apart, Filed, NoCompaction, Sorted, Mirror, [Next]_vars,
                    boot' = "disk", stats'.persist_errors = 0
             PROVE  Mirror'
  BY DEF Mirror
<1>t. /\ TypeOK /\ HoldsOne /\ control \in Seq(QueuedItem) /\ bulk \in Seq(QueuedItem)
      /\ recovered \in Seq(QueuedItem) /\ disk \in SpoolFile /\ disk.lines \in Seq(QueuedItem)
      /\ pc \in [Threads -> CallState] /\ held \in [Threads -> Seq(QueuedItem)]
      /\ stats \in Stats /\ stats.persist_errors \in Nat
  BY DEF Typed, TypeOK, Stats, SpoolFile
<1>o. \A t, u \in Threads : t = u
  BY DEF Sequential
<1>c. ASSUME \A t \in Threads : pc'[t] \in {"idle", "room"}, Holds(disk'.lines, control', bulk')
      PROVE  Mirror'
  BY <1>c DEF Mirror
<1>b. ASSUME boot = "disk", stats.persist_errors = 0, NEW t \in Threads, pc[t] \in {"idle", "room"}
      PROVE  Holds(disk.lines, control, bulk)
  BY <1>b, <1>o DEF Mirror
<1>d. ASSUME NEW t \in Threads, NEW v, pc' = [pc EXCEPT ![t] = v]
      PROVE  \A u \in Threads : u = t /\ pc'[u] = v
  BY <1>d, <1>o, <1>t
<1>w. ASSUME NEW replaced \in BOOLEAN, RewriteSpool(replaced), boot \in {"disk", "recovering"},
             UNCHANGED <<control, bulk>>
      PROVE  Holds(disk'.lines, control', bulk')
  <2>1. disk' = Rewritten(Pending) /\ Holds(Pending, control, bulk)
    BY <1>w, <1>t, RewriteFiles, PendingHolds
  <2>2. disk'.lines = Pending
    BY <2>1 DEF Rewritten
  <2> QED
    BY <1>w, <2>1, <2>2
<1>1. ASSUME NEW t \in Threads, NEW p \in Payloads, RejectTooLarge(t, p) PROVE Mirror'
  <2>1. /\ UNCHANGED <<boot, control, bulk, disk, pc>> /\ pc[t] = "idle"
        /\ stats'.persist_errors = stats.persist_errors
    BY <1>1, <1>t DEF RejectTooLarge, inner, calls, Bump, Stats
  <2>2. Holds(disk.lines, control, bulk) /\ \A u \in Threads : pc'[u] \in {"idle", "room"}
    BY <1>b, <1>o, <2>1
  <2> QED
    BY <1>c, <2>1, <2>2
<1>2. ASSUME NEW t \in Threads, NEW p \in Payloads, NEW priority \in Priority,
             EnqueueLock(t, p, priority)
      PROVE  Mirror'
  <2>1. /\ UNCHANGED <<boot, control, bulk, disk, stats>> /\ pc[t] = "idle"
        /\ pc' = [pc EXCEPT ![t] = "room"]
    BY <1>2 DEF EnqueueLock, inner
  <2>2. Holds(disk.lines, control, bulk) /\ \A u \in Threads : pc'[u] \in {"idle", "room"}
    BY <1>b, <1>d, <2>1
  <2> QED
    BY <1>c, <2>1, <2>2
<1>3. ASSUME NEW t \in Threads, EvictBulk(t) PROVE Mirror'
  BY <1>3 DEF EvictBulk, Sequential
<1>4. ASSUME NEW t \in Threads, RejectFull(t) PROVE Mirror'
  <2>1. /\ UNCHANGED <<boot, control, bulk, disk>> /\ pc[t] = "room"
        /\ pc' = [pc EXCEPT ![t] = "idle"]
        /\ stats'.persist_errors = stats.persist_errors
    BY <1>4, <1>t DEF RejectFull, inner, Return, Bump, Stats
  <2>2. Holds(disk.lines, control, bulk) /\ \A u \in Threads : pc'[u] \in {"idle", "room"}
    BY <1>b, <1>d, <2>1
  <2> QED
    BY <1>c, <2>1, <2>2
<1>5. ASSUME NEW t \in Threads, Push(t) PROVE Mirror'
  <2> DEFINE item == [held[t][1] EXCEPT !.id = next_id]
  <2>1. /\ item \in QueuedItem /\ item.data = held[t][1].data
    BY <1>5, <1>t, HeldItem DEF Push, Typed, TypeOK, QueuedItem
  <2>2. IF item.priority = "Control"
        THEN control' = Append(control, item) /\ bulk' = bulk
        ELSE bulk' = Append(bulk, item) /\ control' = control
    BY <1>5 DEF Push
  <2>3. /\ UNCHANGED <<boot, disk>> /\ pc[t] = "room" /\ held' = [held EXCEPT ![t] = <<item>>]
        /\ stats'.persist_errors = stats.persist_errors
        /\ pc' = [pc EXCEPT ![t] = IF compact_needed[t] THEN "compact" ELSE "append"]
    BY <1>5, <1>t DEF Push, Bump, Stats
  <2>4. compact_needed[t] = FALSE
    BY DEF NoCompaction
  <2>5. pc' = [pc EXCEPT ![t] = "append"]
    BY <2>3, <2>4
  <2>6. item.data \notin Data(disk.lines)
    BY <2>1, <2>3 DEF Apart, OfferedIsNew, OnDisk
  <2> HIDE DEF item
  <2>7. Holds(disk.lines, control, bulk)
    BY <1>b, <2>3
  <2>8. Holds(Append(disk.lines, item), control', bulk')
    BY <1>t, <2>1, <2>2, <2>7, HoldsAppend
  <2>9. \A u \in Threads : u = t /\ pc'[u] = "append" /\ held'[u] = <<item>>
    <3>1. \A u \in Threads : u = t /\ pc'[u] = "append"
      BY <1>d, <2>5
    <3>2. held'[t] = <<item>>
      BY <1>t, <2>3
    <3> QED
      BY <3>1, <3>2
  <2>10. \A u \in Threads : held'[u][1] = item
    BY <2>9, SMTT(40)
  <2> QED
    BY <2>3, <2>6, <2>8, <2>9, <2>10 DEF Mirror
<1>6. ASSUME NEW t \in Threads, AppendSpool(t) PROVE Mirror'
  <2>1. /\ UNCHANGED <<boot, control, bulk>> /\ pc[t] = "append"
        /\ pc' = [pc EXCEPT ![t] = "idle"]
    BY <1>6 DEF AppendSpool, inner, Return
  <2>2. stats' = stats /\ disk' = WholeLine(disk, held[t][1])
    BY <1>6, <2>1, AppendWrites DEF Filed
  <2>3. disk.tail = "none"
    BY <2>1, <2>2 DEF Filed, OnFile
  <2>4. disk'.lines = Append(disk.lines, held[t][1])
    BY <1>t, <2>2, <2>3 DEF WholeLine, SpoolFile
  <2>5. Holds(Append(disk.lines, held[t][1]), control, bulk)
    BY <2>1, <2>2 DEF Mirror
  <2>6. \A u \in Threads : pc'[u] \in {"idle", "room"}
    BY <1>d, <2>1
  <2> QED
    BY <1>c, <2>1, <2>4, <2>5, <2>6
<1>7. ASSUME NEW t \in Threads, CompactSpool(t) PROVE Mirror'
  BY <1>7 DEF CompactSpool, NoCompaction
<1>8. ASSUME NEW t \in Threads, FlushDrain(t) PROVE Mirror'
  <2>1. /\ UNCHANGED <<boot, disk>> /\ pc[t] = "idle" /\ control' = <<>> /\ bulk' = <<>>
        /\ held' = [held EXCEPT ![t] = Pending] /\ pc' = [pc EXCEPT ![t] = "truncate"]
        /\ stats'.persist_errors = stats.persist_errors
    BY <1>8, <1>t DEF FlushDrain, Stats
  <2>2. Pending = Lane(disk.lines, "Control") \o Lane(disk.lines, "Bulk")
    BY <1>b, <2>1 DEF Holds, Pending
  <2>3. \A u \in Threads : u = t /\ pc'[u] = "truncate" /\ held'[u] = Pending
    BY <1>d, <1>t, <2>1
  <2> QED
    BY <2>1, <2>2, <2>3 DEF Mirror
<1>9. ASSUME NEW t \in Threads, FlushTruncate(t) PROVE Mirror'
  <2>1. /\ UNCHANGED <<boot, control, bulk>> /\ pc' = [pc EXCEPT ![t] = "idle"]
        /\ \E replaced \in BOOLEAN : RewriteSpool(replaced)
    BY <1>9 DEF FlushTruncate, inner, Return
  <2>2. Holds(disk'.lines, control', bulk') /\ \A u \in Threads : pc'[u] \in {"idle", "room"}
    BY <1>w, <1>d, <2>1
  <2> QED
    BY <1>c, <2>2
<1>10. ASSUME NEW t \in Threads, Persist(t) PROVE Mirror'
  <2>1. /\ UNCHANGED <<boot, control, bulk, pc>> /\ pc[t] = "idle"
        /\ \E replaced \in BOOLEAN : RewriteSpool(replaced)
    BY <1>10 DEF Persist, inner, calls
  <2>2. Holds(disk'.lines, control', bulk') /\ \A u \in Threads : pc'[u] \in {"idle", "room"}
    BY <1>w, <1>o, <2>1
  <2> QED
    BY <1>c, <2>2
<1>11. CASE Crash \/ Open \/ OpenFails \/ RecoverItem
  BY <1>11 DEF Crash, Open, OpenFails, RecoverItem
<1>12. CASE RecoverDone
  <2>1. /\ UNCHANGED <<control, bulk, pc>> /\ boot = "recovering"
        /\ \E replaced \in BOOLEAN : RewriteSpool(replaced)
    BY <1>12 DEF RecoverDone, inner, calls
  <2>2. \A u \in Threads : pc'[u] \in {"idle", "room"}
    BY <2>1 DEF Asleep, Running
  <2> QED
    BY <1>c, <1>w, <2>1, <2>2
<1>13. CASE UNCHANGED vars
  BY <1>13 DEF vars, inner, calls, Mirror
<1> QED
  BY <1>1, <1>2, <1>3, <1>4, <1>5, <1>6, <1>7, <1>8, <1>9, <1>10, <1>11, <1>12, <1>13
     DEF Next, ThreadStep

\* Ids along a lane: a new largest id at the back, and the front of a lane.
LEMMA StrictAppend ==
  ASSUME NEW s \in Seq(QueuedItem), NEW x \in QueuedItem, Strict(s), \A y \in Items(s) : y.id < x.id
  PROVE  Strict(Append(s, x))
<1>1. /\ DOMAIN Append(s, x) = 1..(Len(s) + 1) /\ DOMAIN s = 1..Len(s) /\ Len(s) \in Nat
      /\ \A i \in 1..Len(s) : Append(s, x)[i] = s[i]
      /\ Append(s, x)[Len(s) + 1] = x
  BY SMTT(40)
<1>2. \A i \in 1..Len(s) : s[i].id < x.id
  BY <1>1 DEF Items
<1> SUFFICES ASSUME NEW i \in 1..(Len(s) + 1), NEW j \in 1..(Len(s) + 1), i < j
             PROVE  Append(s, x)[i].id < Append(s, x)[j].id
  BY <1>1 DEF Strict
<1>3. i \in 1..Len(s) /\ (j \in 1..Len(s) \/ j = Len(s) + 1)
  BY <1>1, SMTT(40)
<1>4. CASE j \in 1..Len(s)
  BY <1>1, <1>3, <1>4 DEF Strict
<1>5. CASE j = Len(s) + 1
  BY <1>1, <1>2, <1>3, <1>5
<1> QED
  BY <1>3, <1>4, <1>5

\* The front of a lane in order is in order.
LEMMA StrictFront ==
  ASSUME NEW s \in Seq(QueuedItem), NEW u \in Seq(QueuedItem), Strict(s \o u)
  PROVE  Strict(s)
<1>1. /\ DOMAIN s = 1..Len(s) /\ DOMAIN (s \o u) = 1..(Len(s) + Len(u))
      /\ Len(s) \in Nat /\ Len(u) \in Nat
      /\ \A i \in 1..Len(s) : (s \o u)[i] = s[i]
  BY SMTT(40)
<1>2. \A i \in 1..Len(s) : i \in 1..(Len(s) + Len(u))
  BY <1>1, SMTT(40)
<1> QED
  BY <1>1, <1>2, SMTT(40) DEF Strict

Solid == Typed /\ Asleep /\ Sized /\ SpoolFine /\ Apart /\ Filed /\ BytesExact /\ Sorted
Alone == Solid /\ NoCompaction /\ Mirror

\* A file with the lanes of the queue keeps the limits and the order.
LEMMA HoldsFits ==
  ASSUME Solid, Strict(control), Strict(bulk), NEW s \in Seq(QueuedItem), Holds(s, control, bulk)
  PROVE  /\ Len(s) <= MaxItems /\ Bytes(DataOf(s)) <= MaxBytes
         /\ Strict(Lane(s, "Control")) /\ Strict(Lane(s, "Bulk"))
<1>1. Len(s) = pending_items /\ Bytes(DataOf(s)) = pending_bytes
  BY HoldsMeans DEF Solid, Typed, BytesExact
<1> QED
  BY <1>1 DEF Solid, Sized, Bounded, Holds

\* On a healthy disk append_spool finds its item and writes it.
LEMMA AppendHealthy ==
  ASSUME Alone, Kept, NEW t \in Threads, AppendSpool(t), faults' = 0
  PROVE  /\ faults = 0 /\ boot = "disk" /\ stats' = stats /\ stats.persist_errors = 0
         /\ UNCHANGED <<boot, control, bulk, recovered, settled>>
         /\ acked' = acked \union {held[t][1]}
         /\ held[t][1] \in QueuedItem /\ held[t][1].data \notin Data(disk.lines)
         /\ disk'.lines = Append(disk.lines, held[t][1])
         /\ Holds(disk'.lines, control, bulk)
<1>t. /\ Typed /\ TypeOK /\ disk \in SpoolFile /\ disk.lines \in Seq(QueuedItem) /\ faults \in Nat
      /\ Filed /\ OwedById
  BY DEF Alone, Solid, Typed, TypeOK, SpoolFile, Filed
<1>1. /\ UNCHANGED <<boot, control, bulk, recovered, settled>> /\ pc[t] = "append"
      /\ acked' = acked \union {held[t][1]}
      /\ faults' = faults \/ faults' = faults + 1
  BY DEF AppendSpool, inner
<1>2. faults = 0 /\ faults' # faults + 1
  BY <1>t, <1>1, SMTT(40)
<1>3. boot = "disk" /\ disk.tail = "none" /\ stats.persist_errors = 0
  <2>1. boot \in {"disk", "memory"}
    BY <1>1 DEF Alone, Solid, Asleep, Running
  <2> QED
    BY <1>2, <2>1 DEF Alone, Solid, SpoolFine, Kept
<1>4. held[t][1] \in QueuedItem
  BY <1>t, <1>1, HeldItem
<1>5. /\ Holds(Append(disk.lines, held[t][1]), control, bulk)
      /\ held[t][1].data \notin Data(disk.lines)
  BY <1>1, <1>3 DEF Alone, Mirror
<1>6. Append(disk.lines, held[t][1]) \in Seq(QueuedItem)
  BY <1>t, <1>4, SMTT(40)
<1>7. held[t][1] \in Items(Pending)
  <2>1. Items(Append(disk.lines, held[t][1])) = Items(Pending)
    BY <1>t, <1>5, <1>6, HoldsMeans
  <2> QED
    BY <1>t, <2>1, ItemsAppend
<1>8. \E i \in DOMAIN Pending : Pending[i].id = held[t][1].id
  BY <1>7 DEF Items
<1>9. stats' = stats
  BY <1>2, <1>3, <1>8 DEF AppendSpool, HasSpool
<1>10. disk' = WholeLine(disk, held[t][1])
  BY <1>t, <1>3, <1>9, AppendWrites
<1>11. disk'.lines = Append(disk.lines, held[t][1])
  BY <1>t, <1>3, <1>10 DEF WholeLine, SpoolFile
<1> QED
  BY <1>1, <1>2, <1>3, <1>4, <1>5, <1>9, <1>11

\* A crash leaves the file, or the file with the record being written.
LEMMA CrashHealthy ==
  ASSUME Alone, Kept, Crash, faults = 0
  PROVE  \/ disk'.lines = disk.lines
         \/ \E t \in Threads :
              /\ boot = "disk" /\ pc[t] = "append" /\ stats.persist_errors = 0
              /\ held[t][1] \in QueuedItem /\ held[t][1].data \notin Data(disk.lines)
              /\ disk'.lines = Append(disk.lines, held[t][1])
              /\ Holds(disk'.lines, control, bulk)
<1>t. /\ Typed /\ TypeOK /\ disk \in SpoolFile /\ disk.lines \in Seq(QueuedItem)
  BY DEF Alone, Solid, Typed, TypeOK, SpoolFile
<1> SUFFICES ASSUME disk' # disk
             PROVE  \/ disk'.lines = disk.lines
                    \/ \E t \in Threads :
                         /\ boot = "disk" /\ pc[t] = "append" /\ stats.persist_errors = 0
                         /\ held[t][1] \in QueuedItem /\ held[t][1].data \notin Data(disk.lines)
                         /\ disk'.lines = Append(disk.lines, held[t][1])
                         /\ Holds(disk'.lines, control, bulk)
  OBVIOUS
<1>1. PICK t \in Threads, i \in DOMAIN Pending :
        /\ pc[t] = "append" /\ Pending[i].id = held[t][1].id
        /\ disk' \in PartLine(disk, Pending[i])
  BY DEF Crash
<1>2. boot = "disk" /\ disk.tail = "none" /\ stats.persist_errors = 0
  <2>1. boot \in {"disk", "memory"}
    BY <1>1 DEF Alone, Solid, Asleep, Running
  <2> QED
    BY <2>1 DEF Alone, Solid, SpoolFine, Kept
<1>3. Pending[i] = held[t][1]
  <2>1. Pending[i] \in Items(control) \union Items(bulk) /\ t \in Owing
    BY <1>t, <1>1, ItemsConcat, SMTT(40) DEF Items, Pending, TypeOK, Owing
  <2> QED
    BY <1>1, <2>1 DEF Alone, Solid, Filed, OwedById
<1>4. disk'.lines = disk.lines \/ disk'.lines = Append(disk.lines, held[t][1])
  BY <1>t, <1>1, <1>2, <1>3 DEF PartLine, SpoolFile
<1>5. /\ Holds(Append(disk.lines, held[t][1]), control, bulk)
      /\ held[t][1].data \notin Data(disk.lines)
  BY <1>1, <1>2 DEF Alone, Mirror
<1>6. held[t][1] \in QueuedItem
  BY <1>t, <1>1, HeldItem
<1> QED
  BY <1>1, <1>2, <1>4, <1>5, <1>6

\* What a healthy spool holds was accepted within the limits, so recovery
\* turns no record away.
LEMMA RecoverHealthy ==
  ASSUME Solid, Kept, faults = 0, RecoverItem
  PROVE  /\ stats' = Bump(stats, "recovered")
         /\ Strict(control') /\ Strict(bulk')
         /\ \E done \in Seq(QueuedItem) :
              disk.lines = done \o recovered' /\ Holds(done, control', bulk')
<1> USE SizeAssumption, LimitAssumption
<1>t. /\ TypeOK /\ recovered \in Seq(QueuedItem) /\ disk.lines \in Seq(QueuedItem)
      /\ pending_bytes \in Nat
  BY DEF Solid, Typed, TypeOK, SpoolFile
<1> DEFINE item == Head(recovered)
           rest == Tail(recovered)
<1>1. boot = "recovering" /\ recovered # <<>> /\ recovered' = rest
  BY DEF RecoverItem
<1>2. item \in QueuedItem /\ rest \in Seq(QueuedItem) /\ Len(recovered) >= 1
  BY <1>t, <1>1, SMTT(40)
<1>3. PICK done \in Seq(QueuedItem) : disk.lines = done \o recovered /\ Holds(done, control, bulk)
  BY <1>1 DEF Kept
<1> DEFINE more == Append(done, item)
<1>4. more \in Seq(QueuedItem) /\ disk.lines = more \o rest
  BY <1>t, <1>1, <1>2, <1>3, ConcatEdges, SMTT(40)
<1>5. Len(done) = pending_items /\ Bytes(DataOf(done)) = pending_bytes
  BY <1>t, <1>3, HoldsMeans DEF Solid, BytesExact
<1>6. Len(disk.lines) <= MaxItems /\ Bytes(DataOf(disk.lines)) <= MaxBytes
  BY DEF Kept
<1>7. ~(pending_items >= MaxItems)
  <2>1. Len(done \o recovered) = Len(done) + Len(recovered) /\ Len(done) \in Nat /\ Len(recovered) \in Nat
    BY <1>t, SMTT(40)
  <2> QED
    BY <1>2, <1>3, <1>5, <1>6, <2>1, SMTT(40)
<1>8. ~(pending_bytes + Size[item.data] > MaxBytes)
  <2>1. Bytes(DataOf(done \o recovered)) = Bytes(DataOf(done)) + Bytes(DataOf(recovered))
    BY <1>t, BytesConcat
  <2>2. Bytes(DataOf(recovered)) = Bytes(DataOf(rest)) + Size[item.data]
    BY <1>t, <1>1, LaneBytes
  <2>3. Bytes(DataOf(rest)) \in Nat
    BY <1>2, LaneBytes
  <2>4. Size[item.data] \in Nat
    BY <1>2 DEF QueuedItem
  <2> HIDE DEF item, rest
  <2>5. Bytes(DataOf(disk.lines)) = pending_bytes + (Bytes(DataOf(rest)) + Size[item.data])
    BY <1>3, <1>5, <2>1, <2>2
  <2> QED
    BY <1>t, <1>6, <2>3, <2>4, <2>5, SMTT(40)
<1>9. /\ stats' = Bump(stats, "recovered")
      /\ IF item.priority = "Control"
         THEN control' = Append(control, item) /\ bulk' = bulk
         ELSE bulk' = Append(bulk, item) /\ control' = control
  BY <1>7, <1>8 DEF RecoverItem
<1> HIDE DEF item, rest
<1>10. Holds(more, control', bulk')
  BY <1>2, <1>3, <1>9, HoldsAppend
<1> HIDE DEF more
<1>11. ASSUME NEW p \in Priority PROVE Strict(Lane(more, p))
  <2>1. Strict(Lane(disk.lines, p))
    BY DEF Kept, Priority
  <2>2. Lane(disk.lines, p) = Lane(more, p) \o Lane(rest, p)
    BY <1>2, <1>4, LaneConcat, SMTT(40)
  <2>3. Lane(more, p) \in Seq(QueuedItem) /\ Lane(rest, p) \in Seq(QueuedItem)
    BY <1>2, <1>4, LaneType
  <2> QED
    BY <2>1, <2>2, <2>3, StrictFront
<1>12. Strict(control') /\ Strict(bulk')
  BY <1>10, <1>11 DEF Holds, Priority
<1> QED
  BY <1>1, <1>4, <1>9, <1>10, <1>12

\* Without disk failures the file keeps the limits and the order of the lanes
\* through every call and crash, and recovery reads it back in order.
LEMMA KeptNext ==
  ASSUME Sequential
  PROVE  Alone /\ Kept /\ [Next]_vars => Kept'
<1> SUFFICES ASSUME Alone, Kept, [Next]_vars, faults' = 0 PROVE Kept'
  BY DEF Kept
<1>t. /\ TypeOK /\ control \in Seq(QueuedItem) /\ bulk \in Seq(QueuedItem)
      /\ disk \in SpoolFile /\ disk.lines \in Seq(QueuedItem)
      /\ stats \in Stats /\ faults \in Nat /\ Solid /\ Typed
  BY DEF Alone, Solid, Typed, TypeOK, SpoolFile
<1>0. /\ Strict(<<>>) /\ <<>> \in Seq(QueuedItem)
  BY SMTT(40) DEF Strict
<1>k. ASSUME faults = 0
      PROVE  /\ Len(disk.lines) <= MaxItems /\ Bytes(DataOf(disk.lines)) <= MaxBytes
             /\ Strict(Lane(disk.lines, "Control")) /\ Strict(Lane(disk.lines, "Bulk"))
             /\ Strict(control) /\ Strict(bulk)
             /\ boot = "disk" => stats.persist_errors = 0
  BY <1>k DEF Kept
<1>d. ASSUME boot' # "recovering", boot' = "disk" => stats'.persist_errors = 0,
             disk'.lines = disk.lines, Strict(control'), Strict(bulk'), faults = 0
      PROVE  Kept'
  BY <1>d, <1>k DEF Kept
<1>m. ASSUME boot' # "recovering", boot' = "disk" => stats'.persist_errors = 0,
             Strict(control'), Strict(bulk'), faults = 0,
             disk'.lines \in Seq(QueuedItem), Holds(disk'.lines, control, bulk)
      PROVE  Kept'
  <2>1. /\ Len(disk'.lines) <= MaxItems /\ Bytes(DataOf(disk'.lines)) <= MaxBytes
        /\ Strict(Lane(disk'.lines, "Control")) /\ Strict(Lane(disk'.lines, "Bulk"))
    BY <1>m, <1>t, <1>k, HoldsFits
  <2> QED
    BY <1>m, <2>1 DEF Kept
<1>w. ASSUME NEW replaced \in BOOLEAN, RewriteSpool(replaced), boot \in {"disk", "recovering"},
             boot' = "disk", UNCHANGED <<control, bulk>>
      PROVE  Kept'
  <2>1. faults = 0 /\ disk' = Rewritten(Pending) /\ stats' = stats
    BY <1>w, <1>t, RewriteHealthy, SMTT(40) DEF HasSpool
  <2>2. disk'.lines = Pending /\ Holds(Pending, control, bulk) /\ Pending \in Seq(QueuedItem)
    BY <1>t, <2>1, PendingHolds, PendingType DEF Rewritten, Solid
  <2>3. stats.persist_errors = 0
    BY <1>w, <2>1 DEF Kept
  <2> QED
    BY <1>w, <1>k, <1>m, <2>1, <2>2, <2>3
<1>r. ASSUME faults = 0, boot \in {"disk", "memory"} PROVE boot = "disk"
  BY <1>r, <1>t DEF Solid, SpoolFine
<1>1. ASSUME NEW t \in Threads, NEW p \in Payloads, RejectTooLarge(t, p) PROVE Kept'
  <2>1. /\ UNCHANGED <<boot, control, bulk, disk, faults>> /\ boot # "recovering"
        /\ stats'.persist_errors = stats.persist_errors
    BY <1>1, <1>t DEF RejectTooLarge, inner, bounds, Bump, Stats, Running
  <2> QED
    BY <1>d, <1>k, <2>1
<1>2. ASSUME NEW t \in Threads, NEW p \in Payloads, NEW priority \in Priority,
             EnqueueLock(t, p, priority)
      PROVE  Kept'
  <2>1. UNCHANGED <<boot, control, bulk, disk, stats, faults>> /\ boot # "recovering"
    BY <1>2 DEF EnqueueLock, inner, bounds, Running
  <2> QED
    BY <1>d, <1>k, <2>1
<1>3. ASSUME NEW t \in Threads, EvictBulk(t) PROVE Kept'
  BY <1>3 DEF EvictBulk, Sequential
<1>4. ASSUME NEW t \in Threads, RejectFull(t) PROVE Kept'
  <2>1. /\ UNCHANGED <<boot, control, bulk, disk, faults>> /\ pc[t] = "room"
        /\ stats'.persist_errors = stats.persist_errors
    BY <1>4, <1>t DEF RejectFull, inner, bounds, Bump, Stats
  <2>2. boot # "recovering"
    BY <1>t, <2>1 DEF Solid, Asleep, Running
  <2> QED
    BY <1>d, <1>k, <2>1, <2>2
<1>5. ASSUME NEW t \in Threads, Push(t) PROVE Kept'
  <2> DEFINE item == [held[t][1] EXCEPT !.id = next_id]
  <2>1. item \in QueuedItem /\ item.id = next_id
    BY <1>5, <1>t, HeldItem DEF Push, Typed, TypeOK, QueuedItem
  <2>2. /\ UNCHANGED <<boot, disk, faults>> /\ pc[t] = "room"
        /\ stats'.persist_errors = stats.persist_errors
        /\ \/ control' = Append(control, item) /\ bulk' = bulk
           \/ bulk' = Append(bulk, item) /\ control' = control
    BY <1>5, <1>t DEF Push, bounds, Bump, Stats
  <2>3. boot # "recovering" /\ \A y \in Items(control) \union Items(bulk) : y.id < item.id
    BY <1>t, <2>1, <2>2 DEF Solid, Asleep, Running, Filed, IdsBelow
  <2> HIDE DEF item
  <2>4. Strict(control) /\ Strict(bulk) /\ faults = 0
    BY <1>k, <2>2
  <2>5. Strict(Append(control, item)) /\ Strict(Append(bulk, item))
    BY <1>t, <2>1, <2>3, <2>4, StrictAppend
  <2>6. Strict(control') /\ Strict(bulk')
    BY <2>2, <2>4, <2>5
  <2> QED
    BY <1>d, <1>k, <2>2, <2>3, <2>4, <2>6
<1>6. ASSUME NEW t \in Threads, AppendSpool(t) PROVE Kept'
  <2>1. /\ faults = 0 /\ boot' = "disk" /\ stats'.persist_errors = 0
        /\ control' = control /\ bulk' = bulk /\ held[t][1] \in QueuedItem
        /\ disk'.lines = Append(disk.lines, held[t][1])
        /\ Holds(disk'.lines, control, bulk)
    BY <1>6, AppendHealthy
  <2>2. disk'.lines \in Seq(QueuedItem)
    BY <1>t, <2>1, SMTT(40)
  <2> QED
    BY <1>k, <1>m, <2>1, <2>2
<1>7. ASSUME NEW t \in Threads, CompactSpool(t) PROVE Kept'
  BY <1>7 DEF CompactSpool, Alone, NoCompaction
<1>8. ASSUME NEW t \in Threads, FlushDrain(t) PROVE Kept'
  <2>1. /\ UNCHANGED <<boot, disk, faults>> /\ boot # "recovering"
        /\ control' = <<>> /\ bulk' = <<>>
        /\ stats'.persist_errors = stats.persist_errors
    BY <1>8, <1>t DEF FlushDrain, bounds, Stats, Running
  <2> QED
    BY <1>0, <1>d, <1>k, <2>1
<1>9. ASSUME NEW t \in Threads, FlushTruncate(t) \/ Persist(t) PROVE Kept'
  <2>1. /\ UNCHANGED <<boot, control, bulk>> /\ boot \in {"disk", "memory"}
        /\ \E replaced \in BOOLEAN : RewriteSpool(replaced)
    BY <1>9, <1>t DEF FlushTruncate, Persist, inner, Running, Solid, Asleep
  <2>2. faults = 0
    BY <1>t, <2>1, RewriteHealthy, SMTT(40)
  <2> QED
    BY <1>r, <1>w, <2>1, <2>2
<1>10. CASE Crash
  <2>1. boot' = "down" /\ control' = <<>> /\ bulk' = <<>> /\ faults = 0
    BY <1>10 DEF Crash, EmptyInner
  <2>2. CASE disk'.lines = disk.lines
    BY <1>0, <1>d, <2>1, <2>2
  <2>3. ASSUME NEW x \in QueuedItem, disk'.lines = Append(disk.lines, x),
               Holds(disk'.lines, control, bulk)
        PROVE  Kept'
    <3>1. disk'.lines \in Seq(QueuedItem)
      BY <1>t, <2>3, SMTT(40)
    <3> QED
      BY <1>0, <1>m, <2>1, <2>3, <3>1
  <2> QED
    BY <1>10, <2>1, <2>2, <2>3, CrashHealthy
<1>11. CASE Open
  <2>1. /\ boot' = "recovering" /\ recovered' = disk.lines /\ stats'.persist_errors = 0
        /\ UNCHANGED <<control, bulk, disk, faults>> /\ boot = "down"
    BY <1>11 DEF Open, inner, bounds, ZeroStats
  <2>2. control = <<>> /\ bulk = <<>>
    BY <1>t, <2>1 DEF Solid, Sized, DownEmpty
  <2>3. disk'.lines = <<>> \o recovered'
    BY <1>t, <2>1, ConcatEdges
  <2>4. Holds(<<>>, control', bulk')
    BY <2>1, <2>2, LaneType DEF Holds
  <2>5. /\ Len(disk'.lines) <= MaxItems /\ Bytes(DataOf(disk'.lines)) <= MaxBytes
        /\ Strict(Lane(disk'.lines, "Control")) /\ Strict(Lane(disk'.lines, "Bulk"))
        /\ Strict(control') /\ Strict(bulk')
    BY <1>k, <2>1
  <2> QED
    BY <1>0, <2>1, <2>3, <2>4, <2>5 DEF Kept
<1>12. CASE OpenFails
  <2>1. boot' = "memory" /\ UNCHANGED <<control, bulk, disk>> /\ faults = 0
    BY <1>12, <1>t, SMTT(40) DEF OpenFails, inner
  <2> QED
    BY <1>d, <1>k, <2>1
<1>13. CASE RecoverItem
  <2>1. UNCHANGED <<boot, disk, faults>> /\ boot = "recovering"
    BY <1>13 DEF RecoverItem, bounds
  <2>2. /\ stats' = Bump(stats, "recovered") /\ Strict(control') /\ Strict(bulk')
        /\ \E done \in Seq(QueuedItem) :
             disk.lines = done \o recovered' /\ Holds(done, control', bulk')
    BY <1>13, <1>t, <2>1, RecoverHealthy
  <2>3. stats'.persist_errors = 0
    BY <1>t, <2>1, <2>2 DEF Kept, Bump, Stats
  <2> QED
    BY <1>k, <2>1, <2>2, <2>3 DEF Kept
<1>14. CASE RecoverDone
  BY <1>14, <1>w DEF RecoverDone, inner
<1>15. CASE UNCHANGED vars
  BY <1>15 DEF vars, inner, bounds, Kept
<1> QED
  BY <1>1, <1>2, <1>3, <1>4, <1>5, <1>6, <1>7, <1>8, <1>9, <1>10, <1>11, <1>12, <1>13, <1>14, <1>15
     DEF Next, ThreadStep

\* What a healthy file and the lanes hold at the two rewrites of a sequential
\* run outside open: all of the file is drained, or nothing is.
LEMMA RewriteHolds ==
  ASSUME Sequential, Alone, Kept, NEW replaced \in BOOLEAN, RewriteSpool(replaced), faults' = 0,
         boot # "recovering" => \E t \in Threads : pc[t] = "idle"
  PROVE  boot \in {"disk", "recovering"} /\ (boot = "recovering" => recovered = <<>>) =>
           /\ replaced /\ disk' = Rewritten(Pending) /\ disk'.lines = Pending
           /\ Holds(disk.lines, control, bulk) /\ Holds(disk'.lines, control, bulk)
           /\ Items(disk'.lines) = Items(disk.lines)
<1> SUFFICES ASSUME boot \in {"disk", "recovering"}, boot = "recovering" => recovered = <<>>
             PROVE  /\ replaced /\ disk' = Rewritten(Pending) /\ disk'.lines = Pending
                    /\ Holds(disk.lines, control, bulk) /\ Holds(disk'.lines, control, bulk)
                    /\ Items(disk'.lines) = Items(disk.lines)
  OBVIOUS
<1>t. TypeOK /\ faults \in Nat /\ disk.lines \in Seq(QueuedItem) /\ Sorted
  BY DEF Alone, Solid, Typed, TypeOK, SpoolFile
<1>1. faults = 0 /\ replaced /\ disk' = Rewritten(Pending)
  BY <1>t, RewriteHealthy, SMTT(40) DEF HasSpool
<1>2. disk'.lines = Pending /\ Holds(Pending, control, bulk)
  BY <1>t, <1>1, PendingHolds DEF Rewritten
<1>3. CASE boot = "disk"
  <2>1. stats.persist_errors = 0 /\ \A t \in Threads : pc[t] = "idle"
    BY <1>1, <1>3 DEF Kept, Sequential
  <2>2. Holds(disk.lines, control, bulk)
    BY <1>3, <2>1 DEF Alone, Mirror
  <2> QED
    BY <1>t, <1>1, <1>2, <2>2, HoldsMeans
<1>4. CASE boot = "recovering"
  <2>1. PICK done \in Seq(QueuedItem) : disk.lines = done \o recovered /\ Holds(done, control, bulk)
    BY <1>1, <1>4 DEF Kept
  <2>2. disk.lines = done
    BY <1>4, <2>1, ConcatEdges
  <2> QED
    BY <1>t, <1>1, <1>2, <2>1, <2>2, HoldsMeans
<1> QED
  BY <1>3, <1>4

\* At the end of a flush the file holds exactly what the flush has drained.
LEMMA FlushHolds ==
  ASSUME Alone, Kept, NEW t \in Threads, FlushTruncate(t), faults' = 0
  PROVE  /\ boot = "disk" /\ control = <<>> /\ bulk = <<>> /\ disk' = Rewritten(<<>>)
         /\ UNCHANGED <<boot, control, bulk, acked>>
         /\ settled' = settled \union Data(held[t])
         /\ held[t] \in Seq(QueuedItem) /\ Items(held[t]) = Items(disk.lines)
         /\ held[t] = Lane(disk.lines, "Control") \o Lane(disk.lines, "Bulk")
<1>t. TypeOK /\ faults \in Nat /\ disk.lines \in Seq(QueuedItem) /\ held[t] \in Seq(QueuedItem)
  BY DEF Alone, Solid, Typed, TypeOK, SpoolFile
<1>1. PICK replaced \in BOOLEAN :
        /\ RewriteSpool(replaced)
        /\ settled' = IF replaced THEN settled \union Data(held[t]) ELSE settled
  BY DEF FlushTruncate
<1>2. UNCHANGED <<boot, control, bulk, acked>> /\ pc[t] = "truncate"
  BY DEF FlushTruncate, inner
<1>3. boot = "disk" /\ faults = 0 /\ stats.persist_errors = 0
  <2>1. faults = 0
    BY <1>t, <1>1, RewriteHealthy, SMTT(40)
  <2>2. boot \in {"disk", "memory"}
    BY <1>2 DEF Alone, Solid, Asleep, Running
  <2> QED
    BY <2>1, <2>2 DEF Alone, Solid, SpoolFine, Kept
<1>4. /\ control = <<>> /\ bulk = <<>>
      /\ held[t] = Lane(disk.lines, "Control") \o Lane(disk.lines, "Bulk")
  BY <1>2, <1>3 DEF Alone, Mirror
<1>5. replaced /\ disk' = Rewritten(Pending)
  BY <1>t, <1>1, <1>3, RewriteHealthy DEF HasSpool
<1>6. Pending = <<>>
  BY <1>4, SMTT(40) DEF Pending
<1>7. Items(held[t]) = Items(disk.lines)
  <2>1. Lane(disk.lines, "Control") \in Seq(QueuedItem) /\ Lane(disk.lines, "Bulk") \in Seq(QueuedItem)
    BY <1>t, LaneType
  <2>2. Items(held[t]) = Items(Lane(disk.lines, "Control")) \union Items(Lane(disk.lines, "Bulk"))
    BY <1>4, <2>1, ItemsConcat
  <2> QED
    BY <1>t, <2>2, LanesPartition
<1> QED
  BY <1>t, <1>1, <1>2, <1>3, <1>4, <1>5, <1>6, <1>7

\* An acknowledged item stays in the file until a flush takes it.
LEMMA AckedStaysNext ==
  ASSUME Sequential
  PROVE  Alone /\ Kept /\ AckedStays /\ [Next]_vars => AckedStays'
<1> SUFFICES ASSUME Alone, Kept, AckedStays, [Next]_vars, faults' = 0 PROVE AckedStays'
  BY DEF AckedStays
<1>t. /\ TypeOK /\ disk.lines \in Seq(QueuedItem) /\ faults \in Nat /\ Solid
  BY DEF Alone, Solid, Typed, TypeOK, SpoolFile
<1>k. ASSUME faults = 0, UNCHANGED <<acked, settled>>, Items(disk.lines) \subseteq Items(disk'.lines)
      PROVE  AckedStays'
  BY <1>k DEF AckedStays
<1>w. ASSUME NEW replaced \in BOOLEAN, RewriteSpool(replaced), UNCHANGED <<acked, settled>>,
             boot \in {"disk", "memory", "recovering"},
             IF boot = "recovering" THEN recovered = <<>> ELSE \E t \in Threads : pc[t] = "idle"
      PROVE  AckedStays'
  <2>1. faults = 0
    BY <1>w, <1>t, RewriteHealthy, SMTT(40)
  <2>2. boot \in {"disk", "recovering"}
    BY <1>w, <1>t, <2>1 DEF Solid, SpoolFine
  <2>3. Items(disk'.lines) = Items(disk.lines)
    BY <1>w, <2>2, RewriteHolds
  <2> QED
    BY <1>w, <1>k, <2>1, <2>3
<1>1. ASSUME NEW t \in Threads, AppendSpool(t) PROVE AckedStays'
  <2>1. /\ faults = 0 /\ settled' = settled /\ acked' = acked \union {held[t][1]}
        /\ held[t][1] \in QueuedItem /\ disk'.lines = Append(disk.lines, held[t][1])
    BY <1>1, AppendHealthy
  <2>2. Items(disk'.lines) = Items(disk.lines) \union {held[t][1]}
    BY <1>t, <2>1, ItemsAppend
  <2> QED
    BY <2>1, <2>2 DEF AckedStays
<1>2. ASSUME NEW t \in Threads, FlushTruncate(t) PROVE AckedStays'
  <2>1. /\ acked' = acked /\ settled' = settled \union Data(held[t])
        /\ Items(held[t]) = Items(disk.lines)
    BY <1>2, FlushHolds
  <2>2. faults = 0
    BY <1>2, <1>t, RewriteHealthy, SMTT(40) DEF FlushTruncate
  <2>3. \A a \in Items(held[t]) : a.data \in Data(held[t])
    BY DEF Items, Data
  <2> QED
    BY <2>1, <2>2, <2>3 DEF AckedStays
<1>3. ASSUME NEW t \in Threads, Persist(t) PROVE AckedStays'
  BY <1>3, <1>w DEF Persist, Running, history
<1>4. CASE RecoverDone
  BY <1>4, <1>w DEF RecoverDone, history
<1>5. CASE Crash
  <2>1. UNCHANGED <<acked, settled>> /\ faults = 0
    BY <1>5 DEF Crash, history
  <2>2. \/ disk'.lines = disk.lines
        \/ \E t \in Threads : disk'.lines = Append(disk.lines, held[t][1])
    BY <1>5, <2>1, CrashHealthy
  <2>3. \A x : Items(disk.lines) \subseteq Items(Append(disk.lines, x))
    BY <1>t, ItemsAppend
  <2> QED
    BY <1>k, <2>1, <2>2, <2>3
<1>6. ASSUME NEW t \in Threads, CompactSpool(t) PROVE AckedStays'
  BY <1>6 DEF CompactSpool, Alone, NoCompaction
<1>7. ASSUME UNCHANGED <<disk, acked, settled>>, faults' = faults \/ faults' = faults + 1
      PROVE  AckedStays'
  BY <1>7, <1>k, <1>t, SMTT(40)
<1>8. ASSUME NEW t \in Threads, NEW p \in Payloads, RejectTooLarge(t, p) PROVE AckedStays'
  BY <1>8, <1>7 DEF RejectTooLarge, bounds
<1>9. ASSUME NEW t \in Threads, NEW p \in Payloads, NEW priority \in Priority,
             EnqueueLock(t, p, priority)
      PROVE  AckedStays'
  BY <1>9, <1>7 DEF EnqueueLock, bounds
<1>10. ASSUME NEW t \in Threads, EvictBulk(t) \/ RejectFull(t) \/ Push(t) \/ FlushDrain(t)
       PROVE  AckedStays'
  BY <1>10, <1>7 DEF EvictBulk, RejectFull, Push, FlushDrain, bounds, history
<1>11. CASE Open \/ OpenFails \/ RecoverItem \/ UNCHANGED vars
  BY <1>11, <1>7 DEF Open, OpenFails, RecoverItem, vars, bounds, history
<1> QED
  BY <1>1, <1>2, <1>3, <1>4, <1>5, <1>6, <1>8, <1>9, <1>10, <1>11 DEF Next, ThreadStep

\* The invariants that hold whoever calls the queue.
LEMMA SolidAlways == Spec => []Solid
<1>1. Init => Solid
  <2>1. <<>> \in Seq(QueuedItem)
    BY SMTT(40)
  <2>2. Bytes(DataOf(<<>>)) = 0
    BY <2>1, LaneBytes
  <2>3. Init => BytesExact /\ Sorted
    BY <2>2, ItemsBasic, SMTT(40) DEF Init, BytesExact, Sorted
  <2> QED
    BY <2>3, TypedInit, AsleepInit, SizedInit, SpoolFineInit, ApartInit, FiledInit DEF Solid
<1>2. Solid /\ [Next]_vars => Solid'
  BY TypedNext, AsleepNext, SizedNext, SpoolFineNext, ApartNext, FiledNext, BytesExactNext, SortedNext
     DEF Solid
<1> QED
  BY <1>1, <1>2, PTL DEF Spec

\* The inductive invariant of the queue used from one thread, with RejectNew.
LEMMA AloneAlways ==
  ASSUME Sequential
  PROVE  Spec => [](Alone /\ Kept /\ AckedStays)
<1>1. Init => NoCompaction /\ Mirror /\ Kept /\ AckedStays
  <2> SUFFICES ASSUME Init PROVE NoCompaction /\ Mirror /\ Kept /\ AckedStays
    OBVIOUS
  <2>1. /\ boot = "down" /\ disk.lines = <<>> /\ control = <<>> /\ bulk = <<>> /\ acked = {}
        /\ pc = [t \in Threads |-> "idle"] /\ compact_needed = [t \in Threads |-> FALSE]
    BY DEF Init, NoFile
  <2>2. <<>> \in Seq(QueuedItem) /\ Len(<<>>) = 0
    BY SMTT(40)
  <2>3. Bytes(DataOf(<<>>)) = 0 /\ Lane(<<>>, "Control") = <<>> /\ Lane(<<>>, "Bulk") = <<>>
    BY <2>2, LaneBytes, LaneType
  <2>4. Len(disk.lines) <= MaxItems /\ Bytes(DataOf(disk.lines)) <= MaxBytes
    BY <2>1, <2>2, <2>3, LimitAssumption, SMTT(40)
  <2>5. Strict(<<>>)
    BY SMTT(40) DEF Strict
  <2>6. NoCompaction
    BY <2>1 DEF NoCompaction
  <2>7. Mirror /\ AckedStays
    BY <2>1 DEF Mirror, AckedStays
  <2>8. Kept
    BY <2>1, <2>3, <2>4, <2>5 DEF Kept
  <2> QED
    BY <2>6, <2>7, <2>8
<1>2. Solid /\ NoCompaction /\ Mirror /\ [Next]_vars => NoCompaction' /\ Mirror'
  BY NoCompactionNext, MirrorNext DEF Solid
<1>3. Alone /\ Kept /\ AckedStays /\ [Next]_vars => Kept' /\ AckedStays'
  BY KeptNext, AckedStaysNext
<1> QED
  BY <1>1, <1>2, <1>3, SolidAlways, PTL DEF Spec, Alone

\* Used from one thread, without evictions and disk failures, the ids along a
\* lane stay in order through every crash and recovery.
THEOREM LanesStayOrdered ==
  ASSUME Sequential
  PROVE  Spec => []LaneOrder
<1>1. Alone /\ Kept => LaneOrder
  <2> SUFFICES ASSUME Alone, Kept, faults = 0, NEW lane \in {control, bulk},
                      NEW i \in DOMAIN lane, NEW j \in DOMAIN lane, i < j
               PROVE  lane[i].id <= lane[j].id
    BY DEF LaneOrder
  <2>1. lane \in Seq(QueuedItem)
    BY DEF Alone, Solid, Typed, TypeOK
  <2>2. lane[i] \in QueuedItem /\ lane[j] \in QueuedItem
    BY <2>1, SMTT(40)
  <2>3. lane[i].id \in Nat /\ lane[j].id \in Nat
    BY <2>2 DEF QueuedItem
  <2>4. lane[i].id < lane[j].id
    BY DEF Kept, Strict
  <2> QED
    BY <2>3, <2>4, SMTT(40)
<1> QED
  BY <1>1, AloneAlways, PTL

\* Under the same hypotheses an item whose try_enqueue returned Ok stays in
\* the file, across any crash, until a flush takes it.
THEOREM AcknowledgedIsDurable ==
  ASSUME Sequential
  PROVE  Spec => []AckedDurable
<1>1. AckedStays => AckedDurable
  BY DEF AckedStays, AckedDurable, Items, In
<1> QED
  BY <1>1, AloneAlways, PTL
--------------------------------------------------------------------------------
(***************************************************************************)
(* Refinement.  A step of the abstract queue is taken where the file       *)
(* changes: a record is written (by the call, or by the crash that cuts    *)
(* the call short), or the file is truncated.                              *)
(***************************************************************************)

\* No disk operation fails when none may.
LEMMA NoFaultNext ==
  ASSUME MaxFaults = 0
  PROVE  Typed /\ faults = 0 /\ [Next]_vars => faults' = 0
<1> SUFFICES ASSUME Typed, faults = 0, [Next]_vars PROVE faults' = 0
  OBVIOUS
<1>w. ASSUME NEW replaced \in BOOLEAN, RewriteSpool(replaced) PROVE faults' = 0
  BY <1>w, SMTT(40) DEF RewriteSpool
<1>1. ASSUME NEW t \in Threads, AppendSpool(t) PROVE faults' = 0
  BY <1>1, SMTT(40) DEF AppendSpool
<1>2. ASSUME NEW t \in Threads, CompactSpool(t) \/ FlushTruncate(t) \/ Persist(t) PROVE faults' = 0
  BY <1>2, <1>w DEF CompactSpool, FlushTruncate, Persist
<1>3. CASE RecoverDone
  BY <1>3, <1>w DEF RecoverDone
<1>4. CASE Crash \/ Open \/ OpenFails \/ RecoverItem \/ UNCHANGED vars
  <2>1. CASE Crash
    BY <2>1 DEF Crash
  <2>2. CASE Open
    BY <2>2 DEF Open, bounds
  <2>3. CASE OpenFails
    BY <2>3, SMTT(40) DEF OpenFails, bounds
  <2>4. CASE RecoverItem
    BY <2>4 DEF RecoverItem, bounds
  <2>5. CASE UNCHANGED vars
    BY <2>5 DEF vars, bounds
  <2> QED
    BY <1>4, <2>1, <2>2, <2>3, <2>4, <2>5
<1>5. ASSUME NEW t \in Threads, EvictBulk(t) \/ RejectFull(t) \/ Push(t) \/ FlushDrain(t)
      PROVE  faults' = 0
  BY <1>5 DEF EvictBulk, RejectFull, Push, FlushDrain, bounds
<1>6. ASSUME NEW t \in Threads, NEW p \in Payloads,
             RejectTooLarge(t, p) \/ \E priority \in Priority : EnqueueLock(t, p, priority)
      PROVE  faults' = 0
  BY <1>6 DEF RejectTooLarge, EnqueueLock, bounds
<1> QED
  BY <1>1, <1>2, <1>3, <1>4, <1>5, <1>6 DEF Next, ThreadStep

\* The payloads of a file are those of its two lanes.
LEMMA DataHeld ==
  ASSUME disk.lines \in Seq(QueuedItem)
  PROVE  Durably!Held = Data(disk.lines)
<1> DEFINE C == Lane(disk.lines, "Control")
           B == Lane(disk.lines, "Bulk")
<1>1. \A s \in Seq(QueuedItem) : {DataOf(s)[i] : i \in DOMAIN DataOf(s)} = Data(s)
  BY DEF DataOf, Data
<1>2. \A s \in Seq(QueuedItem) : Data(s) = {x.data : x \in Items(s)}
  BY DEF Data, Items
<1>3. C \in Seq(QueuedItem) /\ B \in Seq(QueuedItem) /\ Items(disk.lines) = Items(C) \union Items(B)
  BY LaneType, LanesPartition
<1>4. Data(disk.lines) = Data(C) \union Data(B)
  BY <1>2, <1>3, SMTT(40)
<1>5. Durably!Held = {DataOf(C)[i] : i \in DOMAIN DataOf(C)} \union {DataOf(B)[i] : i \in DOMAIN DataOf(B)}
  BY DEF Durably!Held
<1> QED
  BY <1>1, <1>3, <1>4, <1>5

\* A record written at the end of the file is a Put of its payload.
LEMMA PutRefines ==
  ASSUME TypeOK, NEW x \in QueuedItem, disk'.lines = Append(disk.lines, x), settled' = settled,
         x.data \notin Data(disk.lines), x.data \notin settled,
         Len(disk'.lines) <= MaxItems, Bytes(DataOf(disk'.lines)) <= MaxBytes
  PROVE  Durably!Next
<1> USE SizeAssumption, LimitAssumption
<1> DEFINE C == Lane(disk.lines, "Control")
           B == Lane(disk.lines, "Bulk")
           p == x.data
<1>t. disk.lines \in Seq(QueuedItem) /\ x.priority \in {"Control", "Bulk"} /\ p \in Payloads
  BY DEF TypeOK, SpoolFile, QueuedItem, Priority
<1>1. /\ C \in Seq(QueuedItem) /\ B \in Seq(QueuedItem)
      /\ Len(disk.lines) = Len(C) + Len(B)
      /\ Bytes(DataOf(disk.lines)) = Bytes(DataOf(C)) + Bytes(DataOf(B))
  BY <1>t, LaneType, LanesPartition
<1>2. /\ Lane(disk'.lines, "Control") = IF x.priority = "Control" THEN Append(C, x) ELSE C
      /\ Lane(disk'.lines, "Bulk") = IF x.priority = "Bulk" THEN Append(B, x) ELSE B
  <2>1. \A q : Lane(Append(disk.lines, x), q)
                = IF x.priority = q THEN Append(Lane(disk.lines, q), x) ELSE Lane(disk.lines, q)
    BY <1>t, LaneAppend
  <2> QED
    BY <2>1
<1>3. Bytes(DataOf(disk'.lines)) = Bytes(DataOf(disk.lines)) + Size[p]
  BY <1>t, LaneBytes
<1>4. Len(disk'.lines) = Len(disk.lines) + 1 /\ Len(disk.lines) \in Nat
  BY <1>t, SMTT(40)
<1>5. Len(DataOf(C)) = Len(C) /\ Len(DataOf(B)) = Len(B)
  BY <1>1, DataOfType
<1>6. DataOf(Append(C, x)) = Append(DataOf(C), p) /\ DataOf(Append(B, x)) = Append(DataOf(B), p)
  BY <1>1, DataOfAppend
<1>7. Durably!Fits(p)
  <2>1. \A s : Durably!Bytes(s) = Bytes(s)
    BY DEF Durably!Bytes, Bytes
  <2>2. Len(DataOf(C)) + Len(DataOf(B)) < MaxItems
    BY <1>1, <1>4, <1>5, SMTT(40)
  <2>3. Bytes(DataOf(C)) + Bytes(DataOf(B)) + Size[p] <= MaxBytes
    BY <1>1, <1>3
  <2> QED
    BY <2>1, <2>2, <2>3 DEF Durably!Fits
<1>8. p \notin Durably!Held \union settled
  BY <1>t, DataHeld
<1>9. \/ /\ DataOf(Lane(disk'.lines, "Control")) = Append(DataOf(C), p)
         /\ DataOf(Lane(disk'.lines, "Bulk")) = DataOf(B)
      \/ /\ DataOf(Lane(disk'.lines, "Bulk")) = Append(DataOf(B), p)
         /\ DataOf(Lane(disk'.lines, "Control")) = DataOf(C)
  BY <1>t, <1>2, <1>6
<1>10. Durably!Put(p)
  BY <1>7, <1>8, <1>9 DEF Durably!Put
<1> QED
  BY <1>t, <1>10 DEF Durably!Next

\* Every step of the queue is a step of the durable queue, or none.
LEMMA StepRefines ==
  ASSUME Sequential, Alone, Kept, [Next]_vars, faults = 0, faults' = 0
  PROVE  [Durably!Next]_(Durably!vars)
<1>t. /\ TypeOK /\ Typed /\ Solid /\ disk.lines \in Seq(QueuedItem)
      /\ control \in Seq(QueuedItem) /\ bulk \in Seq(QueuedItem)
  BY DEF Alone, Solid, Typed, TypeOK, SpoolFile
<1>q. ASSUME settled' = settled, Lane(disk'.lines, "Control") = Lane(disk.lines, "Control"),
             Lane(disk'.lines, "Bulk") = Lane(disk.lines, "Bulk")
      PROVE  Durably!vars' = Durably!vars
  BY <1>q DEF Durably!vars
<1>s. ASSUME disk' = disk, settled' = settled PROVE Durably!vars' = Durably!vars
  BY <1>s, <1>q
<1>p. ASSUME NEW x \in QueuedItem, disk'.lines = Append(disk.lines, x), settled' = settled,
             x.data \notin Data(disk.lines), Holds(disk'.lines, control, bulk)
      PROVE  Durably!Next
  <2>1. disk'.lines \in Seq(QueuedItem)
    BY <1>t, <1>p, SMTT(40)
  <2>2. Len(disk'.lines) <= MaxItems /\ Bytes(DataOf(disk'.lines)) <= MaxBytes
    BY <1>t, <1>p, <2>1, HoldsFits DEF Kept
  <2>3. x.data \notin settled
    <3>1. Items(disk'.lines) = Items(Pending)
      BY <1>t, <1>p, <2>1, HoldsMeans
    <3>2. x \in Items(Pending)
      BY <1>t, <1>p, <3>1, ItemsAppend, SMTT(40)
    <3>3. x.data \in Data(Pending)
      BY <3>2 DEF Items, Data
    <3> QED
      BY <1>t, <3>3, DataPending DEF Solid, Apart, SettledApart
  <2> QED
    BY <1>t, <1>p, <2>2, <2>3, PutRefines
<1>w. ASSUME NEW replaced \in BOOLEAN, RewriteSpool(replaced), settled' = settled,
             boot \in {"disk", "memory", "recovering"},
             IF boot = "recovering" THEN recovered = <<>> ELSE \E t \in Threads : pc[t] = "idle"
      PROVE  Durably!vars' = Durably!vars
  <2>1. boot \in {"disk", "recovering"}
    BY <1>w, <1>t DEF Solid, SpoolFine
  <2>2. Holds(disk.lines, control, bulk) /\ Holds(disk'.lines, control, bulk)
    BY <1>w, <2>1, RewriteHolds
  <2> QED
    BY <1>q, <1>w, <2>2 DEF Holds
<1>1. ASSUME NEW t \in Threads, AppendSpool(t) PROVE Durably!Next
  <2>1. /\ held[t][1] \in QueuedItem /\ disk'.lines = Append(disk.lines, held[t][1])
        /\ settled' = settled /\ held[t][1].data \notin Data(disk.lines)
        /\ Holds(disk'.lines, control, bulk)
    BY <1>1, AppendHealthy
  <2> QED
    BY <1>p, <2>1
<1>2. CASE Crash
  <2>1. settled' = settled
    BY <1>2 DEF Crash, history
  <2>2. CASE disk'.lines = disk.lines
    BY <1>q, <2>1, <2>2
  <2>3. ASSUME NEW x \in QueuedItem, x.data \notin Data(disk.lines),
               disk'.lines = Append(disk.lines, x), Holds(disk'.lines, control, bulk)
        PROVE  Durably!Next
    BY <1>p, <2>1, <2>3
  <2> QED
    BY <1>2, <2>2, <2>3, CrashHealthy
<1>3. ASSUME NEW t \in Threads, FlushTruncate(t) PROVE Durably!Next
  <2>1. /\ disk' = Rewritten(<<>>) /\ settled' = settled \union Data(held[t])
        /\ held[t] \in Seq(QueuedItem) /\ Items(held[t]) = Items(disk.lines)
    BY <1>3, FlushHolds
  <2>2. \A s \in Seq(QueuedItem) : Data(s) = {x.data : x \in Items(s)}
    BY DEF Data, Items
  <2>3. Data(held[t]) = Durably!Held
    BY <1>t, <2>1, <2>2, DataHeld
  <2>4. disk'.lines = <<>>
    BY <2>1 DEF Rewritten
  <2>5. /\ DataOf(Lane(disk'.lines, "Control")) = <<>>
        /\ DataOf(Lane(disk'.lines, "Bulk")) = <<>>
    BY <2>4, LaneType, SMTT(40) DEF DataOf
  <2>6. Durably!TakeAll
    BY <2>1, <2>3, <2>5 DEF Durably!TakeAll
  <2> QED
    BY <2>6 DEF Durably!Next
<1>4. ASSUME NEW t \in Threads, Persist(t) PROVE Durably!vars' = Durably!vars
  BY <1>4, <1>w DEF Persist, Running, history
<1>5. CASE RecoverDone
  BY <1>5, <1>w DEF RecoverDone, history
<1>6. ASSUME NEW t \in Threads, CompactSpool(t) PROVE FALSE
  BY <1>6 DEF CompactSpool, Alone, NoCompaction
<1>7. ASSUME NEW t \in Threads, NEW p \in Payloads,
             RejectTooLarge(t, p) \/ \E priority \in Priority : EnqueueLock(t, p, priority)
      PROVE  Durably!vars' = Durably!vars
  BY <1>7, <1>s DEF RejectTooLarge, EnqueueLock
<1>8. ASSUME NEW t \in Threads, EvictBulk(t) \/ RejectFull(t) \/ Push(t) \/ FlushDrain(t)
      PROVE  Durably!vars' = Durably!vars
  BY <1>8, <1>s DEF EvictBulk, RejectFull, Push, FlushDrain, history
<1>9. CASE Open \/ OpenFails \/ RecoverItem \/ UNCHANGED vars
  BY <1>9, <1>s DEF Open, OpenFails, RecoverItem, vars, history
<1> QED
  BY <1>1, <1>2, <1>3, <1>4, <1>5, <1>6, <1>7, <1>8, <1>9 DEF Next, ThreadStep

\* Used from one thread, with RejectNew and a disk that does not fail, the
\* queue and its spool implement the durable queue: try_enqueue, flush,
\* persist, a crash at any step and the recovery after it included.
THEOREM QueueIsDurable ==
  ASSUME Sequential, MaxFaults = 0
  PROVE  Spec => ImplementsDurableQueue
<1>1. Init => Durably!Init
  <2>1. Lane(<<>>, "Control") = <<>> /\ Lane(<<>>, "Bulk") = <<>> /\ DataOf(<<>>) = <<>>
    BY LaneType, SMTT(40) DEF DataOf
  <2>2. Init => disk.lines = <<>> /\ settled = {}
    BY SMTT(40) DEF Init, NoFile
  <2> QED
    BY <2>1, <2>2 DEF Durably!Init
<1>2. Spec => [](faults = 0)
  <2>1. Init => faults = 0
    BY DEF Init
  <2>2. Typed /\ faults = 0 /\ [Next]_vars => (faults = 0)'
    BY NoFaultNext
  <2>3. Spec => []Typed
    BY TypedInit, TypedNext, PTL DEF Spec
  <2> QED
    BY <2>1, <2>2, <2>3, PTL DEF Spec
<1>3. Alone /\ Kept /\ faults = 0 /\ (faults = 0)' /\ [Next]_vars => [Durably!Next]_(Durably!vars)
  BY StepRefines
<1> QED
  BY <1>1, <1>2, <1>3, AloneAlways, PTL DEF Spec, ImplementsDurableQueue, Durably!Spec
================================================================================
