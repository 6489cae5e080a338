--------------------------- MODULE SeamlessProofs ---------------------------
(***************************************************************************)
(* Proof that the continuity controller of seamless.rs switches safely     *)
(* whatever the candidates, the concurrent callers of act(), the capacity  *)
(* of the replay buffer and its hop limit.                                 *)
(***************************************************************************)
EXTENDS SeamlessController, SequenceProofs, FiniteSetTheorems

USE ZenonT(40)

Places == {"idle", "warm", "already", "candidate", "push", "switch", "add", "promote", "replay",
           "cold", "coldtry", "coldadd", "coldpromote", "coldreplay"}
Ticks == [pc : Places, at : Nat, active : Names \union {None}, already : SUBSET Names,
          name : Names \union {None}, spends : BOOLEAN]
Standbys == [name : Names, fresh : BOOLEAN]
Counters == [seamless : Nat, cold : Nat, failed : Nat]
Frames == [seq : Nat, hops : Nat]

\* The callers that have a name in hand.
Naming == {"push", "add", "promote", "coldadd", "coldpromote"}
\* The callers counted by switch_now but not yet by its statistics, those
\* between add_standby and promote, and those between the bound and the push.
Switchers == {t \in Tickers : Switching(t)}
Promoting == {t \in Tickers : tick[t].pc \in {"promote", "coldpromote"}}
Pushing == {t \in Tickers : tick[t].pc = "push"}

ControllerTyped ==
    /\ active \in Names /\ standby \in Seq(Names)
    /\ warm \in Seq(Standbys)
    /\ stats \in Counters /\ begun \in Nat
    /\ tick \in [Tickers -> Ticks]
    /\ \A t \in Tickers : /\ tick[t].pc \in Naming => tick[t].name \in Names
                          /\ tick[t].pc \in {"candidate", "push", "coldtry"} => tick[t].at >= 1

RingTyped == frames \in Seq(Frames) /\ nextSeq \in Nat /\ Len(frames) <= nextSeq

\* Every caller past the bound has reserved the place it is about to fill, and
\* the last of them found the set below the bound.
WarmReserved == Len(warm) + Cardinality(Pushing) <= MAX_WARM_STANDBYS + Cardinality(Tickers) - 1

\* f assigns every standby on the bridge the call that is about to promote its
\* transport, a different one to each.
Assigned(f) ==
    /\ f \in [DOMAIN standby -> Promoting]
    /\ \A i \in DOMAIN standby : tick[f[i]].name = standby[i]
    /\ \A i, j \in DOMAIN standby : f[i] = f[j] => i = j

BridgeMatched == \E f \in [DOMAIN standby -> Promoting] : Assigned(f)

SeamlessInv ==
    /\ ControllerTyped /\ RingTyped
    /\ SwitchesAccounted
    /\ WarmReserved
    /\ BridgeMatched
    /\ ReplayWindow
-----------------------------------------------------------------------------
(* The replay buffer.                                                       *)

\* A trailing part of the frames held is again the newest ones without a gap,
\* and no hop count in it grew past its predecessor's (ack, replay_all).
LEMMA WindowSuffix ==
  ASSUME RingTyped, ReplayWindow, NEW k \in 0..Len(frames), NEW kept,
         kept = SubSeq(frames, k + 1, Len(frames))
  PROVE  /\ kept \in Seq(Frames) /\ Len(kept) = Len(frames) - k
         /\ \A i \in 1..Len(kept) : /\ kept[i].seq = nextSeq - Len(kept) + i - 1
                                    /\ kept[i].hops <= MaxHops
                                    /\ i > 1 => kept[i - 1].hops >= kept[i].hops
<1>1. /\ frames \in Seq(Frames) /\ Len(frames) \in Nat /\ nextSeq \in Nat /\ k \in Nat
      /\ DOMAIN frames = 1..Len(frames) /\ k <= Len(frames)
  BY SMTT(40) DEF RingTyped
<1>2. /\ kept \in Seq(Frames) /\ Len(kept) = Len(frames) - k
      /\ \A i \in 1..Len(kept) : k + i \in 1..Len(frames) /\ kept[i] = frames[k + i]
  BY <1>1, SuffixElements
<1> DEFINE n == Len(frames)
           m == Len(kept)
<1>m. n \in Nat /\ m \in Nat /\ m = n - k
  <2>1. n \in Nat /\ m = n - k /\ k <= n
    BY <1>1, <1>2
  <2> HIDE DEF n, m
  <2> QED
    BY <1>1, <2>1, SMTT(40)
<1> HIDE DEF n, m
<1>3. ASSUME NEW i \in 1..m
      PROVE  /\ kept[i].seq = nextSeq - m + i - 1
             /\ kept[i].hops <= MaxHops
             /\ i > 1 => kept[i - 1].hops >= kept[i].hops
  <2>1. k + i \in DOMAIN frames /\ kept[i] = frames[k + i]
    BY <1>1, <1>2 DEF m
  <2>a. i > 1 => i - 1 \in 1..m
    BY <1>m, SMTT(40)
  <2>b. k + (i - 1) = (k + i) - 1 /\ (i > 1 => k + i > 1)
    BY <1>1, SMTT(40)
  <2>2. i > 1 => kept[i - 1] = frames[(k + i) - 1] /\ k + i > 1
    BY <1>2, <2>a, <2>b DEF m
  <2>3. /\ frames[k + i].seq = nextSeq - n + (k + i) - 1
        /\ frames[k + i].hops <= MaxHops
        /\ k + i > 1 => frames[(k + i) - 1].hops >= frames[k + i].hops
    BY <2>1 DEF ReplayWindow, n
  <2>4. nextSeq - n + (k + i) - 1 = nextSeq - m + i - 1
    BY <1>1, <1>m, SMTT(40)
  <2> QED
    BY <2>1, <2>2, <2>3, <2>4
<1> QED
  BY <1>2, <1>3 DEF m

\* A new frame goes behind the newest, in the place of the oldest when the
\* buffer is full (push).
LEMMA PushKeepsWindow ==
  ASSUME RingTyped, ReplayWindow, Push
  PROVE  RingTyped' /\ ReplayWindow'
<1> DEFINE full == Len(frames) >= Capacity
           room == IF full THEN Tail(frames) ELSE frames
           new == [seq |-> nextSeq, hops |-> 0]
<1>1. /\ frames \in Seq(Frames) /\ Len(frames) \in Nat /\ nextSeq \in Nat /\ MaxHops \in Nat
      /\ DOMAIN frames = 1..Len(frames) /\ Len(frames) <= nextSeq /\ Capacity \in Nat \ {0}
  BY SeamlessAssumption, SMTT(40) DEF RingTyped, Capacity
<1>2. frames' = Append(room, new) /\ nextSeq' = nextSeq + 1
  BY DEF Push
<1>3. \E k \in 0..Len(frames) : room = SubSeq(frames, k + 1, Len(frames))
  <2>1. CASE full
    <3>1. Len(frames) >= 1 /\ frames # <<>>
      BY <1>1, <2>1, SMTT(40)
    <3>2. Tail(frames) = SubSeq(frames, 2, Len(frames))
      BY <1>1, <3>1, SMTT(40)
    <3> QED
      BY <2>1, <3>1, <3>2, <1>1, SMTT(40)
  <2>2. CASE ~full
    <3>1. SubSeq(frames, 1, Len(frames)) = frames
      BY <1>1, SMTT(40)
    <3> QED
      BY <2>2, <3>1, <1>1, SMTT(40)
  <2> QED
    BY <2>1, <2>2
<1>4. PICK k \in 0..Len(frames) : room = SubSeq(frames, k + 1, Len(frames))
  BY <1>3
<1> HIDE DEF room, full
<1>5. /\ room \in Seq(Frames) /\ Len(room) = Len(frames) - k
      /\ \A i \in 1..Len(room) : /\ room[i].seq = nextSeq - Len(room) + i - 1
                                 /\ room[i].hops <= MaxHops
                                 /\ i > 1 => room[i - 1].hops >= room[i].hops
  BY <1>4, WindowSuffix
<1>6. new \in Frames /\ new.seq = nextSeq /\ new.hops = 0
  BY <1>1 DEF Frames
<1> HIDE DEF new
<1>7. /\ frames' \in Seq(Frames) /\ Len(frames') = Len(room) + 1 /\ Len(room) \in Nat
      /\ DOMAIN frames' = 1..(Len(room) + 1)
      /\ \A i \in 1..Len(room) : frames'[i] = room[i]
      /\ frames'[Len(room) + 1] = new
  BY <1>2, <1>5, <1>6, SMTT(40)
<1>8. RingTyped'
  BY <1>1, <1>2, <1>5, <1>7, SMTT(40) DEF RingTyped
<1>9. ASSUME NEW i \in 1..Len(room)
      PROVE  /\ frames'[i].seq = nextSeq' - Len(frames') + i - 1
             /\ frames'[i].hops <= MaxHops
             /\ i > 1 => frames'[i - 1].hops >= frames'[i].hops
  <2>1. frames'[i] = room[i] /\ (i > 1 => frames'[i - 1] = room[i - 1])
    BY <1>7, SMTT(40)
  <2> QED
    BY <1>1, <1>2, <1>5, <1>7, <2>1, SMTT(40)
<1>10. /\ frames'[Len(room) + 1].seq = nextSeq' - Len(frames') + (Len(room) + 1) - 1
       /\ frames'[Len(room) + 1].hops <= MaxHops
       /\ Len(room) + 1 > 1 => frames'[Len(room)].hops >= frames'[Len(room) + 1].hops
  <2>1. Len(room) > 0 => frames'[Len(room)] \in Frames
    BY <1>7, <1>5, SMTT(40)
  <2>2. Len(room) > 0 => frames'[Len(room)].hops >= 0
    BY <2>1, SMTT(40) DEF Frames
  <2> QED
    BY <1>1, <1>2, <1>6, <1>7, <2>2, SMTT(40)
<1>11. ReplayWindow'
  <2> SUFFICES ASSUME NEW i \in 1..(Len(room) + 1)
               PROVE  /\ frames'[i].seq = nextSeq' - Len(frames') + i - 1
                      /\ frames'[i].hops <= MaxHops
                      /\ i > 1 => frames'[i - 1].hops >= frames'[i].hops
    BY <1>7 DEF ReplayWindow
  <2>1. i \in 1..Len(room) \/ i = Len(room) + 1
    BY <1>7, SMTT(40)
  <2>2. (Len(room) + 1) - 1 = Len(room)
    BY <1>7, SMTT(40)
  <2> QED
    BY <1>9, <1>10, <2>1, <2>2
<1> QED
  BY <1>8, <1>11

\* An acknowledgement takes the oldest frames: the numbers increase (ack).
LEMMA AckKeepsWindow ==
  ASSUME RingTyped, ReplayWindow, NEW upto \in Int, Ack(upto)
  PROVE  RingTyped' /\ ReplayWindow'
<1> DEFINE S == {f \in Range(frames) : f.seq > upto}
<1>1. /\ frames \in Seq(Frames) /\ Len(frames) \in Nat /\ nextSeq \in Nat
      /\ DOMAIN frames = 1..Len(frames)
  BY SMTT(40) DEF RingTyped
<1>t. \A i \in 1..Len(frames) : frames[i].seq \in Nat
  <2>1. \A f \in Frames : f.seq \in Nat
    BY DEF Frames
  <2> QED
    BY <1>1, <2>1, SMTT(40)
<1>2. \A i \in 1..Len(frames) : frames[i] \in S <=> frames[i].seq > upto
  BY <1>1 DEF Range
<1>3. \A i, j \in 1..Len(frames) : i < j => frames[i].seq < frames[j].seq
  BY <1>1, SMTT(40) DEF ReplayWindow
<1>4. \A i, j \in 1..Len(frames) : i < j /\ frames[i] \in S => frames[j] \in S
  BY <1>t, <1>2, <1>3, SMTT(40)
<1>5. frames' = Retain(frames, S) /\ nextSeq' = nextSeq
  BY DEF Ack
<1> HIDE DEF S
<1>6. PICK k \in 0..Len(frames) : Retain(frames, S) = SubSeq(frames, k + 1, Len(frames))
  BY <1>1, <1>4, RetainSuffix
<1>7. /\ frames' \in Seq(Frames) /\ Len(frames') = Len(frames) - k
      /\ \A i \in 1..Len(frames') : /\ frames'[i].seq = nextSeq - Len(frames') + i - 1
                                    /\ frames'[i].hops <= MaxHops
                                    /\ i > 1 => frames'[i - 1].hops >= frames'[i].hops
  BY <1>5, <1>6, WindowSuffix
<1>8. DOMAIN frames' = 1..Len(frames') /\ Len(frames') <= Len(frames)
  BY <1>1, <1>7, SMTT(40)
<1>9. RingTyped'
  BY <1>1, <1>5, <1>7, <1>8, SMTT(40) DEF RingTyped
<1>10. ReplayWindow'
  BY <1>5, <1>7, <1>8 DEF ReplayWindow
<1> QED
  BY <1>9, <1>10

\* A replay retires the oldest frames: no newer frame has more hops (replay_all).
LEMMA ReplayKeepsWindow ==
  ASSUME RingTyped, ReplayWindow, ReplayAll
  PROVE  RingTyped' /\ ReplayWindow'
<1> DEFINE S == {f \in Range(frames) : f.hops < MaxHops}
           kept == Retain(frames, S)
<1>1. /\ frames \in Seq(Frames) /\ Len(frames) \in Nat /\ nextSeq \in Nat /\ MaxHops \in Nat
      /\ DOMAIN frames = 1..Len(frames) /\ Len(frames) <= nextSeq
  BY SeamlessAssumption, SMTT(40) DEF RingTyped
<1>t. \A f \in Frames : f.seq \in Nat /\ f.hops \in Nat
  BY DEF Frames
<1>2. \A i \in 1..Len(frames) : frames[i] \in S <=> frames[i].hops < MaxHops
  BY <1>1 DEF Range
<1>3. \A i, j \in 1..Len(frames) : i < j => frames[i].hops >= frames[j].hops
  <2> DEFINE hop(i) == frames[i].hops
             X == {d \in Nat : \A i \in 1..Len(frames) : i + d \in 1..Len(frames) => hop(i) >= hop(i + d)}
  <2>1. \A i \in 1..Len(frames) : hop(i) \in Nat
    BY <1>1, <1>t, SMTT(40)
  <2>2. \A i \in 1..Len(frames) : i > 1 => hop(i - 1) >= hop(i)
    BY <1>1 DEF ReplayWindow
  <2> HIDE DEF hop
  <2>3. 0 \in X
    <3>1. \A i \in 1..Len(frames) : i + 0 = i
      BY <1>1, SMTT(40)
    <3> QED
      BY <2>1, <3>1, SMTT(40)
  <2>4. ASSUME NEW d \in Nat, d \in X PROVE d + 1 \in X
    <3> SUFFICES ASSUME NEW i \in 1..Len(frames), i + (d + 1) \in 1..Len(frames)
                 PROVE  hop(i) >= hop(i + (d + 1))
      BY SMTT(40)
    <3>1. i + d \in 1..Len(frames) /\ (i + (d + 1)) - 1 = i + d /\ i + (d + 1) > 1
      BY <1>1, SMTT(40)
    <3>2. hop(i) >= hop(i + d) /\ hop(i + d) >= hop(i + (d + 1))
      BY <2>2, <2>4, <3>1
    <3> QED
      BY <2>1, <3>1, <3>2, SMTT(40)
  <2>5. Nat \subseteq X
    <3> HIDE DEF X
    <3> QED
      BY <2>3, <2>4, InductionOnNat
  <2> SUFFICES ASSUME NEW i \in 1..Len(frames), NEW j \in 1..Len(frames), i < j
               PROVE  hop(i) >= hop(j)
    BY DEF hop
  <2>6. j - i \in Nat /\ i + (j - i) = j
    BY <1>1, SMTT(40)
  <2> QED
    BY <2>5, <2>6
<1>4. \A i, j \in 1..Len(frames) : i < j /\ frames[i] \in S => frames[j] \in S
  <2>1. \A i \in 1..Len(frames) : frames[i].hops \in Nat
    BY <1>1, <1>t, SMTT(40)
  <2> QED
    BY <1>1, <1>2, <1>3, <2>1, SMTT(40)
<1>5. /\ frames' = [i \in DOMAIN kept |-> [kept[i] EXCEPT !.hops = @ + 1]]
      /\ nextSeq' = nextSeq
  BY DEF ReplayAll
<1>6. PICK k \in 0..Len(frames) : kept = SubSeq(frames, k + 1, Len(frames))
  <2> HIDE DEF S
  <2> QED
    BY <1>1, <1>4, RetainSuffix
<1>e. \A f \in Elements(kept) : f.hops < MaxHops
  <2>1. Elements(Retain(frames, S)) = Elements(frames) \intersect S
    <3> HIDE DEF S
    <3> QED
      BY <1>1, RetainElements
  <2> QED
    BY <2>1
<1> HIDE DEF S, kept
<1>7. /\ kept \in Seq(Frames) /\ Len(kept) = Len(frames) - k
      /\ \A i \in 1..Len(kept) : /\ kept[i].seq = nextSeq - Len(kept) + i - 1
                                 /\ kept[i].hops <= MaxHops
                                 /\ i > 1 => kept[i - 1].hops >= kept[i].hops
  BY <1>6, WindowSuffix
<1>8. Len(kept) \in Nat /\ DOMAIN kept = 1..Len(kept) /\ Len(kept) <= Len(frames)
  BY <1>1, <1>7, SMTT(40)
<1>9. ASSUME NEW i \in 1..Len(kept)
      PROVE  /\ kept[i].hops \in Nat /\ kept[i].hops + 1 <= MaxHops
             /\ frames'[i] \in Frames
             /\ frames'[i].seq = kept[i].seq /\ frames'[i].hops = kept[i].hops + 1
  <2>a. kept[i] \in Frames
    BY <1>7, SMTT(40)
  <2>1. kept[i] \in Frames /\ kept[i] \in Elements(kept)
    BY <2>a, <1>8 DEF Elements
  <2>2. frames'[i] = [kept[i] EXCEPT !.hops = @ + 1]
    BY <1>5, <1>8
  <2>3. kept[i].hops \in Nat /\ kept[i].hops + 1 <= MaxHops
    BY <2>1, <1>e, <1>t, <1>1, SMTT(40)
  <2> QED
    BY <2>1, <2>2, <2>3, SMTT(40) DEF Frames
<1>10. /\ frames' \in Seq(Frames) /\ Len(frames') = Len(kept)
       /\ DOMAIN frames' = 1..Len(kept)
  <2>1. DOMAIN frames' = 1..Len(kept) /\ frames' \in [1..Len(kept) -> Frames]
    BY <1>5, <1>8, <1>9
  <2> QED
    BY <1>8, <2>1, SMTT(40)
<1>11. RingTyped'
  BY <1>1, <1>5, <1>8, <1>10, SMTT(40) DEF RingTyped
<1>12. ASSUME NEW i \in 1..Len(kept)
       PROVE  /\ frames'[i].seq = nextSeq' - Len(frames') + i - 1
              /\ frames'[i].hops <= MaxHops
              /\ i > 1 => frames'[i - 1].hops >= frames'[i].hops
  <2>1. i > 1 => i - 1 \in 1..Len(kept)
    BY <1>8, SMTT(40)
  <2>2. i > 1 => kept[i - 1].hops \in Nat /\ frames'[i - 1].hops = kept[i - 1].hops + 1
    BY <1>9, <2>1
  <2>3. /\ kept[i].hops \in Nat /\ kept[i].hops + 1 <= MaxHops
        /\ frames'[i].seq = kept[i].seq /\ frames'[i].hops = kept[i].hops + 1
    BY <1>9
  <2>4. /\ kept[i].seq = nextSeq - Len(kept) + i - 1
        /\ i > 1 => kept[i - 1].hops >= kept[i].hops
    BY <1>7
  <2>5. i > 1 => frames'[i - 1].hops >= frames'[i].hops
    BY <2>2, <2>3, <2>4, SMTT(40)
  <2> QED
    BY <1>5, <1>10, <2>3, <2>4, <2>5
<1> QED
  BY <1>10, <1>11, <1>12 DEF ReplayWindow

\* No step breaks the window: a step pushes, acknowledges or replays, or it
\* leaves the buffer alone.
LEMMA RingStep ==
  ASSUME RingTyped, ReplayWindow, [SeamlessNext]_seamlessVars
  PROVE  RingTyped' /\ ReplayWindow'
<1>1. \/ UNCHANGED ringVars \/ ReplayAll \/ Push \/ \E upto \in 0..(MaxShared - 1) : Ack(upto)
  BY DEF SeamlessNext, seamlessVars, Act, WarmReadActive, WarmReadAlready, WarmPush, WarmCandidate,
         SwitchTake, SwitchAdd, SwitchPromote, SwitchReplay, ColdReadActive, ColdCandidate,
         StandbyAges, BridgeUser, BufferUser
<1>2. CASE UNCHANGED ringVars
  BY <1>2 DEF ringVars, RingTyped, ReplayWindow
<1>3. CASE \E upto \in 0..(MaxShared - 1) : Ack(upto)
  <2>1. PICK upto \in 0..(MaxShared - 1) : Ack(upto)
    BY <1>3
  <2>2. upto \in Int
    BY SeamlessAssumption, SMTT(40)
  <2> QED
    BY <2>1, <2>2, AckKeepsWindow
<1> QED
  BY <1>1, <1>2, <1>3, PushKeepsWindow, ReplayKeepsWindow
-----------------------------------------------------------------------------
(* Sequences and counts.                                                    *)

\* A sequence without its i-th element.
LEMMA WithoutElements ==
  ASSUME NEW T, NEW s \in Seq(T), NEW i \in 1..Len(s)
  PROVE  /\ Without(s, i) \in Seq(T) /\ Len(Without(s, i)) = Len(s) - 1
         /\ \A j \in 1..(Len(s) - 1) : Without(s, i)[j] = s[IF j < i THEN j ELSE j + 1]
<1> DEFINE n == Len(s)
           Kept(j) == IF j < i THEN s[j] ELSE s[j + 1]
<1>1. n \in Nat /\ n >= 1 /\ n - 1 \in Nat
  BY SMTT(40)
<1>2. \A j \in 1..(n - 1) : Kept(j) \in T
  BY <1>1, SMTT(40)
<1>3. Without(s, i) = [j \in 1..(n - 1) |-> Kept(j)]
  BY DEF Without
<1>4. \A j \in 1..(n - 1) : Kept(j) = s[IF j < i THEN j ELSE j + 1]
  OBVIOUS
<1> HIDE DEF Kept, n
<1>5. [j \in 1..(n - 1) |-> Kept(j)] \in Seq(T) /\ Len([j \in 1..(n - 1) |-> Kept(j)]) = n - 1
  BY <1>1, <1>2, IsASeq, SMTT(40)
<1> QED
  BY <1>3, <1>4, <1>5 DEF n

\* promote removes the standby at the position of a handle of that name.
LEMMA PositionFound ==
  ASSUME NEW T, standby \in Seq(T), NEW name, CanPromote(name)
  PROVE  PositionOf(name) \in 1..Len(standby) /\ standby[PositionOf(name)] = name
<1> DEFINE I == {i \in DOMAIN standby : standby[i] = name}
           less == OpToRel(<, Nat)
<1>1. I # {} /\ I \subseteq Nat
  BY SMTT(40) DEF CanPromote, Range
<1>2. IsWellFoundedOn(less, Nat)
  BY NatLessThanWellFounded
<1>3. \A x, y \in Nat : x < y => <<x, y>> \in less
  BY DEF OpToRel
<1> HIDE DEF less
<1>4. \E m \in I : \A k \in I : ~(<<k, m>> \in less)
  <2> HIDE DEF I
  <2> QED
    BY <1>1, <1>2, WFMin
<1>5. \E m \in I : \A k \in I : m =< k
  <2>1. PICK m \in I : \A k \in I : ~(<<k, m>> \in less)
    BY <1>4
  <2> HIDE DEF I
  <2>2. \A k \in I : ~(k < m)
    BY <1>1, <1>3, <2>1
  <2>3. \A k \in I : m =< k
    BY <1>1, <2>2, SMTT(40)
  <2> QED
    BY <2>3
<1>6. Min(I) \in I
  <2> HIDE DEF I
  <2> QED
    BY <1>5 DEF Min
<1> QED
  BY <1>6, SMTT(40) DEF PositionOf

\* A set that differs from another in the membership of t at most.
LEMMA OneMoves ==
  ASSUME NEW P, IsFiniteSet(P), NEW A \in SUBSET P, NEW B \in SUBSET P, NEW t \in P,
         A \ {t} = B \ {t}
  PROVE  /\ Cardinality(A) \in Nat /\ Cardinality(B) \in Nat
         /\ (t \in A <=> t \in B) => Cardinality(B) = Cardinality(A)
         /\ t \in A /\ t \notin B => Cardinality(B) = Cardinality(A) - 1
         /\ t \notin A /\ t \in B => Cardinality(B) = Cardinality(A) + 1
         /\ t \notin B => Cardinality(B) <= Cardinality(P) - 1
         /\ Cardinality(B) <= Cardinality(P) /\ Cardinality(P) \in Nat
<1>1. IsFiniteSet(A) /\ IsFiniteSet(B) /\ Cardinality(B) <= Cardinality(P)
  BY FS_Subset
<1>2. Cardinality(A) \in Nat /\ Cardinality(B) \in Nat /\ Cardinality(P) \in Nat
  BY <1>1, FS_CardinalityType
<1>3. Cardinality(A \ {t}) = IF t \in A THEN Cardinality(A) - 1 ELSE Cardinality(A)
  BY <1>1, FS_RemoveElement
<1>4. Cardinality(B \ {t}) = IF t \in B THEN Cardinality(B) - 1 ELSE Cardinality(B)
  BY <1>1, FS_RemoveElement
<1>5. Cardinality(P \ {t}) = Cardinality(P) - 1 /\ IsFiniteSet(P \ {t})
  BY FS_RemoveElement
<1>6. t \notin B => Cardinality(B) <= Cardinality(P \ {t})
  <2>1. t \notin B => B \in SUBSET (P \ {t})
    OBVIOUS
  <2> QED
    BY <1>5, <2>1, FS_Subset
<1>7. t \notin B => Cardinality(B) <= Cardinality(P) - 1
  BY <1>5, <1>6
<1>8. Cardinality(A \ {t}) = Cardinality(B \ {t})
  OBVIOUS
<1> DEFINE a == Cardinality(A)
           b == Cardinality(B)
<1> HIDE DEF a, b
<1>9. (IF t \in A THEN a - 1 ELSE a) = (IF t \in B THEN b - 1 ELSE b)
  BY <1>3, <1>4, <1>8 DEF a, b
<1>10. a \in Nat /\ b \in Nat
  BY <1>2 DEF a, b
<1>11. /\ (t \in A <=> t \in B) => b = a
       /\ t \in A /\ t \notin B => b = a - 1
       /\ t \notin A /\ t \in B => b = a + 1
  BY <1>9, <1>10, SMTT(40)
<1> QED
  BY <1>1, <1>2, <1>7, <1>11 DEF a, b
-----------------------------------------------------------------------------
(* What one step of a caller of act() does.                                 *)

Moves(t) ==
    /\ tick' \in [Tickers -> Ticks]
    /\ \A u \in Tickers \ {t} : tick'[u] = tick[u]

\* The record r is one that a caller can be in.
Reachable(r) ==
    /\ r \in Ticks
    /\ r.pc \in Naming => r.name \in Names
    /\ r.pc \in {"candidate", "push", "coldtry"} => r.at >= 1

\* A call of switch_now goes on, begins or is counted.
Accounts(t) ==
    \/ stats' = stats /\ begun' = begun /\ (t \in Switchers <=> t \in Switchers')
    \/ stats' = stats /\ begun' = begun + 1 /\ t \notin Switchers /\ t \in Switchers'
    \/ /\ \/ stats' = [stats EXCEPT !.seamless = @ + 1]
          \/ stats' = [stats EXCEPT !.cold = @ + 1]
          \/ stats' = [stats EXCEPT !.failed = @ + 1]
       /\ begun' = begun /\ t \in Switchers /\ t \notin Switchers'

\* The warm set does not grow, grows by the caller that had passed the bound,
\* or the caller passes the bound.
WarmSlots(t) ==
    \/ Len(warm') <= Len(warm) /\ t \notin Pushing'
    \/ Len(warm') = Len(warm) + 1 /\ t \in Pushing /\ t \notin Pushing'
    \/ warm' = warm /\ Len(warm) < MAX_WARM_STANDBYS /\ t \in Pushing'

\* The caller leaves the bridge alone, adds its standby, takes one of that
\* name, or finds none.
BridgeUse(t) ==
    \/ standby' = standby /\ t \notin Promoting /\ t \notin Promoting'
    \/ /\ standby' = Append(standby, tick[t].name)
       /\ t \notin Promoting /\ t \in Promoting' /\ tick'[t].name = tick[t].name
    \/ Promote(tick[t].name) /\ t \in Promoting /\ t \notin Promoting'
    \/ ~ CanPromote(tick[t].name) /\ standby' = standby /\ t \in Promoting /\ t \notin Promoting'

CallerStep(t) == ControllerTyped' /\ Moves(t) /\ Accounts(t) /\ WarmSlots(t) /\ BridgeUse(t)

\* The caller t changes to the record r and the others stay.
LEMMA TickUpdated ==
  ASSUME ControllerTyped, NEW t \in Tickers, NEW r, Reachable(r), tick' = [tick EXCEPT ![t] = r]
  PROVE  /\ Moves(t) /\ tick'[t] = r
         /\ \A u \in Tickers : Reachable(tick'[u])
<1>1. tick \in [Tickers -> Ticks] /\ r \in Ticks
  BY DEF ControllerTyped, Reachable
<1>2. tick' \in [Tickers -> Ticks] /\ tick'[t] = r /\ \A u \in Tickers \ {t} : tick'[u] = tick[u]
  BY <1>1
<1>3. \A u \in Tickers : Reachable(tick[u])
  BY <1>1 DEF ControllerTyped, Reachable
<1> QED
  BY <1>2, <1>3 DEF Moves

\* A step that only moves one caller between places outside switch_now and the
\* push, or inside switch_now and off the bridge, keeps all the rest.
LEMMA QuietStep ==
  ASSUME ControllerTyped, NEW t \in Tickers, NEW r, Reachable(r), tick' = [tick EXCEPT ![t] = r],
         UNCHANGED <<active, standby, stats, begun>>,
         warm' \in Seq(Standbys), Len(warm') <= Len(warm),
         tick[t].pc \notin {"promote", "coldpromote"},
         r.pc \notin {"push", "promote", "coldpromote"},
         LET inside == {"add", "replay", "cold", "coldtry", "coldadd", "coldreplay"}
         IN  tick[t].pc \in inside <=> r.pc \in inside
  PROVE  CallerStep(t)
<1>1. /\ Moves(t) /\ tick'[t] = r /\ tick' \in [Tickers -> Ticks]
      /\ \A u \in Tickers : Reachable(tick'[u])
  BY TickUpdated DEF Moves
<1>2. ControllerTyped'
  BY <1>1 DEF ControllerTyped, Reachable
<1>3. Accounts(t)
  BY <1>1 DEF Accounts, Switchers, Switching
<1>4. WarmSlots(t)
  BY <1>1 DEF WarmSlots, Pushing
<1>5. BridgeUse(t)
  BY <1>1 DEF BridgeUse, Promoting
<1> QED
  BY <1>1, <1>2, <1>3, <1>4, <1>5 DEF CallerStep

\* Dropping the stale standbys only shortens the warm set (act, switch_now).
LEMMA FreshShorter ==
  ASSUME NEW w \in Seq(Standbys)
  PROVE  Fresh(w) \in Seq(Standbys) /\ Len(Fresh(w)) <= Len(w)
BY RetainElements DEF Fresh

\* act, which sends its caller on to warm_standbys, to switch_now or home.
LEMMA ActStep ==
  ASSUME ControllerTyped, NEW t \in Tickers, NEW forecast, NEW alive, Act(t, forecast, alive)
  PROVE  CallerStep(t)
<1> DEFINE r == IF ~ alive THEN [Resting EXCEPT !.pc = "switch"]
                ELSE IF forecast = "PrewarmAdvised" THEN [Resting EXCEPT !.pc = "warm"]
                ELSE IF forecast = "SwitchAdvised" THEN [Resting EXCEPT !.pc = "warm", !.spends = TRUE]
                ELSE Resting
<1>1. r \in Ticks /\ r.pc \in {"idle", "warm", "switch"}
  BY DEF Resting, Ticks, Places
<1>2. Reachable(r)
  BY <1>1 DEF Reachable, Naming
<1>3. tick' = [tick EXCEPT ![t] = r] /\ warm' = Fresh(warm) /\ tick[t].pc = "idle"
  BY DEF Act, At
<1>4. UNCHANGED <<active, standby, stats, begun>>
  BY DEF Act, bridgeVars
<1>5. warm' \in Seq(Standbys) /\ Len(warm') <= Len(warm)
  BY <1>3, FreshShorter DEF ControllerTyped
<1> HIDE DEF r
<1> QED
  BY <1>1, <1>2, <1>3, <1>4, <1>5, QuietStep

\* Resting is a place a caller can be in.
LEMMA RestingReachable ==
  /\ Resting \in Ticks /\ Reachable(Resting) /\ Resting.pc = "idle"
  /\ [Resting EXCEPT !.pc = "switch"] \in Ticks /\ Reachable([Resting EXCEPT !.pc = "switch"])
<1>1. Resting \in Ticks /\ [Resting EXCEPT !.pc = "switch"] \in Ticks
  BY DEF Resting, Ticks, Places
<1> QED
  BY <1>1 DEF Reachable, Resting, Naming

\* The two reads of warm_standbys and the read of switch_cold.
LEMMA ReadSteps ==
  ASSUME ControllerTyped, NEW t \in Tickers,
         WarmReadActive(t) \/ WarmReadAlready(t) \/ ColdReadActive(t)
  PROVE  CallerStep(t)
<1> DEFINE q == tick[t]
<1>1. q \in Ticks /\ active \in Names /\ WarmNames \in SUBSET Names
  <2>1. q \in Ticks /\ active \in Names /\ warm \in Seq(Standbys)
    BY DEF ControllerTyped
  <2>2. \A i \in DOMAIN warm : warm[i] \in Standbys
    BY <2>1, SMTT(40)
  <2>3. \A w \in Standbys : w.name \in Names
    BY DEF Standbys
  <2> QED
    BY <2>1, <2>2, <2>3 DEF WarmNames
<1>2. UNCHANGED <<active, standby, stats, begun>> /\ UNCHANGED warm
  BY DEF WarmReadActive, WarmReadAlready, ColdReadActive, bridgeVars
<1>3. warm' \in Seq(Standbys) /\ Len(warm') <= Len(warm)
  BY <1>2, SMTT(40) DEF ControllerTyped
<1>4. CASE WarmReadActive(t)
  <2> DEFINE r == [q EXCEPT !.pc = "already", !.active = active]
  <2>1. r \in Ticks /\ r.pc = "already"
    BY <1>1 DEF Ticks, Places
  <2>2. tick' = [tick EXCEPT ![t] = r] /\ q.pc = "warm"
    BY <1>4 DEF WarmReadActive, At, ControllerTyped
  <2>3. Reachable(r)
    BY <2>1 DEF Reachable, Naming
  <2> HIDE DEF r
  <2> QED
    BY <1>2, <1>3, <2>1, <2>2, <2>3, QuietStep
<1>5. CASE WarmReadAlready(t)
  <2> DEFINE r == [q EXCEPT !.pc = "candidate", !.already = WarmNames, !.at = 1]
  <2>1. r \in Ticks /\ r.pc = "candidate" /\ r.at = 1
    BY <1>1 DEF Ticks, Places
  <2>2. tick' = [tick EXCEPT ![t] = r] /\ q.pc = "already"
    BY <1>5 DEF WarmReadAlready, At, ControllerTyped
  <2>3. Reachable(r)
    BY <2>1, SMTT(40) DEF Reachable, Naming
  <2> HIDE DEF r
  <2> QED
    BY <1>2, <1>3, <2>1, <2>2, <2>3, QuietStep
<1>6. CASE ColdReadActive(t)
  <2> DEFINE r == [q EXCEPT !.pc = "coldtry", !.at = 1, !.active = active]
  <2>1. r \in Ticks /\ r.pc = "coldtry" /\ r.at = 1
    BY <1>1 DEF Ticks, Places
  <2>2. tick' = [tick EXCEPT ![t] = r] /\ q.pc = "cold"
    BY <1>6 DEF ColdReadActive, At, ControllerTyped
  <2>3. Reachable(r)
    BY <2>1, SMTT(40) DEF Reachable, Naming
  <2> HIDE DEF r
  <2> QED
    BY <1>2, <1>3, <2>1, <2>2, <2>3, QuietStep
<1> QED
  BY <1>4, <1>5, <1>6

\* One turn of warm_standbys: home or on to switch_now, the next candidate, or
\* past the bound with an established one.
LEMMA WarmCandidateStep ==
  ASSUME ControllerTyped, NEW t \in Tickers, NEW established, WarmCandidate(t, established)
  PROVE  CallerStep(t)
<1> DEFINE q == tick[t]
           i == q.at
           leaves == i > Len(Candidates) \/ WarmFull
           skips == Candidates[i] = q.active \/ Candidates[i] \in q.already \/ ~ established
           r == IF leaves THEN WarmDone(t)
                ELSE IF skips THEN [q EXCEPT !.at = i + 1]
                ELSE [q EXCEPT !.pc = "push", !.name = Candidates[i]]
<1>1. /\ q \in Ticks /\ i \in Nat /\ q.pc = "candidate" /\ i >= 1 /\ i + 1 \in Nat
      /\ tick \in [Tickers -> Ticks]
  BY SMTT(40) DEF ControllerTyped, WarmCandidate, At, Ticks
<1>2. tick' = [tick EXCEPT ![t] = r]
  BY <1>1 DEF WarmCandidate
<1>3. UNCHANGED <<active, standby, stats, begun>> /\ UNCHANGED warm
  BY DEF WarmCandidate, bridgeVars
<1>4. warm' \in Seq(Standbys) /\ Len(warm') <= Len(warm)
  BY <1>3, SMTT(40) DEF ControllerTyped
<1>5. CASE leaves
  <2>1. r = WarmDone(t)
    BY <1>5
  <2>2. r \in Ticks /\ Reachable(r) /\ r.pc \in {"idle", "switch"}
    BY <2>1, RestingReachable DEF WarmDone, Resting
  <2> HIDE DEF r
  <2> QED
    BY <1>1, <1>2, <1>3, <1>4, <2>2, QuietStep
<1>6. CASE ~ leaves /\ skips
  <2>1. r = [q EXCEPT !.at = i + 1]
    BY <1>6
  <2>a. \A n \in Nat : [q EXCEPT !.at = n] \in Ticks
    BY <1>1 DEF Ticks
  <2>b. r.pc = q.pc /\ r.at = i + 1
    BY <1>1, <2>1 DEF Ticks
  <2>c. i + 1 >= 1
    BY <1>1, SMTT(40)
  <2>2. r \in Ticks /\ r.pc = "candidate" /\ r.at >= 1
    BY <1>1, <2>1, <2>a, <2>b, <2>c
  <2>3. Reachable(r)
    BY <2>2 DEF Reachable, Naming
  <2> HIDE DEF r
  <2> QED
    BY <1>1, <1>2, <1>3, <1>4, <2>2, <2>3, QuietStep
<1>7. CASE ~ leaves /\ ~ skips
  <2>1. r = [q EXCEPT !.pc = "push", !.name = Candidates[i]]
    BY <1>7
  <2>a. Len(Candidates) \in Nat
    BY SeamlessAssumption, SMTT(40)
  <2>b. i \in 1..Len(Candidates)
    BY <1>1, <1>7, <2>a, SMTT(40)
  <2>2. Candidates[i] \in Names
    BY <2>b, SeamlessAssumption, SMTT(40) DEF Names
  <2>3. r \in Ticks /\ r.pc = "push" /\ r.at >= 1 /\ r.name \in Names
    BY <1>1, <2>1, <2>2 DEF Ticks, Places
  <2>4. Reachable(r)
    BY <2>3 DEF Reachable
  <2>5. Len(warm) \in Nat /\ Len(warm) < MAX_WARM_STANDBYS
    BY <1>7, SMTT(40) DEF ControllerTyped, WarmFull, MAX_WARM_STANDBYS
  <2> HIDE DEF r, leaves, skips
  <2>6. /\ Moves(t) /\ tick'[t] = r /\ tick' \in [Tickers -> Ticks]
        /\ \A u \in Tickers : Reachable(tick'[u])
    BY <1>2, <2>4, TickUpdated DEF Moves
  <2>7. ControllerTyped'
    BY <1>3, <2>6 DEF ControllerTyped, Reachable
  <2>8. Accounts(t)
    BY <1>1, <1>3, <2>3, <2>6 DEF Accounts, Switchers, Switching
  <2>9. WarmSlots(t)
    BY <1>3, <2>3, <2>5, <2>6 DEF WarmSlots, Pushing
  <2>10. BridgeUse(t)
    BY <1>1, <1>3, <2>3, <2>6 DEF BridgeUse, Promoting
  <2> QED
    BY <2>6, <2>7, <2>8, <2>9, <2>10 DEF CallerStep
<1> QED
  BY <1>5, <1>6, <1>7

\* The established standby joins the warm set.
LEMMA WarmPushStep ==
  ASSUME ControllerTyped, NEW t \in Tickers, WarmPush(t)
  PROVE  CallerStep(t)
<1> DEFINE q == tick[t]
           r == [q EXCEPT !.pc = "candidate", !.at = @ + 1, !.name = None]
           w == [name |-> q.name, fresh |-> TRUE]
<1>1. /\ q \in Ticks /\ q.at \in Nat /\ q.pc = "push" /\ q.name \in Names
      /\ tick \in [Tickers -> Ticks] /\ warm \in Seq(Standbys)
  BY DEF ControllerTyped, WarmPush, At, Ticks, Naming
<1>2. tick' = [tick EXCEPT ![t] = r] /\ warm' = Append(warm, w)
  BY <1>1 DEF WarmPush
<1>3. UNCHANGED <<active, standby, stats, begun>>
  BY DEF WarmPush, bridgeVars
<1>4. r \in Ticks /\ r.pc = "candidate" /\ r.at >= 1
  <2>1. q.at + 1 \in Nat /\ q.at + 1 >= 1
    BY <1>1, SMTT(40)
  <2>2. \A n \in Nat : LET s == [q EXCEPT !.pc = "candidate", !.at = n, !.name = None]
                      IN  s \in Ticks /\ s.pc = "candidate" /\ s.at = n
    BY <1>1 DEF Ticks, Places
  <2>3. r = [q EXCEPT !.pc = "candidate", !.at = q.at + 1, !.name = None]
    BY <1>1 DEF Ticks
  <2> HIDE DEF r
  <2> QED
    BY <2>1, <2>2, <2>3
<1>5. Reachable(r)
  BY <1>4 DEF Reachable, Naming
<1>6. w \in Standbys
  BY <1>1 DEF Standbys
<1> HIDE DEF r, w
<1>7. warm' \in Seq(Standbys) /\ Len(warm') = Len(warm) + 1
  BY <1>1, <1>2, <1>6, SMTT(40)
<1>8. /\ Moves(t) /\ tick'[t] = r /\ tick' \in [Tickers -> Ticks]
      /\ \A u \in Tickers : Reachable(tick'[u])
  BY <1>2, <1>5, TickUpdated DEF Moves
<1>9. ControllerTyped'
  BY <1>3, <1>7, <1>8 DEF ControllerTyped, Reachable
<1>10. Accounts(t)
  BY <1>1, <1>3, <1>4, <1>8 DEF Accounts, Switchers, Switching
<1>11. WarmSlots(t)
  BY <1>1, <1>4, <1>7, <1>8 DEF WarmSlots, Pushing
<1>12. BridgeUse(t)
  BY <1>1, <1>3, <1>4, <1>8 DEF BridgeUse, Promoting
<1> QED
  BY <1>8, <1>9, <1>10, <1>11, <1>12 DEF CallerStep

\* switch_now begins: with a fresh standby taken out of the warm set, or cold.
LEMMA SwitchTakeStep ==
  ASSUME ControllerTyped, NEW t \in Tickers, SwitchTake(t)
  PROVE  CallerStep(t)
<1> DEFINE q == tick[t]
           fresh == Fresh(warm)
<1>1. /\ q \in Ticks /\ q.pc = "switch" /\ begun' = begun + 1 /\ begun \in Nat
      /\ tick \in [Tickers -> Ticks] /\ warm \in Seq(Standbys) /\ Len(warm) \in Nat
  BY SMTT(40) DEF ControllerTyped, SwitchTake, At
<1>2. UNCHANGED <<active, standby, stats>>
  BY DEF SwitchTake, bridgeVars
<1>3. fresh \in Seq(Standbys) /\ Len(fresh) <= Len(warm)
  BY <1>1, FreshShorter
<1> HIDE DEF fresh
<1>4. \E r \in Ticks : /\ tick' = [tick EXCEPT ![t] = r] /\ r.pc \in {"cold", "add"} /\ Reachable(r)
                       /\ warm' \in Seq(Standbys) /\ Len(warm') <= Len(warm)
  <2>1. CASE fresh = <<>> /\ warm' = <<>> /\ tick' = [tick EXCEPT ![t].pc = "cold"]
    <3> DEFINE r == [q EXCEPT !.pc = "cold"]
    <3>1. tick' = [tick EXCEPT ![t] = r] /\ r \in Ticks /\ r.pc = "cold"
      BY <1>1, <2>1 DEF Ticks, Places
    <3>2. Reachable(r)
      BY <3>1 DEF Reachable, Naming
    <3>3. warm' \in Seq(Standbys) /\ Len(warm') <= Len(warm)
      BY <1>1, <2>1, SMTT(40)
    <3> HIDE DEF r
    <3> QED
      BY <3>1, <3>2, <3>3
  <2>2. CASE \E i \in DOMAIN fresh :
                /\ warm' = Without(fresh, i)
                /\ tick' = [tick EXCEPT ![t].pc = "add", ![t].name = fresh[i].name]
    <3>1. PICK i \in DOMAIN fresh :
                /\ warm' = Without(fresh, i)
                /\ tick' = [tick EXCEPT ![t].pc = "add", ![t].name = fresh[i].name]
      BY <2>2
    <3> DEFINE r == [q EXCEPT !.pc = "add", !.name = fresh[i].name]
    <3>2. fresh[i] \in Standbys /\ i \in 1..Len(fresh)
      BY <1>3, SMTT(40)
    <3>3. fresh[i].name \in Names
      BY <3>2 DEF Standbys
    <3>4. tick' = [tick EXCEPT ![t] = r] /\ r \in Ticks /\ r.pc = "add" /\ r.name \in Names
      BY <1>1, <3>1, <3>3 DEF Ticks, Places
    <3>5. Reachable(r)
      BY <3>4 DEF Reachable
    <3>6. warm' \in Seq(Standbys) /\ Len(warm') = Len(fresh) - 1
      BY <1>3, <3>1, <3>2, WithoutElements
    <3>7. Len(fresh) \in Nat
      BY <1>3, SMTT(40)
    <3>8. Len(warm') <= Len(warm)
      BY <1>1, <1>3, <3>6, <3>7, SMTT(40)
    <3> HIDE DEF r
    <3> QED
      BY <3>4, <3>5, <3>6, <3>8
  <2> QED
    BY <2>1, <2>2 DEF SwitchTake, fresh
<1>5. PICK r \in Ticks : /\ tick' = [tick EXCEPT ![t] = r] /\ r.pc \in {"cold", "add"} /\ Reachable(r)
                         /\ warm' \in Seq(Standbys) /\ Len(warm') <= Len(warm)
  BY <1>4
<1>6. /\ Moves(t) /\ tick'[t] = r /\ tick' \in [Tickers -> Ticks]
      /\ \A u \in Tickers : Reachable(tick'[u])
  BY <1>5, TickUpdated DEF Moves
<1>7. ControllerTyped'
  BY <1>1, <1>2, <1>5, <1>6, SMTT(40) DEF ControllerTyped, Reachable
<1>8. Accounts(t)
  BY <1>1, <1>2, <1>5, <1>6 DEF Accounts, Switchers, Switching
<1>9. WarmSlots(t)
  BY <1>5, <1>6 DEF WarmSlots, Pushing
<1>10. BridgeUse(t)
  BY <1>1, <1>2, <1>5, <1>6 DEF BridgeUse, Promoting
<1> QED
  BY <1>6, <1>7, <1>8, <1>9, <1>10 DEF CallerStep

\* add_standby.
LEMMA SwitchAddStep ==
  ASSUME ControllerTyped, NEW t \in Tickers, SwitchAdd(t)
  PROVE  CallerStep(t)
<1> DEFINE q == tick[t]
           to == IF q.pc = "add" THEN "promote" ELSE "coldpromote"
           r == [q EXCEPT !.pc = to]
<1>1. /\ q \in Ticks /\ q.pc \in {"add", "coldadd"} /\ q.name \in Names
      /\ tick \in [Tickers -> Ticks] /\ standby \in Seq(Names)
  BY DEF ControllerTyped, SwitchAdd, Naming
<1>2. tick' = [tick EXCEPT ![t] = r] /\ standby' = Append(standby, q.name)
  BY <1>1 DEF SwitchAdd, AddStandby
<1>3. UNCHANGED <<active, warm, stats, begun>>
  BY DEF SwitchAdd, AddStandby
<1>4. r \in Ticks /\ r.pc \in {"promote", "coldpromote"} /\ r.name = q.name
  BY <1>1 DEF Ticks, Places
<1>5. Reachable(r)
  BY <1>1, <1>4 DEF Reachable
<1> HIDE DEF r
<1>6. /\ Moves(t) /\ tick'[t] = r /\ tick' \in [Tickers -> Ticks]
      /\ \A u \in Tickers : Reachable(tick'[u])
  BY <1>2, <1>5, TickUpdated DEF Moves
<1>7. ControllerTyped'
  <2>1. standby' \in Seq(Names)
    BY <1>1, <1>2, SMTT(40)
  <2> QED
    BY <1>3, <1>6, <2>1 DEF ControllerTyped, Reachable
<1>8. Accounts(t)
  BY <1>1, <1>3, <1>4, <1>6 DEF Accounts, Switchers, Switching
<1>9. WarmSlots(t)
  BY <1>3, <1>4, <1>6, SMTT(40) DEF WarmSlots, Pushing, ControllerTyped
<1>10. BridgeUse(t)
  BY <1>1, <1>2, <1>4, <1>6 DEF BridgeUse, Promoting
<1> QED
  BY <1>6, <1>7, <1>8, <1>9, <1>10 DEF CallerStep

\* promote, which finds a standby of that name or finds none.
LEMMA SwitchPromoteStep ==
  ASSUME ControllerTyped, NEW t \in Tickers, SwitchPromote(t)
  PROVE  CallerStep(t)
<1> DEFINE q == tick[t]
<1>1. /\ q \in Ticks /\ q.pc \in {"promote", "coldpromote"} /\ q.name \in Names /\ q.at \in Nat
      /\ tick \in [Tickers -> Ticks] /\ standby \in Seq(Names) /\ active \in Names
  BY DEF ControllerTyped, SwitchPromote, Naming, Ticks
<1>2. UNCHANGED <<warm, stats, begun>>
  BY DEF SwitchPromote
<1>3. \E r \in Ticks : /\ tick' = [tick EXCEPT ![t] = r] /\ Reachable(r)
                       /\ r.pc \in {"replay", "coldreplay", "cold", "coldtry"}
                       /\ active' \in Names /\ standby' \in Seq(Names)
                       /\ Promote(q.name) \/ (~ CanPromote(q.name) /\ standby' = standby)
  <2>1. CASE /\ Promote(q.name)
             /\ tick' = [tick EXCEPT ![t].pc = IF @ = "promote" THEN "replay" ELSE "coldreplay"]
    <3> DEFINE to == IF q.pc = "promote" THEN "replay" ELSE "coldreplay"
               r == [q EXCEPT !.pc = to]
               pos == PositionOf(q.name)
    <3>1. tick' = [tick EXCEPT ![t] = r] /\ r \in Ticks /\ r.pc \in {"replay", "coldreplay"}
      BY <1>1, <2>1 DEF Ticks, Places
    <3>2. Reachable(r)
      BY <3>1 DEF Reachable, Naming
    <3>3. pos \in 1..Len(standby)
      BY <1>1, <2>1, PositionFound DEF Promote
    <3>4. standby' = Without(standby, pos) /\ active' = q.name
      BY <2>1 DEF Promote
    <3> HIDE DEF pos, r
    <3>5. standby' \in Seq(Names)
      BY <1>1, <3>3, <3>4, WithoutElements
    <3> QED
      BY <1>1, <2>1, <3>1, <3>2, <3>4, <3>5
  <2>2. CASE /\ ~ CanPromote(q.name)
             /\ tick' = [tick EXCEPT ![t].pc = IF @ = "promote" THEN "cold" ELSE "coldtry",
                                     ![t].at = @ + 1]
             /\ UNCHANGED bridgeVars
    <3> DEFINE to == IF q.pc = "promote" THEN "cold" ELSE "coldtry"
               r == [q EXCEPT !.pc = to, !.at = q.at + 1]
    <3>1. tick' = [tick EXCEPT ![t] = r]
      BY <1>1, <2>2 DEF Ticks
    <3>2. q.at + 1 \in Nat /\ q.at + 1 >= 1
      BY <1>1, SMTT(40)
    <3>3. \A n \in Nat : LET s == [q EXCEPT !.pc = to, !.at = n]
                         IN  s \in Ticks /\ s.pc = to /\ s.at = n
      BY <1>1 DEF Ticks, Places
    <3>4. r \in Ticks /\ r.pc \in {"cold", "coldtry"} /\ r.at >= 1
      BY <3>2, <3>3
    <3>5. Reachable(r)
      BY <3>4 DEF Reachable, Naming
    <3>6. active' \in Names /\ standby' \in Seq(Names) /\ standby' = standby
      BY <1>1, <2>2 DEF bridgeVars
    <3> HIDE DEF r
    <3> QED
      BY <2>2, <3>1, <3>4, <3>5, <3>6
  <2> QED
    BY <2>1, <2>2 DEF SwitchPromote
<1>4. PICK r \in Ticks : /\ tick' = [tick EXCEPT ![t] = r] /\ Reachable(r)
                         /\ r.pc \in {"replay", "coldreplay", "cold", "coldtry"}
                         /\ active' \in Names /\ standby' \in Seq(Names)
                         /\ Promote(q.name) \/ (~ CanPromote(q.name) /\ standby' = standby)
  BY <1>3
<1>5. /\ Moves(t) /\ tick'[t] = r /\ tick' \in [Tickers -> Ticks]
      /\ \A u \in Tickers : Reachable(tick'[u])
  BY <1>4, TickUpdated DEF Moves
<1>6. ControllerTyped'
  BY <1>2, <1>4, <1>5 DEF ControllerTyped, Reachable
<1>7. Accounts(t)
  BY <1>1, <1>2, <1>4, <1>5 DEF Accounts, Switchers, Switching
<1>8. WarmSlots(t)
  BY <1>2, <1>4, <1>5, SMTT(40) DEF WarmSlots, Pushing, ControllerTyped
<1>9. BridgeUse(t)
  BY <1>1, <1>4, <1>5 DEF BridgeUse, Promoting
<1> QED
  BY <1>5, <1>6, <1>7, <1>8, <1>9 DEF CallerStep

\* The replay after a switch, which counts it as seamless or as cold.
LEMMA SwitchReplayStep ==
  ASSUME ControllerTyped, NEW t \in Tickers, SwitchReplay(t)
  PROVE  CallerStep(t)
<1> DEFINE q == tick[t]
<1>1. /\ q \in Ticks /\ q.pc \in {"replay", "coldreplay"} /\ stats \in Counters
      /\ tick' = [tick EXCEPT ![t] = Resting]
  BY DEF ControllerTyped, SwitchReplay
<1>2. /\ UNCHANGED <<active, standby, warm, begun>>
      /\ stats' = [stats EXCEPT !.seamless = @ + 1] \/ stats' = [stats EXCEPT !.cold = @ + 1]
  BY DEF SwitchReplay, bridgeVars
<1>3. /\ Moves(t) /\ tick'[t] = Resting /\ tick' \in [Tickers -> Ticks]
      /\ \A u \in Tickers : Reachable(tick'[u])
  BY <1>1, RestingReachable, TickUpdated DEF Moves
<1>4. Resting.pc = "idle"
  BY RestingReachable
<1>5. ControllerTyped'
  <2>1. stats' \in Counters
    BY <1>1, <1>2, SMTT(40) DEF Counters
  <2> QED
    BY <1>2, <1>3, <2>1 DEF ControllerTyped, Reachable
<1>6. Accounts(t)
  BY <1>1, <1>2, <1>3, <1>4 DEF Accounts, Switchers, Switching
<1>7. WarmSlots(t)
  BY <1>2, <1>3, <1>4, SMTT(40) DEF WarmSlots, Pushing, ControllerTyped
<1>8. BridgeUse(t)
  BY <1>1, <1>2, <1>3, <1>4 DEF BridgeUse, Promoting
<1> QED
  BY <1>3, <1>5, <1>6, <1>7, <1>8 DEF CallerStep

\* One turn of switch_cold: a failed switch is counted, a candidate is passed
\* over, or one is established.
LEMMA ColdCandidateStep ==
  ASSUME ControllerTyped, NEW t \in Tickers, NEW established, ColdCandidate(t, established)
  PROVE  CallerStep(t)
<1> DEFINE q == tick[t]
           i == q.at
<1>1. /\ q \in Ticks /\ i \in Nat /\ q.pc = "coldtry" /\ i >= 1 /\ i + 1 \in Nat /\ i + 1 >= 1
      /\ tick \in [Tickers -> Ticks] /\ stats \in Counters
  BY SMTT(40) DEF ControllerTyped, ColdCandidate, At, Ticks
<1>2. UNCHANGED <<active, standby, begun>> /\ UNCHANGED warm
  BY DEF ColdCandidate, bridgeVars
<1>3. warm' \in Seq(Standbys) /\ Len(warm') <= Len(warm)
  BY <1>2, SMTT(40) DEF ControllerTyped
<1>4. CASE tick' = [tick EXCEPT ![t] = Resting] /\ stats' = [stats EXCEPT !.failed = @ + 1]
  <2>1. /\ Moves(t) /\ tick'[t] = Resting /\ tick' \in [Tickers -> Ticks]
        /\ \A u \in Tickers : Reachable(tick'[u])
    BY <1>4, RestingReachable, TickUpdated DEF Moves
  <2>2. Resting.pc = "idle"
    BY RestingReachable
  <2>3. ControllerTyped'
    <3>1. stats' \in Counters
      BY <1>1, <1>4, SMTT(40) DEF Counters
    <3> QED
      BY <1>2, <2>1, <3>1 DEF ControllerTyped, Reachable
  <2>4. Accounts(t)
    BY <1>1, <1>2, <1>4, <2>1, <2>2 DEF Accounts, Switchers, Switching
  <2>5. WarmSlots(t)
    BY <1>3, <2>1, <2>2 DEF WarmSlots, Pushing
  <2>6. BridgeUse(t)
    BY <1>1, <1>2, <2>1, <2>2 DEF BridgeUse, Promoting
  <2> QED
    BY <2>1, <2>3, <2>4, <2>5, <2>6 DEF CallerStep
<1>5. CASE /\ i <= Len(Candidates) /\ stats' = stats
           /\ tick' = [tick EXCEPT ![t] = [q EXCEPT !.at = i + 1]]
  <2> DEFINE r == [q EXCEPT !.at = i + 1]
  <2>1. \A n \in Nat : LET s == [q EXCEPT !.at = n] IN s \in Ticks /\ s.pc = q.pc /\ s.at = n
    BY <1>1 DEF Ticks
  <2>2. r \in Ticks /\ r.pc = "coldtry" /\ r.at >= 1
    BY <1>1, <2>1
  <2>3. Reachable(r)
    BY <2>2 DEF Reachable, Naming
  <2>4. tick' = [tick EXCEPT ![t] = r]
    BY <1>5
  <2> HIDE DEF r
  <2> QED
    BY <1>1, <1>2, <1>3, <1>5, <2>2, <2>3, <2>4, QuietStep
<1>6. CASE /\ i <= Len(Candidates) /\ stats' = stats
           /\ tick' = [tick EXCEPT ![t] = [q EXCEPT !.pc = "coldadd", !.name = Candidates[i]]]
  <2> DEFINE r == [q EXCEPT !.pc = "coldadd", !.name = Candidates[i]]
  <2>1. Len(Candidates) \in Nat
    BY SeamlessAssumption, SMTT(40)
  <2>2. i \in 1..Len(Candidates)
    BY <1>1, <1>6, <2>1, SMTT(40)
  <2>3. Candidates[i] \in Names
    BY <2>2, SeamlessAssumption, SMTT(40) DEF Names
  <2>4. r \in Ticks /\ r.pc = "coldadd" /\ r.name \in Names
    BY <1>1, <2>3 DEF Ticks, Places
  <2>5. Reachable(r)
    BY <2>4 DEF Reachable
  <2>6. tick' = [tick EXCEPT ![t] = r]
    BY <1>6
  <2> HIDE DEF r
  <2> QED
    BY <1>1, <1>2, <1>3, <1>6, <2>4, <2>5, <2>6, QuietStep
<1> QED
  BY <1>1, <1>4, <1>5, <1>6 DEF ColdCandidate

\* A step of nobody who calls act(): a standby ages, another user of the bridge
\* takes the first standby, the buffer is used, or nothing happens.
OtherStep ==
    /\ ControllerTyped' /\ tick' = tick /\ stats' = stats /\ begun' = begun
    /\ Len(warm') = Len(warm)
    /\ standby' = standby \/ (standby # <<>> /\ standby' = Tail(standby))

\* WARM_TTL, failover(), push and ack leave the callers where they are.
LEMMA OtherSteps ==
  ASSUME ControllerTyped, StandbyAges \/ BridgeUser \/ BufferUser \/ UNCHANGED seamlessVars
  PROVE  OtherStep
<1>1. /\ active \in Names /\ standby \in Seq(Names) /\ warm \in Seq(Standbys)
  BY DEF ControllerTyped
<1>2. UNCHANGED <<tick, stats, begun>>
  BY DEF StandbyAges, BridgeUser, BufferUser, seamlessVars
<1>3. warm' \in Seq(Standbys) /\ Len(warm') = Len(warm)
  <2>1. CASE StandbyAges
    <3>1. PICK i \in DOMAIN warm : warm' = [warm EXCEPT ![i].fresh = FALSE]
      BY <2>1 DEF StandbyAges
    <3>2. warm[i] \in Standbys
      BY <1>1, SMTT(40)
    <3>3. [warm[i] EXCEPT !.fresh = FALSE] \in Standbys
      BY <3>2 DEF Standbys
    <3>4. warm' = [warm EXCEPT ![i] = [warm[i] EXCEPT !.fresh = FALSE]]
      BY <3>1
    <3> QED
      BY <1>1, <3>3, <3>4, SMTT(40)
  <2>2. CASE BridgeUser \/ BufferUser \/ UNCHANGED seamlessVars
    BY <1>1, <2>2 DEF BridgeUser, BufferUser, seamlessVars
  <2> QED
    BY <2>1, <2>2
<1>4. /\ active' \in Names /\ standby' \in Seq(Names)
      /\ standby' = standby \/ (standby # <<>> /\ standby' = Tail(standby))
  <2>1. CASE BridgeUser
    BY <1>1, <2>1, SMTT(40) DEF BridgeUser, Failover
  <2>2. CASE StandbyAges \/ BufferUser \/ UNCHANGED seamlessVars
    BY <1>1, <2>2 DEF StandbyAges, BufferUser, seamlessVars, bridgeVars
  <2> QED
    BY <2>1, <2>2
<1>5. ControllerTyped'
  BY <1>2, <1>3, <1>4 DEF ControllerTyped
<1> QED
  BY <1>2, <1>3, <1>4, <1>5 DEF OtherStep

\* Every step is one of a caller or one that leaves the callers where they are.
LEMMA ControllerStep ==
  ASSUME ControllerTyped, [SeamlessNext]_seamlessVars
  PROVE  OtherStep \/ \E t \in Tickers : CallerStep(t)
<1>1. CASE StandbyAges \/ BridgeUser \/ BufferUser \/ UNCHANGED seamlessVars
  BY <1>1, OtherSteps
<1>2. ASSUME NEW t \in Tickers, NEW forecast \in Forecasts, NEW alive \in BOOLEAN,
             Act(t, forecast, alive)
      PROVE  CallerStep(t)
  BY <1>2, ActStep
<1>3. ASSUME NEW t \in Tickers, NEW established \in BOOLEAN,
             WarmCandidate(t, established) \/ ColdCandidate(t, established)
      PROVE  CallerStep(t)
  BY <1>3, WarmCandidateStep, ColdCandidateStep
<1>4. ASSUME NEW t \in Tickers, WarmReadActive(t) \/ WarmReadAlready(t) \/ ColdReadActive(t)
      PROVE  CallerStep(t)
  BY <1>4, ReadSteps
<1>5. ASSUME NEW t \in Tickers,
             WarmPush(t) \/ SwitchTake(t) \/ SwitchAdd(t) \/ SwitchPromote(t) \/ SwitchReplay(t)
      PROVE  CallerStep(t)
  BY <1>5, WarmPushStep, SwitchTakeStep, SwitchAddStep, SwitchPromoteStep, SwitchReplayStep
<1> QED
  BY <1>1, <1>2, <1>3, <1>4, <1>5 DEF SeamlessNext
-----------------------------------------------------------------------------
(* The invariants, one by one.                                              *)

\* Every call of switch_now stays counted once (SwitchStats).
LEMMA AccountsKept ==
  ASSUME ControllerTyped, SwitchesAccounted, NEW t \in Tickers, CallerStep(t)
  PROVE  SwitchesAccounted'
<1> DEFINE A == Switchers
           B == Switchers'
           a == Cardinality(A)
           b == Cardinality(B)
<1>1. A \in SUBSET Tickers /\ B \in SUBSET Tickers /\ A \ {t} = B \ {t}
  BY DEF CallerStep, Moves, Switchers, Switching
<1>2. /\ a \in Nat /\ b \in Nat
      /\ (t \in A <=> t \in B) => b = a
      /\ t \in A /\ t \notin B => b = a - 1
      /\ t \notin A /\ t \in B => b = a + 1
  <2> HIDE DEF A, B
  <2> QED
    BY <1>1, SeamlessAssumption, OneMoves, SMTT(40)
<1>3. /\ stats \in Counters /\ begun \in Nat
      /\ begun = stats.seamless + stats.cold + stats.failed + a
  BY DEF ControllerTyped, SwitchesAccounted, Switchers
<1>4. Accounts(t)
  BY DEF CallerStep
<1> HIDE DEF a, b
<1>5. begun' = stats'.seamless + stats'.cold + stats'.failed + b
  <2> DEFINE x == stats.seamless
             y == stats.cold
             z == stats.failed
  <2>1. x \in Nat /\ y \in Nat /\ z \in Nat
    BY <1>3 DEF Counters
  <2>2. CASE stats' = stats /\ begun' = begun /\ (t \in A <=> t \in B)
    BY <1>2, <1>3, <2>2
  <2>3. CASE stats' = stats /\ begun' = begun + 1 /\ t \notin A /\ t \in B
    BY <1>2, <1>3, <2>1, <2>3, SMTT(40)
  <2>4. CASE begun' = begun /\ t \in A /\ t \notin B /\ stats' = [stats EXCEPT !.seamless = @ + 1]
    <3>1. stats'.seamless = x + 1 /\ stats'.cold = y /\ stats'.failed = z
      BY <1>3, <2>4 DEF Counters
    <3> QED
      BY <1>2, <1>3, <2>1, <2>4, <3>1, SMTT(40)
  <2>5. CASE begun' = begun /\ t \in A /\ t \notin B /\ stats' = [stats EXCEPT !.cold = @ + 1]
    <3>1. stats'.seamless = x /\ stats'.cold = y + 1 /\ stats'.failed = z
      BY <1>3, <2>5 DEF Counters
    <3> QED
      BY <1>2, <1>3, <2>1, <2>5, <3>1, SMTT(40)
  <2>6. CASE begun' = begun /\ t \in A /\ t \notin B /\ stats' = [stats EXCEPT !.failed = @ + 1]
    <3>1. stats'.seamless = x /\ stats'.cold = y /\ stats'.failed = z + 1
      BY <1>3, <2>6 DEF Counters
    <3> QED
      BY <1>2, <1>3, <2>1, <2>6, <3>1, SMTT(40)
  <2> QED
    BY <1>4, <2>2, <2>3, <2>4, <2>5, <2>6 DEF Accounts
<1> QED
  BY <1>5 DEF SwitchesAccounted, Switchers, b

\* Every caller past the bound keeps its place in the warm set reserved.
LEMMA ReservedKept ==
  ASSUME ControllerTyped, WarmReserved, NEW t \in Tickers, CallerStep(t)
  PROVE  WarmReserved'
<1> DEFINE A == Pushing
           B == Pushing'
           a == Cardinality(A)
           b == Cardinality(B)
           n == Cardinality(Tickers)
           w == Len(warm)
           v == Len(warm')
<1>1. A \in SUBSET Tickers /\ B \in SUBSET Tickers /\ A \ {t} = B \ {t}
  BY DEF CallerStep, Moves, Pushing
<1>2. /\ a \in Nat /\ b \in Nat /\ n \in Nat
      /\ (t \in A <=> t \in B) => b = a
      /\ t \in A /\ t \notin B => b = a - 1
      /\ t \notin A /\ t \in B => b = a + 1
      /\ b <= n
  <2> HIDE DEF A, B
  <2> QED
    BY <1>1, SeamlessAssumption, OneMoves, SMTT(40)
<1>3. w + a <= 2 + n - 1 /\ w \in Nat /\ v \in Nat
  BY SMTT(40) DEF WarmReserved, MAX_WARM_STANDBYS, ControllerTyped, CallerStep
<1>4. \/ v <= w /\ t \notin B
      \/ v = w + 1 /\ t \in A /\ t \notin B
      \/ v = w /\ w < 2 /\ t \in B
  BY DEF CallerStep, WarmSlots, MAX_WARM_STANDBYS
<1> HIDE DEF A, B, a, b, n, w, v
<1>5. v + b <= 2 + n - 1
  <2>1. CASE v <= w /\ t \notin B
    BY <1>2, <1>3, <2>1, SMTT(40)
  <2>2. CASE v = w + 1 /\ t \in A /\ t \notin B
    BY <1>2, <1>3, <2>2, SMTT(40)
  <2>3. CASE v = w /\ w < 2 /\ t \in B
    BY <1>2, <1>3, <2>3, SMTT(40)
  <2> QED
    BY <1>4, <2>1, <2>2, <2>3
<1> QED
  BY <1>5 DEF WarmReserved, MAX_WARM_STANDBYS, v, b, n, B

\* An assignment that leaves the caller that moves out survives its step.
LEMMA AssignedKept ==
  ASSUME NEW t \in Tickers, Moves(t), NEW f, Assigned(f),
         \A i \in DOMAIN standby : f[i] # t
  PROVE  \A i \in DOMAIN standby : f[i] \in Promoting' /\ tick'[f[i]].name = standby[i]
<1> SUFFICES ASSUME NEW i \in DOMAIN standby
             PROVE  f[i] \in Promoting' /\ tick'[f[i]].name = standby[i]
  OBVIOUS
<1>1. f[i] \in Promoting /\ f[i] # t /\ tick[f[i]].name = standby[i]
  BY DEF Assigned
<1>2. f[i] \in Tickers \ {t} /\ tick'[f[i]] = tick[f[i]]
  BY <1>1 DEF Promoting, Moves
<1> QED
  BY <1>1, <1>2 DEF Promoting

\* add_standby: the caller is assigned the standby it adds.
LEMMA MatchedAdd ==
  ASSUME ControllerTyped, NEW t \in Tickers, Moves(t), NEW f, Assigned(f),
         standby' = Append(standby, tick[t].name), tick[t].name \in Names,
         t \notin Promoting, t \in Promoting', tick'[t].name = tick[t].name
  PROVE  BridgeMatched'
<1> DEFINE n == Len(standby)
           g == [i \in 1..(n + 1) |-> IF i = n + 1 THEN t ELSE f[i]]
<1>1. standby \in Seq(Names) /\ n \in Nat /\ DOMAIN standby = 1..n
  BY SMTT(40) DEF ControllerTyped
<1>2. /\ DOMAIN standby' = 1..(n + 1) /\ standby'[n + 1] = tick[t].name
      /\ \A i \in 1..n : standby'[i] = standby[i]
  BY <1>1, SMTT(40)
<1>3. /\ \A i \in 1..n : f[i] \in Promoting /\ f[i] # t
      /\ \A i, j \in 1..n : f[i] = f[j] => i = j
  BY <1>1, SMTT(40) DEF Assigned
<1>4. \A i \in 1..n : f[i] \in Promoting' /\ tick'[f[i]].name = standby[i]
  BY <1>1, <1>3, AssignedKept, SMTT(40)
<1> HIDE DEF n
<1>5. \A i \in 1..(n + 1) : i \in 1..n \/ i = n + 1
  BY <1>1, SMTT(40)
<1>6. ~(n + 1 \in 1..n)
  BY <1>1, SMTT(40)
<1>7. /\ \A i \in 1..n : g[i] = f[i]
      /\ g[n + 1] = t
  BY <1>1, SMTT(40)
<1>8. g \in [DOMAIN standby' -> Promoting']
  BY <1>2, <1>4, <1>5, <1>7
<1>9. \A i \in DOMAIN standby' : tick'[g[i]].name = standby'[i]
  BY <1>2, <1>4, <1>5, <1>7
<1>10. \A i, j \in DOMAIN standby' : g[i] = g[j] => i = j
  <2> HIDE DEF g
  <2> QED
    BY <1>2, <1>3, <1>5, <1>7, SMTT(40)
<1> HIDE DEF g
<1> QED
  BY <1>8, <1>9, <1>10 DEF BridgeMatched, Assigned

\* promote: the standby taken may be another caller's of the same name, which
\* is then assigned the one the caller leaves.
LEMMA MatchedPromote ==
  ASSUME ControllerTyped, NEW t \in Tickers, Moves(t), NEW f, Assigned(f),
         Promote(tick[t].name), t \in Promoting, t \notin Promoting'
  PROVE  BridgeMatched'
<1> DEFINE n == Len(standby)
           pos == PositionOf(tick[t].name)
           Old(j) == IF j < pos THEN j ELSE j + 1
           g == [j \in 1..(n - 1) |-> IF f[Old(j)] = t THEN f[pos] ELSE f[Old(j)]]
<1>1. standby \in Seq(Names) /\ n \in Nat /\ DOMAIN standby = 1..n
  BY SMTT(40) DEF ControllerTyped
<1>2. pos \in 1..n /\ standby[pos] = tick[t].name
  BY <1>1, PositionFound DEF Promote
<1>3. standby' = Without(standby, pos)
  BY DEF Promote
<1> HIDE DEF pos
<1>4. /\ standby' \in Seq(Names) /\ Len(standby') = n - 1
      /\ \A j \in 1..(n - 1) : standby'[j] = standby[Old(j)]
  BY <1>1, <1>2, <1>3, WithoutElements
<1>5. DOMAIN standby' = 1..(n - 1)
  BY <1>1, <1>4, SMTT(40)
<1> HIDE DEF n
<1>6. /\ \A j \in 1..(n - 1) : Old(j) \in 1..n /\ Old(j) # pos
      /\ \A j, k \in 1..(n - 1) : Old(j) = Old(k) => j = k
  BY <1>1, <1>2, SMTT(40)
<1>7. /\ \A i \in 1..n : f[i] \in Promoting /\ tick[f[i]].name = standby[i]
      /\ \A i, j \in 1..n : f[i] = f[j] => i = j
  BY <1>1 DEF Assigned
<1>8. ASSUME NEW i \in 1..n, f[i] # t
      PROVE  f[i] \in Promoting' /\ tick'[f[i]].name = standby[i]
  <2>1. f[i] \in Tickers \ {t} /\ tick'[f[i]] = tick[f[i]]
    BY <1>7, <1>8 DEF Promoting, Moves
  <2> QED
    BY <1>7, <2>1 DEF Promoting
<1> HIDE DEF Old
<1>9. ASSUME NEW j \in 1..(n - 1)
      PROVE  g[j] \in Promoting' /\ tick'[g[j]].name = standby'[j]
  <2>1. CASE f[Old(j)] = t
    <3>1. g[j] = f[pos] /\ f[pos] # t
      BY <1>2, <1>6, <1>7, <2>1
    <3>2. standby'[j] = standby[pos]
      BY <1>2, <1>4, <1>6, <1>7, <2>1
    <3> QED
      BY <1>2, <1>8, <3>1, <3>2
  <2>2. CASE f[Old(j)] # t
    BY <1>4, <1>6, <1>8, <2>2
  <2> QED
    BY <2>1, <2>2
<1>10. ASSUME NEW j \in 1..(n - 1), NEW k \in 1..(n - 1), g[j] = g[k] PROVE j = k
  <2>1. /\ g[j] = IF f[Old(j)] = t THEN f[pos] ELSE f[Old(j)]
        /\ g[k] = IF f[Old(k)] = t THEN f[pos] ELSE f[Old(k)]
    OBVIOUS
  <2>2. f[Old(j)] = f[Old(k)]
    BY <1>2, <1>6, <1>7, <1>10, <2>1
  <2> QED
    BY <1>6, <1>7, <2>2
<1>11. g \in [DOMAIN standby' -> Promoting']
  BY <1>5, <1>9
<1> HIDE DEF g
<1> QED
  BY <1>5, <1>9, <1>10, <1>11 DEF BridgeMatched, Assigned

\* A step of a caller leaves every standby on the bridge assigned.
LEMMA MatchedKept ==
  ASSUME ControllerTyped, BridgeMatched, NEW t \in Tickers, CallerStep(t)
  PROVE  BridgeMatched'
<1>1. PICK f \in [DOMAIN standby -> Promoting] : Assigned(f)
  BY DEF BridgeMatched
<1>2. Moves(t) /\ BridgeUse(t)
  BY DEF CallerStep
<1>3. ASSUME standby' = standby, \A i \in DOMAIN standby : f[i] # t
      PROVE  BridgeMatched'
  <2>1. \A i \in DOMAIN standby : f[i] \in Promoting' /\ tick'[f[i]].name = standby[i]
    BY <1>1, <1>2, <1>3, AssignedKept, SMTT(40)
  <2>2. f \in [DOMAIN standby' -> Promoting']
    BY <1>1, <1>3, <2>1
  <2> QED
    BY <1>1, <1>3, <2>1, <2>2, SMTT(40) DEF BridgeMatched, Assigned
<1>4. CASE standby' = standby /\ t \notin Promoting
  BY <1>1, <1>3, <1>4
<1>5. CASE standby' = standby /\ ~ CanPromote(tick[t].name)
  BY <1>1, <1>3, <1>5 DEF Assigned, CanPromote, Range
<1>6. CASE /\ standby' = Append(standby, tick[t].name)
           /\ t \notin Promoting /\ t \in Promoting' /\ tick'[t].name = tick[t].name
  <2>1. tick[t].name \in Names
    <3>1. tick'[t].pc \in {"promote", "coldpromote"}
      BY <1>6 DEF Promoting
    <3>2. tick'[t].name \in Names
      BY <3>1 DEF CallerStep, ControllerTyped, Naming
    <3> QED
      BY <1>6, <3>2
  <2> QED
    BY <1>1, <1>2, <1>6, <2>1, MatchedAdd
<1>7. CASE Promote(tick[t].name) /\ t \in Promoting /\ t \notin Promoting'
  BY <1>1, <1>2, <1>7, MatchedPromote
<1> QED
  BY <1>2, <1>4, <1>5, <1>6, <1>7 DEF BridgeUse

\* Another user of the bridge takes the first standby and leaves the caller it
\* was assigned without one.
LEMMA MatchedOther ==
  ASSUME ControllerTyped, BridgeMatched, OtherStep
  PROVE  BridgeMatched'
<1>1. PICK f \in [DOMAIN standby -> Promoting] : Assigned(f)
  BY DEF BridgeMatched
<1>2. Promoting' = Promoting /\ tick' = tick
  BY DEF OtherStep, Promoting
<1>3. CASE standby' = standby
  BY <1>1, <1>2, <1>3, SMTT(40) DEF BridgeMatched, Assigned
<1>4. CASE standby # <<>> /\ standby' = Tail(standby)
  <2> DEFINE n == Len(standby)
             g == [j \in 1..(n - 1) |-> f[j + 1]]
  <2>1. standby \in Seq(Names) /\ n \in Nat /\ DOMAIN standby = 1..n
    BY SMTT(40) DEF ControllerTyped
  <2>2. /\ standby' \in Seq(Names) /\ Len(standby') = n - 1
        /\ \A j \in 1..(n - 1) : standby'[j] = standby[j + 1]
    BY <1>4, <2>1, SMTT(40)
  <2>3. DOMAIN standby' = 1..(n - 1)
    BY <2>1, <2>2, SMTT(40)
  <2> HIDE DEF n
  <2>4. \A j \in 1..(n - 1) : j + 1 \in 1..n
    BY <2>1, SMTT(40)
  <2>5. /\ \A i \in 1..n : f[i] \in Promoting /\ tick[f[i]].name = standby[i]
        /\ \A i, j \in 1..n : f[i] = f[j] => i = j
    BY <1>1, <2>1 DEF Assigned
  <2>6. g \in [DOMAIN standby' -> Promoting']
    BY <1>2, <2>3, <2>4, <2>5
  <2>7. \A j \in 1..(n - 1) : tick'[g[j]].name = standby'[j]
    BY <1>2, <2>2, <2>4, <2>5
  <2>8. \A j, k \in 1..(n - 1) : g[j] = g[k] => j = k
    BY <2>1, <2>4, <2>5, SMTT(40)
  <2> HIDE DEF g
  <2> QED
    BY <2>3, <2>6, <2>7, <2>8 DEF BridgeMatched, Assigned
<1> QED
  BY <1>3, <1>4 DEF OtherStep

\* As many standbys are on the bridge as calls about to promote, or fewer.
LEMMA MatchedDrains ==
  ASSUME ControllerTyped, BridgeMatched
  PROVE  BridgeDrained
<1>1. PICK f \in [DOMAIN standby -> Promoting] : Assigned(f)
  BY DEF BridgeMatched
<1>2. Len(standby) \in Nat /\ DOMAIN standby = 1..Len(standby)
  BY SMTT(40) DEF ControllerTyped
<1>3. IsFiniteSet(Promoting)
  <2>1. Promoting \in SUBSET Tickers
    BY DEF Promoting
  <2> QED
    BY <2>1, SeamlessAssumption, FS_Subset
<1>4. f \in Injection(1..Len(standby), Promoting)
  BY <1>1, <1>2 DEF Injection, IsInjective, Assigned
<1>5. Cardinality(1..Len(standby)) <= Cardinality(Promoting)
  BY <1>3, <1>4, FS_Injection
<1>6. Cardinality(1..Len(standby)) = Len(standby)
  <2> DEFINE n == Len(standby)
  <2>1. n \in Nat /\ n \in Int /\ 1 \in Int
    BY <1>2, SMTT(40)
  <2> HIDE DEF n
  <2>2. Cardinality(1..n) = IF 1 > n THEN 0 ELSE n - 1 + 1
    BY <2>1, FS_Interval
  <2>3. Cardinality(1..n) = n
    BY <2>1, <2>2, SMTT(40)
  <2> QED
    BY <2>3 DEF n
<1> QED
  BY <1>5, <1>6 DEF BridgeDrained, Promoting
-----------------------------------------------------------------------------
\* SeamlessController::new: nothing warm, nobody switching, an empty buffer.
LEMMA SeamlessStarts ==
  ASSUME SeamlessInit
  PROVE  SeamlessInv
<1>1. /\ active = Primary /\ standby = <<>> /\ frames = <<>> /\ nextSeq = 0 /\ warm = <<>>
      /\ stats = [seamless |-> 0, cold |-> 0, failed |-> 0] /\ begun = 0
      /\ tick = [t \in Tickers |-> Resting]
  BY DEF SeamlessInit, BridgeInit, RingInit
<1>2. Resting \in Ticks /\ Resting.pc = "idle"
  BY RestingReachable
<1>3. \A t \in Tickers : tick[t].pc = "idle"
  BY <1>1, <1>2
<1>4. ControllerTyped
  <2>1. stats \in Counters /\ begun \in Nat
    BY <1>1 DEF Counters
  <2>2. active \in Names /\ standby \in Seq(Names) /\ warm \in Seq(Standbys)
    BY <1>1, SMTT(40) DEF Names
  <2>3. tick \in [Tickers -> Ticks]
    BY <1>1, <1>2
  <2> QED
    BY <1>3, <2>1, <2>2, <2>3 DEF ControllerTyped, Naming
<1>5. RingTyped /\ ReplayWindow
  BY <1>1, SMTT(40) DEF RingTyped, ReplayWindow
<1>6. {t \in Tickers : Switching(t)} = {} /\ Pushing = {}
  BY <1>3 DEF Switching, Pushing
<1>7. Cardinality({}) = 0 /\ Cardinality(Tickers) \in Nat
  BY FS_EmptySet, FS_CardinalityType, SeamlessAssumption
<1>8. SwitchesAccounted
  <2>1. stats.seamless = 0 /\ stats.cold = 0 /\ stats.failed = 0 /\ begun = 0
    BY <1>1
  <2>2. Cardinality({t \in Tickers : Switching(t)}) = 0
    BY <1>6, <1>7
  <2> QED
    BY <2>1, <2>2, SMTT(40) DEF SwitchesAccounted
<1>9. WarmReserved
  BY <1>1, <1>6, <1>7, SMTT(40) DEF WarmReserved, MAX_WARM_STANDBYS
<1>10. BridgeMatched
  <2>1. <<>> \in [DOMAIN standby -> Promoting] /\ Assigned(<<>>)
    BY <1>1, SMTT(40) DEF Assigned
  <2> QED
    BY <2>1 DEF BridgeMatched
<1> QED
  BY <1>4, <1>5, <1>8, <1>9, <1>10 DEF SeamlessInv

\* Every step of act(), of the bridge's other users and of the buffer keeps the
\* invariant.
LEMMA SeamlessGoesOn ==
  ASSUME SeamlessInv, [SeamlessNext]_seamlessVars
  PROVE  SeamlessInv'
<1>1. /\ ControllerTyped /\ RingTyped /\ SwitchesAccounted /\ WarmReserved
      /\ BridgeMatched /\ ReplayWindow
  BY DEF SeamlessInv
<1>2. RingTyped' /\ ReplayWindow'
  BY <1>1, RingStep
<1>3. CASE OtherStep
  <2>1. ControllerTyped'
    BY <1>3 DEF OtherStep
  <2>2. SwitchesAccounted' /\ WarmReserved'
    BY <1>1, <1>3 DEF OtherStep, SwitchesAccounted, Switching, WarmReserved, Pushing
  <2>3. BridgeMatched'
    BY <1>1, <1>3, MatchedOther
  <2> QED
    BY <1>2, <2>1, <2>2, <2>3 DEF SeamlessInv
<1>4. ASSUME NEW t \in Tickers, CallerStep(t) PROVE SeamlessInv'
  <2>1. ControllerTyped'
    BY <1>4 DEF CallerStep
  <2>2. SwitchesAccounted' /\ WarmReserved' /\ BridgeMatched'
    BY <1>1, <1>4, AccountsKept, ReservedKept, MatchedKept
  <2> QED
    BY <1>2, <2>1, <2>2 DEF SeamlessInv
<1> QED
  BY <1>1, <1>3, <1>4, ControllerStep

\* However many tasks call act() at once and whatever the other users of the
\* bridge and the buffer do: every call of switch_now is counted once, no
\* standby stays on the bridge without a call about to promote it, the warm set
\* passes its bound by less than the number of callers, and the frames held for
\* a replay are the newest ones without a gap (seamless.rs, failover.rs,
\* buffer_replay.rs).
THEOREM SwitchesStaySafe == SeamlessSpec => []SwitchesSafe
<1>1. SeamlessInit => SeamlessInv
  BY SeamlessStarts
<1>2. SeamlessInv /\ [SeamlessNext]_seamlessVars => SeamlessInv'
  BY SeamlessGoesOn
<1>3. SeamlessInv => SwitchesSafe
  <2> SUFFICES ASSUME SeamlessInv PROVE SwitchesSafe
    OBVIOUS
  <2>1. ControllerTyped /\ SwitchesAccounted /\ WarmReserved /\ BridgeMatched /\ ReplayWindow
    BY DEF SeamlessInv
  <2>2. BridgeDrained
    BY <2>1, MatchedDrains
  <2>3. WarmOvershootBounded
    <3>1. Pushing \in SUBSET Tickers
      BY DEF Pushing
    <3>2. Cardinality(Pushing) \in Nat /\ Cardinality(Tickers) \in Nat
      BY <3>1, SeamlessAssumption, FS_Subset, FS_CardinalityType
    <3>3. Len(warm) \in Nat
      BY <2>1, SMTT(40) DEF ControllerTyped
    <3> QED
      BY <2>1, <3>2, <3>3, SMTT(40) DEF WarmReserved, WarmOvershootBounded, MAX_WARM_STANDBYS
  <2> QED
    BY <2>1, <2>2, <2>3 DEF SwitchesSafe
<1> QED
  BY <1>1, <1>2, <1>3, PTL DEF SeamlessSpec
================================================================================
