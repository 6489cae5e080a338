--------------------------- MODULE TelemetryProofs ---------------------------
(***************************************************************************)
(* Proof that the telemetry collector and the streams built on it lose no  *)
(* event unaccounted and hand the backlog out once, whatever the number of *)
(* recorders and streams, the capacities and the size of a chunk.          *)
(***************************************************************************)
EXTENDS TelemetryStream, SequenceProofs

USE ZenonT(40)

Kinds == {"metric", "alert"}
StreamStates == [pc : {"detached", "subscribed", "open"}, kinds : SUBSET Kinds, mark : Nat,
                 channel : Seq(Nat), replay : Seq(Nat), backlog : Seq(Nat), live : Seq(Nat)]
LostSets == [refused : SUBSET Nat, lagged : SUBSET Nat, filtered : SUBSET Nat, dropped : SUBSET Nat]

\* What a stream q got from the spool, and what it got from the channel.
BackOf(q) == Elements(q.backlog) \cup Elements(q.replay)
LiveOf(q) == Elements(q.live) \cup Elements(q.channel)

Increasing(u) == \A i, j \in DOMAIN u : i < j => u[i] < u[j]

\* The state of one stream when the next event is n: a stream that has not
\* subscribed is empty, one that has not drained has only its channel, and
\* whatever is in the channel is newer than what has been yielded live.
StreamSound(q, n) ==
  /\ q \in StreamStates
  /\ q.mark = 0 => q = Detached
  /\ q.pc = "subscribed" => q.replay = <<>> /\ q.backlog = <<>> /\ q.live = <<>>
  /\ q.live # <<>> => q.replay = <<>>
  /\ Increasing(q.live) /\ Increasing(q.channel)
  /\ \A x \in Elements(q.live), y \in Elements(q.channel) : x < y
  /\ \A x \in BackOf(q) \cup LiveOf(q) : x < n

StreamsSound ==
  /\ nextEvent \in Nat \ {0}
  /\ holding \in [Recorders -> Nat] /\ spool \in Seq(Nat) /\ lostEvents \in LostSets
  /\ \A r \in Recorders : holding[r] < nextEvent
  /\ \A e \in Elements(spool) : e < nextEvent
  /\ stream \in [Streams -> StreamStates]
  /\ \A s \in Streams : StreamSound(stream[s], nextEvent)

InHand == {holding[r] : r \in Recorders} \ {0}
Waiting == InHand \cup Elements(spool)

\* An event is in one place only: with one recorder, in the spool, with the
\* stream that drained it, or live.
Apart ==
  /\ \A r, q \in Recorders : holding[r] = holding[q] /\ holding[r] # 0 => r = q
  /\ InHand \cap Elements(spool) = {}
  /\ \A s \in Streams : Waiting \cap BackOf(stream[s]) = {} /\ Waiting \cap LiveOf(stream[s]) = {}
  /\ \A s, t \in Streams : BackOf(stream[s]) \cap LiveOf(stream[t]) = {}
  /\ \A s, t \in Streams : s # t => BackOf(stream[s]) \cap BackOf(stream[t]) = {}

LostAll == lostEvents.refused \cup lostEvents.lagged \cup lostEvents.filtered \cup lostEvents.dropped

\* EventsAccounted, one event at a time.
Accounted(e) ==
  \/ \E r \in Recorders : holding[r] = e
  \/ e \in Elements(spool) \/ e \in LostAll
  \/ \E s \in Streams : e \in BackOf(stream[s]) \cup LiveOf(stream[s])

AllAccounted == \A e \in 1..(nextEvent - 1) : Accounted(e)

StreamInv == StreamsSound /\ Apart /\ AllAccounted
------------------------------------------------------------------------------
(* Sequences of increasing numbers.                                          *)

\* The elements of a sequence, by either name.
LEMMA SameElements == \A u : Range(u) = Elements(u)
BY DEF Range, Elements

\* The empty sequence.
LEMMA NothingIn ==
  /\ Elements(<<>>) = {} /\ Increasing(<<>>) /\ <<>> \in Seq(Nat)
BY SMTT(40) DEF Elements, Increasing

\* A number above all the others goes at the end.
LEMMA IncreasingAppend ==
  ASSUME NEW u \in Seq(Nat), NEW x \in Nat, Increasing(u), \A y \in Elements(u) : y < x
  PROVE  Increasing(Append(u, x))
<1> DEFINE v == Append(u, x)
           n == Len(u)
<1>1. n \in Nat /\ DOMAIN u = 1..n /\ DOMAIN v = 1..(n + 1) /\ v[n + 1] = x
  BY SMTT(40)
<1>2. \A i \in 1..n : v[i] = u[i] /\ u[i] \in Elements(u)
  BY <1>1, SMTT(40) DEF Elements
<1> HIDE DEF v, n
<1>3. ASSUME NEW i \in 1..(n + 1), NEW j \in 1..(n + 1), i < j PROVE v[i] < v[j]
  <2>1. i \in 1..n /\ (j \in 1..n \/ j = n + 1)
    BY <1>1, <1>3, SMTT(40)
  <2>2. CASE j \in 1..n
    BY <1>1, <1>2, <1>3, <2>1, <2>2 DEF Increasing
  <2>3. CASE j = n + 1
    BY <1>1, <1>2, <2>1, <2>3
  <2> QED
    BY <2>1, <2>2, <2>3
<1>4. Increasing(v)
  BY <1>1, <1>3 DEF Increasing
<1> QED
  BY <1>4 DEF v

\* The tail of an increasing sequence increases and lies above the head.
LEMMA IncreasingTail ==
  ASSUME NEW u \in Seq(Nat), u # <<>>, Increasing(u)
  PROVE  Increasing(Tail(u)) /\ \A y \in Elements(Tail(u)) : Head(u) < y
<1> DEFINE n == Len(u)
           v == Tail(u)
<1>1. /\ n \in Nat /\ n >= 1 /\ DOMAIN u = 1..n
      /\ v \in Seq(Nat) /\ Len(v) = n - 1 /\ Head(u) = u[1]
      /\ \A i \in 1..(n - 1) : v[i] = u[i + 1]
  BY ElementsTail, SMTT(40)
<1>2. DOMAIN v = 1..(n - 1)
  BY <1>1, SMTT(40)
<1> HIDE DEF n, v
<1>3. \A i, j \in 1..n : i < j => u[i] < u[j]
  BY <1>1 DEF Increasing
<1>4. ASSUME NEW i \in 1..(n - 1)
      PROVE  i + 1 \in 1..n /\ v[i] = u[i + 1] /\ u[1] < u[i + 1]
  <2>1. i + 1 \in 1..n /\ 1 \in 1..n /\ 1 < i + 1
    BY <1>1, SMTT(40)
  <2> QED
    BY <1>1, <1>3, <2>1
<1>5. Increasing(v)
  <2>1. \A i, j \in 1..(n - 1) : i < j => i + 1 < j + 1
    BY <1>1, SMTT(40)
  <2> QED
    BY <1>2, <1>3, <1>4, <2>1 DEF Increasing
<1>6. \A y \in Elements(v) : u[1] < y
  BY <1>2, <1>4 DEF Elements
<1> QED
  BY <1>1, <1>5, <1>6 DEF v
------------------------------------------------------------------------------
(* One stream.                                                               *)

\* A stream stays sound when another event is recorded that it does not get.
LEMMA SoundLater ==
  ASSUME NEW n \in Nat, NEW q, StreamSound(q, n)
  PROVE  StreamSound(q, n + 1)
<1>1. \A x \in BackOf(q) \cup LiveOf(q) : x \in Nat
  <2>1. \A u \in Seq(Nat) : \A x \in Elements(u) : x \in Nat
    BY SMTT(40) DEF Elements
  <2>2. q.backlog \in Seq(Nat) /\ q.replay \in Seq(Nat) /\ q.live \in Seq(Nat) /\ q.channel \in Seq(Nat)
    BY DEF StreamSound, StreamStates
  <2> QED
    BY <2>1, <2>2 DEF BackOf, LiveOf
<1>2. \A x \in BackOf(q) \cup LiveOf(q) : x < n + 1
  BY <1>1, SMTT(40) DEF StreamSound
<1> QED
  BY <1>2 DEF StreamSound

\* An attached stream has subscribed, so its mark is set.
LEMMA AttachedMarked ==
  ASSUME NEW n, NEW q, StreamSound(q, n), q.pc # "detached"
  PROVE  q.mark # 0
BY SMTT(40) DEF StreamSound, Detached

\* The send: the event goes to the channel, a full one forgets its oldest.
LEMMA DeliverSound ==
  ASSUME NEW n \in Nat, NEW q, StreamSound(q, n), q.pc # "detached",
         NEW p, p = [q EXCEPT !.channel = Delivered(@, n)]
  PROVE  /\ StreamSound(p, n + 1) /\ BackOf(p) = BackOf(q)
         /\ LiveOf(p) \subseteq LiveOf(q) \cup {n} /\ n \in LiveOf(p)
         /\ Len(q.channel) = ChannelCapacity => LiveOf(q) \subseteq LiveOf(p) \cup {Head(q.channel)}
         /\ Len(q.channel) # ChannelCapacity => LiveOf(q) \subseteq LiveOf(p)
<1> DEFINE c == q.channel
           full == Len(c) = ChannelCapacity
           room == IF full THEN Tail(c) ELSE c
           d == Append(room, n)
<1>1. /\ q \in StreamStates /\ c \in Seq(Nat) /\ q.live \in Seq(Nat) /\ q.mark # 0
      /\ Increasing(q.live) /\ Increasing(c)
      /\ \A x \in Elements(q.live), y \in Elements(c) : x < y
      /\ \A x \in BackOf(q) \cup LiveOf(q) : x < n
  BY AttachedMarked DEF StreamSound, StreamStates
<1>2. full => c # <<>>
  BY <1>1, StreamAssumption
<1>3. /\ room \in Seq(Nat) /\ Increasing(room) /\ Elements(room) \subseteq Elements(c)
      /\ full => Elements(c) = {Head(c)} \cup Elements(room)
      /\ ~ full => Elements(c) = Elements(room)
  <2>1. CASE full
    BY <1>1, <1>2, <2>1, ElementsTail, IncreasingTail, SMTT(40)
  <2>2. CASE ~ full
    BY <1>1, <2>2
  <2> QED
    BY <2>1, <2>2
<1>4. p = [q EXCEPT !.channel = d]
  BY DEF Delivered
<1> HIDE DEF room
<1>5. d \in Seq(Nat) /\ Elements(d) = Elements(room) \cup {n}
  BY <1>3, ElementsAppend, SMTT(40)
<1>6. \A x \in Elements(q.live) \cup Elements(c) : x < n
  BY <1>1 DEF LiveOf
<1>7. Increasing(d)
  BY <1>3, <1>6, IncreasingAppend
<1> HIDE DEF d
<1>8. /\ p \in StreamStates /\ p.channel = d /\ p.live = q.live /\ p.replay = q.replay
      /\ p.backlog = q.backlog /\ p.mark = q.mark /\ p.pc = q.pc
  BY <1>1, <1>4, <1>5 DEF StreamStates
<1>9. BackOf(p) = BackOf(q) /\ LiveOf(p) = Elements(q.live) \cup Elements(room) \cup {n}
  BY <1>5, <1>8 DEF BackOf, LiveOf
<1>10. StreamSound(q, n + 1)
  BY SoundLater
<1>11. \A x \in BackOf(p) \cup LiveOf(p) : x < n + 1
  <2>1. \A x \in BackOf(q) \cup LiveOf(q) : x < n + 1
    BY <1>10 DEF StreamSound
  <2>2. n < n + 1
    BY SMTT(40)
  <2> QED
    BY <1>3, <1>9, <2>1, <2>2 DEF LiveOf
<1>12. \A x \in Elements(p.live), y \in Elements(p.channel) : x < y
  BY <1>1, <1>3, <1>5, <1>6, <1>8
<1>13. StreamSound(p, n + 1)
  BY <1>1, <1>7, <1>8, <1>11, <1>12 DEF StreamSound
<1> QED
  BY <1>3, <1>9, <1>13 DEF LiveOf

\* stream_telemetry subscribes.
LEMMA SubscribeSound ==
  ASSUME NEW n \in Nat \ {0}, NEW k \in SUBSET Kinds,
         NEW p, p = [Detached EXCEPT !.pc = "subscribed", !.kinds = k, !.mark = n]
  PROVE  StreamSound(p, n) /\ BackOf(p) = {} /\ LiveOf(p) = {}
<1>1. /\ p.pc = "subscribed" /\ p.mark = n /\ p.channel = <<>>
      /\ p.replay = <<>> /\ p.backlog = <<>> /\ p.live = <<>>
  BY DEF Detached
<1>2. p \in StreamStates
  BY NothingIn DEF Detached, StreamStates
<1>3. BackOf(p) = {} /\ LiveOf(p) = {}
  BY <1>1, NothingIn DEF BackOf, LiveOf
<1> QED
  BY <1>1, <1>2, <1>3, NothingIn DEF StreamSound

\* The drain gives the stream, which has only its channel, its replay.
LEMMA DrainSound ==
  ASSUME NEW n \in Nat, NEW q, StreamSound(q, n), q.pc = "subscribed",
         NEW v \in Seq(Nat), \A e \in Elements(v) : e < n,
         NEW p, p = [q EXCEPT !.pc = "open", !.replay = v]
  PROVE  /\ StreamSound(p, n) /\ BackOf(p) = Elements(v) /\ LiveOf(p) = LiveOf(q)
         /\ BackOf(q) = {}
<1>1. /\ q \in StreamStates /\ q.replay = <<>> /\ q.backlog = <<>> /\ q.live = <<>> /\ q.mark # 0
  BY AttachedMarked DEF StreamSound
<1>2. /\ p \in StreamStates /\ p.pc = "open" /\ p.replay = v /\ p.live = q.live
      /\ p.backlog = q.backlog /\ p.mark = q.mark /\ p.channel = q.channel
  BY <1>1 DEF StreamStates
<1>3. BackOf(p) = Elements(v) /\ LiveOf(p) = LiveOf(q) /\ BackOf(q) = {}
  BY <1>1, <1>2, NothingIn DEF BackOf, LiveOf
<1> QED
  BY <1>1, <1>2, <1>3 DEF StreamSound

\* A chunk goes from the replay to the output.
LEMMA ReplaySound ==
  ASSUME NEW n \in Nat, NEW q, StreamSound(q, n), q.pc = "open", q.replay # <<>>,
         NEW k \in 0..Len(q.replay),
         NEW p, p = [q EXCEPT !.backlog = @ \o SubSeq(q.replay, 1, k),
                              !.replay = SubSeq(q.replay, k + 1, Len(q.replay))]
  PROVE  StreamSound(p, n) /\ BackOf(p) = BackOf(q) /\ LiveOf(p) = LiveOf(q)
<1> DEFINE u == SubSeq(q.replay, 1, k)
           v == SubSeq(q.replay, k + 1, Len(q.replay))
           w == q.backlog \o u
<1>1. /\ q \in StreamStates /\ q.replay \in Seq(Nat) /\ q.backlog \in Seq(Nat)
      /\ q.live = <<>> /\ q.mark # 0
  BY AttachedMarked DEF StreamSound, StreamStates
<1>2. /\ u \in Seq(Nat) /\ v \in Seq(Nat)
      /\ Elements(q.replay) = Elements(u) \cup Elements(v)
  BY <1>1, ElementsCut
<1>3. p = [q EXCEPT !.backlog = w, !.replay = v]
  BY <1>1 DEF StreamStates
<1> HIDE DEF u, v
<1>4. w \in Seq(Nat) /\ Elements(w) = Elements(q.backlog) \cup Elements(u)
  BY <1>1, <1>2, ElementsConcat, ConcatProperties, SMTT(40)
<1> HIDE DEF w
<1>5. /\ p \in StreamStates /\ p.pc = q.pc /\ p.replay = v /\ p.live = q.live
      /\ p.backlog = w /\ p.mark = q.mark /\ p.channel = q.channel
  BY <1>1, <1>2, <1>3, <1>4 DEF StreamStates
<1>6. BackOf(p) = BackOf(q) /\ LiveOf(p) = LiveOf(q)
  BY <1>2, <1>4, <1>5 DEF BackOf, LiveOf
<1> QED
  BY <1>1, <1>5, <1>6 DEF StreamSound

\* From q to p the oldest event leaves the channel, and l has been yielded live.
TakesLive(q, p, l) ==
  /\ q.pc = "open" /\ q.replay = <<>> /\ q.channel # <<>>
  /\ l = q.live \/ l = Append(q.live, Head(q.channel))
  /\ p = [q EXCEPT !.channel = Tail(q.channel), !.live = l]

\* A live event is taken from the channel, and yielded when it was asked for.
LEMMA LiveSound ==
  ASSUME NEW n \in Nat, NEW q, NEW p, NEW l, StreamSound(q, n), TakesLive(q, p, l)
  PROVE  /\ StreamSound(p, n) /\ BackOf(p) = BackOf(q) /\ LiveOf(p) \subseteq LiveOf(q)
         /\ LiveOf(q) \subseteq LiveOf(p) \cup {Head(q.channel)}
         /\ l = Append(q.live, Head(q.channel)) => LiveOf(q) = LiveOf(p)
<1> USE DEF TakesLive
<1> DEFINE c == q.channel
           h == Head(c)
           d == Tail(c)
           wanted == l = Append(q.live, h)
<1>1. /\ q \in StreamStates /\ c \in Seq(Nat) /\ q.live \in Seq(Nat) /\ q.mark # 0
      /\ Increasing(q.live) /\ Increasing(c)
      /\ \A x \in Elements(q.live), y \in Elements(c) : x < y
      /\ \A x \in BackOf(q) \cup LiveOf(q) : x < n
  BY AttachedMarked DEF StreamSound, StreamStates
<1>2. /\ h \in Nat /\ d \in Seq(Nat) /\ Elements(c) = {h} \cup Elements(d)
      /\ Increasing(d) /\ \A y \in Elements(d) : h < y
  BY <1>1, ElementsTail, IncreasingTail
<1>3. p = [q EXCEPT !.channel = d, !.live = l]
  BY <1>1 DEF StreamStates
<1>l. l = IF wanted THEN Append(q.live, h) ELSE q.live
  OBVIOUS
<1> HIDE DEF d, h, wanted
<1>4. /\ l \in Seq(Nat) /\ Increasing(l)
      /\ Elements(l) = IF wanted THEN Elements(q.live) \cup {h} ELSE Elements(q.live)
  <2>1. CASE wanted
    <3>1. \A x \in Elements(q.live) : x < h
      BY <1>1, <1>2
    <3>2. Append(q.live, h) \in Seq(Nat)
      BY <1>1, <1>2, SMTT(40)
    <3>a. q.live \in Seq(Nat) /\ h \in Nat
      BY <1>1, <1>2
    <3>3. Elements(Append(q.live, h)) = Elements(q.live) \cup {h}
      BY <3>a, ElementsAppend, SMTT(40)
    <3>4. Increasing(Append(q.live, h))
      BY <1>1, <1>2, <3>1, IncreasingAppend
    <3> QED
      BY <1>l, <2>1, <3>2, <3>3, <3>4
  <2>2. CASE ~ wanted
    BY <1>1, <1>l, <2>2
  <2> QED
    BY <2>1, <2>2
<1>5. /\ p \in StreamStates /\ p.pc = q.pc /\ p.replay = q.replay /\ p.live = l
      /\ p.backlog = q.backlog /\ p.mark = q.mark /\ p.channel = d
  BY <1>1, <1>2, <1>3, <1>4 DEF StreamStates
<1>6. /\ BackOf(p) = BackOf(q) /\ LiveOf(p) = Elements(l) \cup Elements(d)
      /\ LiveOf(q) = Elements(q.live) \cup {h} \cup Elements(d)
  BY <1>2, <1>5 DEF BackOf, LiveOf
<1>7. /\ LiveOf(p) \subseteq LiveOf(q) /\ LiveOf(q) \subseteq LiveOf(p) \cup {h}
      /\ wanted => LiveOf(q) = LiveOf(p)
  BY <1>4, <1>6
<1>8. \A x \in Elements(p.live), y \in Elements(p.channel) : x < y
  <2>1. \A x \in Elements(l) : x \in Elements(q.live) \/ x = h
    BY <1>4
  <2>2. \A y \in Elements(d) : y \in Elements(c) /\ h < y
    BY <1>2
  <2>3. \A x \in Elements(l), y \in Elements(d) : x < y
    BY <1>1, <2>1, <2>2
  <2> QED
    BY <1>5, <2>3
<1>9. \A x \in BackOf(p) \cup LiveOf(p) : x < n
  BY <1>1, <1>6, <1>7
<1>10. StreamSound(p, n)
  BY <1>1, <1>2, <1>4, <1>5, <1>8, <1>9 DEF StreamSound
<1> QED
  BY <1>6, <1>7, <1>10 DEF h, wanted

\* The client goes away with what the stream has not yielded.
LEMMA DisconnectSound ==
  ASSUME NEW n \in Nat, NEW q, StreamSound(q, n), q.pc # "detached",
         NEW p, p = [q EXCEPT !.pc = "detached", !.replay = <<>>, !.channel = <<>>]
  PROVE  /\ StreamSound(p, n) /\ BackOf(p) \subseteq BackOf(q) /\ LiveOf(p) \subseteq LiveOf(q)
         /\ BackOf(q) \subseteq BackOf(p) \cup Elements(q.replay)
         /\ LiveOf(q) \subseteq LiveOf(p) \cup Elements(q.channel)
<1>1. /\ q \in StreamStates /\ q.mark # 0 /\ Increasing(q.live)
      /\ \A x \in BackOf(q) \cup LiveOf(q) : x < n
  BY AttachedMarked DEF StreamSound
<1>2. /\ p \in StreamStates /\ p.pc = "detached" /\ p.replay = <<>> /\ p.live = q.live
      /\ p.backlog = q.backlog /\ p.mark = q.mark /\ p.channel = <<>>
  BY <1>1, NothingIn DEF StreamStates
<1>3. /\ BackOf(p) = Elements(q.backlog) /\ LiveOf(p) = Elements(q.live)
      /\ BackOf(q) = Elements(q.backlog) \cup Elements(q.replay)
      /\ LiveOf(q) = Elements(q.live) \cup Elements(q.channel)
  BY <1>2, NothingIn DEF BackOf, LiveOf
<1>4. \A x \in BackOf(p) \cup LiveOf(p) : x < n
  BY <1>1, <1>3
<1>5. StreamSound(p, n)
  BY <1>1, <1>2, <1>4, NothingIn DEF StreamSound
<1> QED
  BY <1>3, <1>5
------------------------------------------------------------------------------
(* The steps.                                                                *)

\* A step that changes one stream and takes nothing up keeps the streams sound.
LEMMA OneStream ==
  ASSUME StreamsSound, NEW s \in Streams, NEW p, StreamSound(p, nextEvent),
         stream' = [stream EXCEPT ![s] = p], UNCHANGED <<nextEvent, holding>>,
         spool' \in Seq(Nat), Elements(spool') \subseteq Elements(spool), lostEvents' \in LostSets
  PROVE  /\ StreamsSound' /\ stream'[s] = p
         /\ \A t \in Streams \ {s} : stream'[t] = stream[t]
<1>1. stream \in [Streams -> StreamStates] /\ p \in StreamStates
  BY DEF StreamsSound, StreamSound
<1>2. /\ stream' \in [Streams -> StreamStates] /\ stream'[s] = p
      /\ \A t \in Streams \ {s} : stream'[t] = stream[t]
  BY <1>1
<1>3. \A t \in Streams : StreamSound(stream'[t], nextEvent)
  BY <1>2 DEF StreamsSound
<1>4. StreamsSound'
  BY <1>2, <1>3 DEF StreamsSound
<1> QED
  BY <1>2, <1>4

\* Events that only leave their places stay apart.
LEMMA ApartShrinks ==
  ASSUME Apart, holding' = holding, Elements(spool') \subseteq Elements(spool),
         \A t \in Streams : /\ BackOf(stream'[t]) \subseteq BackOf(stream[t])
                            /\ LiveOf(stream'[t]) \subseteq LiveOf(stream[t])
  PROVE  Apart'
<1>1. InHand' = InHand /\ Waiting' \subseteq Waiting
  BY DEF InHand, Waiting
<1>2. \A s \in Streams : Waiting' \cap BackOf(stream'[s]) = {} /\ Waiting' \cap LiveOf(stream'[s]) = {}
  BY <1>1 DEF Apart
<1>3. \A s, t \in Streams : BackOf(stream'[s]) \cap LiveOf(stream'[t]) = {}
  BY DEF Apart
<1>4. \A s, t \in Streams : s # t => BackOf(stream'[s]) \cap BackOf(stream'[t]) = {}
  BY DEF Apart
<1>5. InHand' \cap Elements(spool') = {}
  BY <1>1 DEF Apart
<1> QED
  BY <1>2, <1>3, <1>4, <1>5 DEF Apart

\* A step of one stream that loses nothing but what it reports lost.
LEMMA OneStreamAccounts ==
  ASSUME AllAccounted, UNCHANGED <<nextEvent, holding>>, LostAll \subseteq LostAll',
         NEW s \in Streams, \A t \in Streams \ {s} : stream'[t] = stream[t],
         BackOf(stream[s]) \cup LiveOf(stream[s]) \subseteq BackOf(stream'[s]) \cup LiveOf(stream'[s]) \cup LostAll',
         Elements(spool) \subseteq Elements(spool') \cup BackOf(stream'[s]) \cup LostAll'
  PROVE  AllAccounted'
<1> SUFFICES ASSUME NEW e \in 1..(nextEvent - 1) PROVE Accounted(e)'
  BY DEF AllAccounted
<1>1. Accounted(e)
  BY DEF AllAccounted
<1>2. CASE \E r \in Recorders : holding[r] = e
  BY <1>2 DEF Accounted
<1>3. CASE e \in LostAll
  BY <1>3 DEF Accounted
<1>4. CASE e \in Elements(spool)
  BY <1>4 DEF Accounted
<1>5. CASE \E t \in Streams : e \in BackOf(stream[t]) \cup LiveOf(stream[t])
  BY <1>5 DEF Accounted
<1> QED
  BY <1>1, <1>2, <1>3, <1>4, <1>5 DEF Accounted

\* Subscribe replaces the state of a stream that was empty.
LEMMA SubscribeStep ==
  ASSUME StreamInv, NEW s \in Streams, NEW k \in SUBSET Kinds, Subscribe(s, k)
  PROVE  StreamInv'
<1> DEFINE q == stream[s]
           p == [Detached EXCEPT !.pc = "subscribed", !.kinds = k, !.mark = nextEvent]
<1>1. /\ StreamsSound /\ Apart /\ AllAccounted
      /\ nextEvent \in Nat \ {0} /\ StreamSound(q, nextEvent)
      /\ spool \in Seq(Nat) /\ lostEvents \in LostSets
  BY DEF StreamInv, StreamsSound
<1>2. /\ stream' = [stream EXCEPT ![s] = p] /\ q.mark = 0
      /\ UNCHANGED <<nextEvent, holding>> /\ spool' = spool /\ lostEvents' = lostEvents
  BY DEF Subscribe
<1>3. StreamSound(p, nextEvent) /\ BackOf(p) = {} /\ LiveOf(p) = {}
  BY <1>1, SubscribeSound
<1>4. BackOf(q) = {} /\ LiveOf(q) = {}
  <2>1. q = Detached
    BY <1>1, <1>2 DEF StreamSound
  <2>2. q.channel = <<>> /\ q.replay = <<>> /\ q.backlog = <<>> /\ q.live = <<>>
    BY <2>1, SMTT(40) DEF Detached
  <2> QED
    BY <2>2, NothingIn DEF BackOf, LiveOf
<1> HIDE DEF p
<1>5. /\ StreamsSound' /\ stream'[s] = p
      /\ \A t \in Streams \ {s} : stream'[t] = stream[t]
  BY <1>1, <1>2, <1>3, OneStream
<1>6. Apart'
  <2>1. \A t \in Streams : /\ BackOf(stream'[t]) \subseteq BackOf(stream[t])
                           /\ LiveOf(stream'[t]) \subseteq LiveOf(stream[t])
    BY <1>3, <1>5
  <2> QED
    BY <1>1, <1>2, <2>1, ApartShrinks
<1>7. AllAccounted'
  <2>1. LostAll' = LostAll
    BY <1>2 DEF LostAll
  <2> QED
    BY <1>1, <1>2, <1>4, <1>5, <2>1, OneStreamAccounts
<1> QED
  BY <1>5, <1>6, <1>7 DEF StreamInv

\* A chunk of the replay is yielded.
LEMMA YieldReplayStep ==
  ASSUME StreamInv, NEW s \in Streams, YieldReplay(s)
  PROVE  StreamInv'
<1> DEFINE q == stream[s]
           u == q.replay
           n == IF Len(u) < ReplayChunk THEN Len(u) ELSE ReplayChunk
           p == [q EXCEPT !.backlog = @ \o SubSeq(u, 1, n), !.replay = SubSeq(u, n + 1, Len(u))]
<1>1. /\ StreamsSound /\ Apart /\ AllAccounted
      /\ nextEvent \in Nat /\ StreamSound(q, nextEvent) /\ q \in StreamStates
      /\ stream \in [Streams -> StreamStates]
      /\ spool \in Seq(Nat) /\ lostEvents \in LostSets
  BY DEF StreamInv, StreamsSound
<1>2. /\ stream' = [stream EXCEPT ![s] = p] /\ q.pc = "open" /\ u # <<>>
      /\ UNCHANGED <<nextEvent, holding>> /\ spool' = spool /\ lostEvents' = lostEvents
  BY <1>1 DEF YieldReplay
<1>3. n \in 0..Len(u)
  <2>1. Len(u) \in Nat
    BY <1>1, SMTT(40) DEF StreamStates
  <2> QED
    BY <2>1, StreamAssumption, SMTT(40)
<1> HIDE DEF n
<1>4. StreamSound(p, nextEvent) /\ BackOf(p) = BackOf(q) /\ LiveOf(p) = LiveOf(q)
  <2>1. /\ nextEvent \in Nat /\ StreamSound(q, nextEvent) /\ q.pc = "open" /\ q.replay # <<>>
        /\ n \in 0..Len(q.replay)
    BY <1>1, <1>2, <1>3
  <2>2. p = [q EXCEPT !.backlog = @ \o SubSeq(q.replay, 1, n),
                      !.replay = SubSeq(q.replay, n + 1, Len(q.replay))]
    OBVIOUS
  <2> HIDE DEF p, q, u
  <2> QED
    BY <2>1, <2>2, ReplaySound
<1> HIDE DEF p
<1>5. /\ StreamsSound' /\ stream'[s] = p
      /\ \A t \in Streams \ {s} : stream'[t] = stream[t]
  BY <1>1, <1>2, <1>4, OneStream
<1>6. Apart'
  <2>1. \A t \in Streams : /\ BackOf(stream'[t]) \subseteq BackOf(stream[t])
                           /\ LiveOf(stream'[t]) \subseteq LiveOf(stream[t])
    BY <1>4, <1>5
  <2> QED
    BY <1>1, <1>2, <2>1, ApartShrinks
<1>7. AllAccounted'
  <2>1. LostAll' = LostAll
    BY <1>2 DEF LostAll
  <2> QED
    BY <1>1, <1>2, <1>4, <1>5, <2>1, OneStreamAccounts
<1> QED
  BY <1>5, <1>6, <1>7 DEF StreamInv

\* One of the reasons for which events are lost gets a set of them.
LEMMA LostGrows ==
  ASSUME lostEvents \in LostSets, NEW X \in SUBSET Nat,
         \/ lostEvents' = [lostEvents EXCEPT !.refused = @ \cup X]
         \/ lostEvents' = [lostEvents EXCEPT !.lagged = @ \cup X]
         \/ lostEvents' = [lostEvents EXCEPT !.filtered = @ \cup X]
         \/ lostEvents' = [lostEvents EXCEPT !.dropped = @ \cup X]
  PROVE  lostEvents' \in LostSets /\ LostAll' = LostAll \cup X
<1>1. CASE lostEvents' = [lostEvents EXCEPT !.refused = @ \cup X]
  BY <1>1 DEF LostSets, LostAll
<1>2. CASE lostEvents' = [lostEvents EXCEPT !.lagged = @ \cup X]
  BY <1>2 DEF LostSets, LostAll
<1>3. CASE lostEvents' = [lostEvents EXCEPT !.filtered = @ \cup X]
  BY <1>3 DEF LostSets, LostAll
<1>4. CASE lostEvents' = [lostEvents EXCEPT !.dropped = @ \cup X]
  BY <1>4 DEF LostSets, LostAll
<1> QED
  BY <1>1, <1>2, <1>3, <1>4

\* The numbers in a sequence of numbers.
LEMMA ElementsType == \A u \in Seq(Nat) : Elements(u) \in SUBSET Nat
BY SMTT(40) DEF Elements

\* A live event is yielded or skipped.
LEMMA YieldLiveStep ==
  ASSUME StreamInv, NEW s \in Streams, YieldLive(s)
  PROVE  StreamInv'
<1> DEFINE q == stream[s]
           h == Head(q.channel)
           wanted == Wanted(s, h)
           l == IF wanted THEN Append(q.live, h) ELSE q.live
           p == [q EXCEPT !.channel = Tail(q.channel), !.live = l]
<1>1. /\ StreamsSound /\ Apart /\ AllAccounted
      /\ nextEvent \in Nat /\ StreamSound(q, nextEvent) /\ q \in StreamStates
      /\ stream \in [Streams -> StreamStates]
      /\ spool \in Seq(Nat) /\ lostEvents \in LostSets
  BY DEF StreamInv, StreamsSound
<1>2. /\ stream' = [stream EXCEPT ![s] = p]
      /\ q.pc = "open" /\ q.replay = <<>> /\ q.channel # <<>>
      /\ UNCHANGED <<nextEvent, holding>> /\ spool' = spool
      /\ lostEvents' = IF wanted THEN lostEvents ELSE [lostEvents EXCEPT !.filtered = @ \cup {h}]
  BY <1>1 DEF YieldLive, ReplayDone
<1>3. (l = q.live \/ l = Append(q.live, h)) /\ (wanted => l = Append(q.live, h))
  OBVIOUS
<1>4. h \in Nat
  <2>1. q.channel \in Seq(Nat)
    BY <1>1 DEF StreamStates
  <2> QED
    BY <1>2, <2>1, ElementsTail
<1> HIDE DEF wanted, l
<1>5. /\ StreamSound(p, nextEvent) /\ BackOf(p) = BackOf(q) /\ LiveOf(p) \subseteq LiveOf(q)
      /\ LiveOf(q) \subseteq LiveOf(p) \cup {h}
      /\ wanted => LiveOf(q) = LiveOf(p)
  <2>1. nextEvent \in Nat /\ StreamSound(q, nextEvent) /\ TakesLive(q, p, l)
    BY <1>1, <1>2, <1>3 DEF TakesLive
  <2> HIDE DEF p, q
  <2>2. /\ StreamSound(p, nextEvent) /\ BackOf(p) = BackOf(q) /\ LiveOf(p) \subseteq LiveOf(q)
        /\ LiveOf(q) \subseteq LiveOf(p) \cup {h}
        /\ l = Append(q.live, Head(q.channel)) => LiveOf(q) = LiveOf(p)
    BY <2>1, LiveSound, SMTT(40)
  <2> QED
    BY <1>3, <2>2
<1> HIDE DEF p, h
<1>6. /\ lostEvents' \in LostSets /\ LostAll \subseteq LostAll'
      /\ ~ wanted => h \in LostAll'
  <2>1. CASE wanted
    BY <1>1, <1>2, <2>1 DEF LostAll
  <2>2. CASE ~ wanted
    <3>1. lostEvents' \in LostSets /\ LostAll' = LostAll \cup {h}
      BY <1>1, <1>2, <1>4, <2>2, LostGrows
    <3> QED
      BY <3>1
  <2> QED
    BY <2>1, <2>2
<1>7. /\ StreamsSound' /\ stream'[s] = p
      /\ \A t \in Streams \ {s} : stream'[t] = stream[t]
  BY <1>1, <1>2, <1>5, <1>6, OneStream
<1>8. Apart'
  <2>1. \A t \in Streams : /\ BackOf(stream'[t]) \subseteq BackOf(stream[t])
                           /\ LiveOf(stream'[t]) \subseteq LiveOf(stream[t])
    BY <1>5, <1>7, SMTT(40)
  <2> QED
    BY <1>1, <1>2, <2>1, ApartShrinks
<1>9. AllAccounted'
  <2>1. BackOf(q) \cup LiveOf(q) \subseteq BackOf(p) \cup LiveOf(p) \cup LostAll'
    BY <1>5, <1>6
  <2> QED
    BY <1>1, <1>2, <1>6, <1>7, <2>1, OneStreamAccounts
<1> QED
  BY <1>7, <1>8, <1>9 DEF StreamInv

\* The client goes away.
LEMMA DisconnectStep ==
  ASSUME StreamInv, NEW s \in Streams, Disconnect(s)
  PROVE  StreamInv'
<1> DEFINE q == stream[s]
           p == [q EXCEPT !.pc = "detached", !.replay = <<>>, !.channel = <<>>]
           X == Elements(q.replay) \cup Elements(q.channel)
<1>1. /\ StreamsSound /\ Apart /\ AllAccounted
      /\ nextEvent \in Nat /\ StreamSound(q, nextEvent) /\ q \in StreamStates
      /\ stream \in [Streams -> StreamStates]
      /\ spool \in Seq(Nat) /\ lostEvents \in LostSets
  BY DEF StreamInv, StreamsSound
<1>2. /\ stream' = [stream EXCEPT ![s] = p] /\ q.pc # "detached"
      /\ UNCHANGED <<nextEvent, holding>> /\ spool' = spool
  BY <1>1 DEF Disconnect, Attached
<1>3. X \in SUBSET Nat
  <2>1. q.replay \in Seq(Nat) /\ q.channel \in Seq(Nat)
    BY <1>1 DEF StreamStates
  <2> QED
    BY <2>1, ElementsType
<1>4. lostEvents' = [lostEvents EXCEPT !.dropped = @ \cup X]
  <2>1. lostEvents' = [lostEvents EXCEPT !.dropped = @ \cup Range(q.replay) \cup Range(q.channel)]
    BY DEF Disconnect
  <2>2. \A Y : Y \cup Range(q.replay) \cup Range(q.channel) = Y \cup X
    BY SameElements
  <2> QED
    BY <2>1, <2>2
<1>5. /\ StreamSound(p, nextEvent) /\ BackOf(p) \subseteq BackOf(q) /\ LiveOf(p) \subseteq LiveOf(q)
      /\ BackOf(q) \subseteq BackOf(p) \cup Elements(q.replay)
      /\ LiveOf(q) \subseteq LiveOf(p) \cup Elements(q.channel)
  BY <1>1, <1>2, DisconnectSound
<1>6. BackOf(q) \cup LiveOf(q) \subseteq BackOf(p) \cup LiveOf(p) \cup X
  BY <1>5
<1> HIDE DEF p, X
<1>7. lostEvents' \in LostSets /\ LostAll' = LostAll \cup X
  BY <1>1, <1>3, <1>4, LostGrows
<1>8. /\ StreamsSound' /\ stream'[s] = p
      /\ \A t \in Streams \ {s} : stream'[t] = stream[t]
  BY <1>1, <1>2, <1>5, <1>7, OneStream
<1>9. Apart'
  <2>1. \A t \in Streams : /\ BackOf(stream'[t]) \subseteq BackOf(stream[t])
                           /\ LiveOf(stream'[t]) \subseteq LiveOf(stream[t])
    BY <1>5, <1>8, SMTT(40)
  <2> QED
    BY <1>1, <1>2, <2>1, ApartShrinks
<1>10. AllAccounted'
  <2>1. BackOf(q) \cup LiveOf(q) \subseteq BackOf(p) \cup LiveOf(p) \cup LostAll'
    BY <1>6, <1>7
  <2> QED
    BY <1>1, <1>2, <1>7, <1>8, <2>1, OneStreamAccounts
<1> QED
  BY <1>8, <1>9, <1>10 DEF StreamInv

\* The drain takes the whole spool; what the stream did not ask for is lost.
LEMMA DrainStep ==
  ASSUME StreamInv, NEW s \in Streams, DrainSpooled(s)
  PROVE  StreamInv'
<1> DEFINE q == stream[s]
           S == {e \in Range(spool) : Wanted(s, e)}
           X == {e \in Range(spool) : ~ Wanted(s, e)}
           v == Retain(spool, S)
           p == [q EXCEPT !.pc = "open", !.replay = v]
<1>1. /\ StreamsSound /\ Apart /\ AllAccounted
      /\ nextEvent \in Nat /\ StreamSound(q, nextEvent) /\ q \in StreamStates
      /\ stream \in [Streams -> StreamStates]
      /\ spool \in Seq(Nat) /\ lostEvents \in LostSets
      /\ \A e \in Elements(spool) : e < nextEvent
  BY DEF StreamInv, StreamsSound
<1>2. /\ stream' = [stream EXCEPT ![s] = p] /\ q.pc = "subscribed"
      /\ UNCHANGED <<nextEvent, holding>> /\ spool' = <<>>
      /\ lostEvents' = [lostEvents EXCEPT !.filtered = @ \cup X]
  BY <1>1 DEF DrainSpooled, DrainTakes
<1>3. Elements(spool) = S \cup X /\ S \subseteq Elements(spool) /\ X \in SUBSET Nat
  <2>1. Range(spool) = Elements(spool) /\ Elements(spool) \in SUBSET Nat
    BY <1>1, SameElements, ElementsType
  <2> QED
    BY <2>1
<1> HIDE DEF S, X
<1>4. v \in Seq(Nat) /\ Elements(v) = S
  <2>1. v \in Seq(Nat) /\ Elements(v) = Elements(spool) \intersect S
    BY <1>1, RetainElements
  <2> QED
    BY <1>3, <2>1
<1> HIDE DEF v
<1>5. /\ StreamSound(p, nextEvent) /\ BackOf(p) = S /\ LiveOf(p) = LiveOf(q)
      /\ BackOf(q) = {}
  <2>1. \A e \in Elements(v) : e < nextEvent
    BY <1>1, <1>3, <1>4
  <2>2. /\ StreamSound(p, nextEvent) /\ BackOf(p) = Elements(v) /\ LiveOf(p) = LiveOf(q)
        /\ BackOf(q) = {}
    BY <1>1, <1>2, <1>4, <2>1, DrainSound
  <2> QED
    BY <1>4, <2>2
<1> HIDE DEF p
<1>6. lostEvents' \in LostSets /\ LostAll' = LostAll \cup X
  BY <1>1, <1>2, <1>3, LostGrows
<1>7. spool' \in Seq(Nat) /\ Elements(spool') = {}
  BY <1>2, NothingIn
<1>8. /\ StreamsSound' /\ stream'[s] = p
      /\ \A t \in Streams \ {s} : stream'[t] = stream[t]
  BY <1>1, <1>2, <1>5, <1>6, <1>7, OneStream
<1>9. AllAccounted'
  <2>1. BackOf(q) \cup LiveOf(q) \subseteq BackOf(p) \cup LiveOf(p) \cup LostAll'
    BY <1>5
  <2>2. Elements(spool) \subseteq BackOf(p) \cup LostAll'
    BY <1>3, <1>5, <1>6
  <2> QED
    BY <1>1, <1>2, <1>6, <1>8, <2>1, <2>2, OneStreamAccounts
<1>10. Apart'
  <2>1. InHand' = InHand /\ Waiting' = InHand
    BY <1>2, <1>7 DEF InHand, Waiting
  <2>2. /\ InHand \subseteq Waiting /\ S \subseteq Waiting /\ InHand \cap S = {}
    BY <1>1, <1>3 DEF Waiting, Apart
  <2>3. \A t \in Streams : LiveOf(stream'[t]) = LiveOf(stream[t])
    BY <1>5, <1>8
  <2>4. \A t \in Streams : BackOf(stream'[t]) = IF t = s THEN S ELSE BackOf(stream[t])
    BY <1>5, <1>8
  <2>5. /\ \A t \in Streams : Waiting \cap BackOf(stream[t]) = {} /\ Waiting \cap LiveOf(stream[t]) = {}
        /\ \A t, u \in Streams : BackOf(stream[t]) \cap LiveOf(stream[u]) = {}
        /\ \A t, u \in Streams : t # u => BackOf(stream[t]) \cap BackOf(stream[u]) = {}
    BY <1>1 DEF Apart
  <2>6. \A t \in Streams : Waiting' \cap BackOf(stream'[t]) = {} /\ Waiting' \cap LiveOf(stream'[t]) = {}
    BY <2>1, <2>2, <2>3, <2>4, <2>5
  <2>7. \A t, u \in Streams : BackOf(stream'[t]) \cap LiveOf(stream'[u]) = {}
    BY <2>2, <2>3, <2>4, <2>5
  <2>8. \A t, u \in Streams : t # u => BackOf(stream'[t]) \cap BackOf(stream'[u]) = {}
    BY <2>2, <2>4, <2>5
  <2>9. \A r, k \in Recorders : holding'[r] = holding'[k] /\ holding'[r] # 0 => r = k
    BY <1>1, <1>2 DEF Apart
  <2>10. InHand' \cap Elements(spool') = {}
    BY <1>7
  <2> QED
    BY <2>6, <2>7, <2>8, <2>9, <2>10 DEF Apart
<1> QED
  BY <1>8, <1>9, <1>10 DEF StreamInv

\* The queue of a recorder: the event it holds goes to the spool, or is refused.
LEMMA SpoolStep ==
  ASSUME StreamInv, NEW r \in Recorders, SpoolEvent(r)
  PROVE  StreamInv'
<1> DEFINE e == holding[r]
<1>1. /\ StreamsSound /\ Apart /\ AllAccounted
      /\ nextEvent \in Nat /\ holding \in [Recorders -> Nat] /\ spool \in Seq(Nat)
      /\ lostEvents \in LostSets /\ \A k \in Recorders : holding[k] < nextEvent
      /\ \A x \in Elements(spool) : x < nextEvent
  BY DEF StreamInv, StreamsSound
<1>2. /\ e # 0 /\ holding' = [holding EXCEPT ![r] = 0] /\ UNCHANGED <<nextEvent, stream>>
      /\ \/ spool' = Append(spool, e) /\ lostEvents' = lostEvents
         \/ spool' = spool /\ lostEvents' = [lostEvents EXCEPT !.refused = @ \cup {e}]
  BY DEF SpoolEvent
<1>3. /\ holding' \in [Recorders -> Nat] /\ holding'[r] = 0
      /\ \A k \in Recorders \ {r} : holding'[k] = holding[k]
      /\ e \in Nat /\ e < nextEvent
  BY <1>1, <1>2
<1> HIDE DEF e
<1>4. /\ spool' \in Seq(Nat) /\ lostEvents' \in LostSets
      /\ Elements(spool) \subseteq Elements(spool')
      /\ Elements(spool') \subseteq Elements(spool) \cup {e}
      /\ LostAll \subseteq LostAll' /\ e \in Elements(spool') \cup LostAll'
  <2>1. CASE spool' = Append(spool, e) /\ lostEvents' = lostEvents
    <3>1. Elements(spool') = Elements(spool) \cup {e}
      <4>1. Elements(Append(spool, e)) = Elements(spool) \cup {e}
        BY <1>1, <1>3, ElementsAppend
      <4> QED
        BY <2>1, <4>1
    <3>2. spool' \in Seq(Nat)
      BY <1>1, <1>3, <2>1, SMTT(40)
    <3>3. LostAll' = LostAll
      BY <2>1 DEF LostAll
    <3> QED
      BY <1>1, <2>1, <3>1, <3>2, <3>3
  <2>2. CASE spool' = spool /\ lostEvents' = [lostEvents EXCEPT !.refused = @ \cup {e}]
    <3>1. lostEvents' \in LostSets /\ LostAll' = LostAll \cup {e}
      BY <1>1, <1>3, <2>2, LostGrows
    <3> QED
      BY <1>1, <2>2, <3>1
  <2> QED
    BY <1>2, <2>1, <2>2
<1>5. StreamsSound'
  <2>1. \A k \in Recorders : holding'[k] < nextEvent
    BY <1>1, <1>3, SMTT(40)
  <2>2. \A x \in Elements(spool') : x < nextEvent
    BY <1>1, <1>3, <1>4
  <2> QED
    BY <1>1, <1>2, <1>3, <1>4, <2>1, <2>2 DEF StreamsSound
<1>6. Apart'
  <2>1. InHand' \subseteq InHand /\ e \notin InHand' /\ e \in InHand
    <3>1. e \in InHand
      BY <1>2 DEF InHand, e
    <3>2. InHand' \subseteq InHand
      BY <1>3 DEF InHand
    <3>3. \A k \in Recorders : holding'[k] # e
      BY <1>1, <1>2, <1>3 DEF Apart, e
    <3> QED
      BY <3>1, <3>2, <3>3 DEF InHand
  <2>2. Waiting' \subseteq Waiting
    BY <1>4, <2>1 DEF Waiting
  <2>3. InHand' \cap Elements(spool') = {}
    BY <1>1, <1>4, <2>1 DEF Apart
  <2>4. \A k, m \in Recorders : holding'[k] = holding'[m] /\ holding'[k] # 0 => k = m
    BY <1>1, <1>3 DEF Apart
  <2> QED
    BY <1>1, <1>2, <2>2, <2>3, <2>4 DEF Apart
<1>7. AllAccounted'
  <2> SUFFICES ASSUME NEW x \in 1..(nextEvent - 1) PROVE Accounted(x)'
    BY <1>2 DEF AllAccounted
  <2>1. Accounted(x)
    BY <1>1 DEF AllAccounted
  <2>2. CASE \E k \in Recorders : holding[k] = x
    <3>1. PICK k \in Recorders : holding[k] = x
      BY <2>2
    <3>2. k # r => holding'[k] = x
      BY <1>3, <3>1
    <3>3. k = r => x \in Elements(spool') \cup LostAll'
      BY <1>4, <3>1 DEF e
    <3> QED
      BY <3>2, <3>3 DEF Accounted
  <2>3. CASE x \in Elements(spool) \/ x \in LostAll
    BY <1>4, <2>3 DEF Accounted
  <2>4. CASE \E s \in Streams : x \in BackOf(stream[s]) \cup LiveOf(stream[s])
    BY <1>2, <2>4 DEF Accounted
  <2> QED
    BY <2>1, <2>2, <2>3, <2>4 DEF Accounted
<1> QED
  BY <1>5, <1>6, <1>7 DEF StreamInv

\* No event of the invariant is as new as the next one.
LEMMA NextIsNew ==
  ASSUME StreamsSound
  PROVE  /\ nextEvent \notin Waiting
         /\ \A s \in Streams : nextEvent \notin BackOf(stream[s]) /\ nextEvent \notin LiveOf(stream[s])
<1>1. nextEvent \in Nat /\ ~(nextEvent < nextEvent)
  BY SMTT(40) DEF StreamsSound
<1>2. \A x \in Waiting : x < nextEvent
  BY DEF Waiting, InHand, StreamsSound
<1>3. \A s \in Streams : \A x \in BackOf(stream[s]) \cup LiveOf(stream[s]) : x < nextEvent
  BY DEF StreamsSound, StreamSound
<1> QED
  BY <1>1, <1>2, <1>3

\* What is accounted for stays so, and so is the event recorded.
LEMMA RecordAccounts ==
  ASSUME AllAccounted, nextEvent \in Nat \ {0}, nextEvent' = nextEvent + 1,
         \A e \in 1..(nextEvent - 1) : Accounted(e) => Accounted(e)',
         NEW m, m = nextEvent, Accounted(m)'
  PROVE  AllAccounted'
<1> SUFFICES ASSUME NEW e \in 1..((nextEvent + 1) - 1) PROVE Accounted(e)'
  BY DEF AllAccounted
<1>1. e \in 1..(nextEvent - 1) \/ e = nextEvent
  BY SMTT(40)
<1>2. CASE e \in 1..(nextEvent - 1)
  BY <1>2 DEF AllAccounted
<1>3. CASE e = nextEvent
  <2>1. e = m
    BY <1>3
  <2> QED
    BY <2>1
<1> QED
  BY <1>1, <1>2, <1>3

\* record with nobody subscribed: the event comes back to the recorder.
LEMMA RecordHeldStep ==
  ASSUME StreamInv, NEW r \in Recorders, RecordEvent(r), Attached = {}
  PROVE  StreamInv'
<1> DEFINE n == nextEvent
<1>1. /\ StreamsSound /\ Apart /\ AllAccounted
      /\ n \in Nat \ {0} /\ holding \in [Recorders -> Nat] /\ spool \in Seq(Nat)
      /\ lostEvents \in LostSets /\ stream \in [Streams -> StreamStates]
      /\ \A k \in Recorders : holding[k] < n
      /\ \A x \in Elements(spool) : x < n
      /\ \A s \in Streams : StreamSound(stream[s], n)
  BY DEF StreamInv, StreamsSound
<1>2. /\ holding[r] = 0 /\ nextEvent' = n + 1 /\ holding' = [holding EXCEPT ![r] = n]
      /\ UNCHANGED <<spool, stream, lostEvents>>
  BY DEF RecordEvent
<1>3. /\ holding' \in [Recorders -> Nat] /\ holding'[r] = n
      /\ \A k \in Recorders \ {r} : holding'[k] = holding[k]
  BY <1>1, <1>2
<1>4. /\ n \notin Waiting
      /\ \A s \in Streams : n \notin BackOf(stream[s]) /\ n \notin LiveOf(stream[s])
  BY <1>1, NextIsNew
<1>5. StreamsSound'
  <2>1. \A k \in Recorders : holding'[k] < n + 1
    <3>1. \A k \in Recorders : holding'[k] = n \/ holding'[k] = holding[k]
      BY <1>3
    <3>2. \A k \in Recorders : holding[k] \in Nat
      BY <1>1
    <3> QED
      BY <1>1, <3>1, <3>2, SMTT(40)
  <2>2. \A x \in Elements(spool) : x < n + 1
    <3>1. Elements(spool) \in SUBSET Nat
      BY <1>1, ElementsType
    <3> QED
      BY <1>1, <3>1, SMTT(40)
  <2>3. \A s \in Streams : StreamSound(stream[s], n + 1)
    BY <1>1, SoundLater
  <2>4. n + 1 \in Nat \ {0}
    BY <1>1, SMTT(40)
  <2> QED
    BY <1>1, <1>2, <1>3, <2>1, <2>2, <2>3, <2>4 DEF StreamsSound
<1>6. Apart'
  <2>1. InHand' \subseteq InHand \cup {n} /\ Waiting' \subseteq Waiting \cup {n}
    BY <1>2, <1>3 DEF InHand, Waiting
  <2>2. \A k \in Recorders : holding[k] # n
    <3>1. \A k \in Recorders : holding[k] \in Nat
      BY <1>1
    <3> QED
      BY <1>1, <3>1, SMTT(40)
  <2>3. \A k, m \in Recorders : holding'[k] = holding'[m] /\ holding'[k] # 0 => k = m
    BY <1>1, <1>3, <2>2 DEF Apart
  <2>4. InHand' \cap Elements(spool) = {}
    BY <1>1, <1>4, <2>1 DEF Apart, Waiting
  <2>5. \A s \in Streams : Waiting' \cap BackOf(stream[s]) = {} /\ Waiting' \cap LiveOf(stream[s]) = {}
    BY <1>1, <1>4, <2>1, SMTT(40) DEF Apart
  <2> QED
    BY <1>1, <1>2, <2>3, <2>4, <2>5 DEF Apart
<1>7. AllAccounted'
  <2>m. PICK m \in Nat : m = n
    BY <1>1
  <2>1. Accounted(m)'
    <3>1. \E k \in Recorders : holding'[k] = m
      BY <1>3, <2>m
    <3> QED
      BY <3>1 DEF Accounted
  <2>2. ASSUME NEW e \in 1..(n - 1), Accounted(e) PROVE Accounted(e)'
    <3>1. e # 0
      BY <1>1, SMTT(40)
    <3>2. CASE \E k \in Recorders : holding[k] = e
      <4>1. PICK k \in Recorders : holding[k] = e
        BY <3>2
      <4>2. k # r
        BY <1>2, <3>1, <4>1
      <4> QED
        BY <1>3, <4>1, <4>2 DEF Accounted
    <3>3. CASE e \in Elements(spool) \/ e \in LostAll
      BY <1>2, <3>3 DEF Accounted, LostAll
    <3>4. CASE \E s \in Streams : e \in BackOf(stream[s]) \cup LiveOf(stream[s])
      BY <1>2, <3>4 DEF Accounted
    <3> QED
      BY <2>2, <3>2, <3>3, <3>4 DEF Accounted
  <2> QED
    BY <1>1, <1>2, <2>m, <2>1, <2>2, RecordAccounts
<1> QED
  BY <1>5, <1>6, <1>7 DEF StreamInv

\* record with streams subscribed: each gets the event in its channel.
LEMMA RecordSentStep ==
  ASSUME StreamInv, NEW r \in Recorders, RecordEvent(r), Attached # {}
  PROVE  StreamInv'
<1> DEFINE n == nextEvent
<1>1. /\ StreamsSound /\ Apart /\ AllAccounted
      /\ n \in Nat \ {0} /\ holding \in [Recorders -> Nat] /\ spool \in Seq(Nat)
      /\ lostEvents \in LostSets /\ stream \in [Streams -> StreamStates]
      /\ \A k \in Recorders : holding[k] < n
      /\ \A x \in Elements(spool) : x < n
      /\ \A s \in Streams : StreamSound(stream[s], n)
  BY DEF StreamInv, StreamsSound
<1>2. /\ nextEvent' = n + 1 /\ UNCHANGED <<holding, spool>>
      /\ stream' = [s \in Streams |->
            IF s \in Attached THEN [stream[s] EXCEPT !.channel = Delivered(@, n)] ELSE stream[s]]
      /\ lostEvents' = [lostEvents EXCEPT !.lagged = @ \cup Lagging]
  BY DEF RecordEvent
<1>3. ASSUME NEW s \in Attached
      PROVE  /\ s \in Streams /\ StreamSound(stream'[s], n + 1)
             /\ BackOf(stream'[s]) = BackOf(stream[s])
             /\ LiveOf(stream'[s]) \subseteq LiveOf(stream[s]) \cup {n} /\ n \in LiveOf(stream'[s])
             /\ LiveOf(stream[s]) \subseteq LiveOf(stream'[s]) \cup Lagging
  <2> DEFINE q == stream[s]
             p == stream'[s]
  <2>1. s \in Streams /\ q.pc # "detached"
    BY DEF Attached
  <2>2. p = [q EXCEPT !.channel = Delivered(@, n)]
    BY <1>2, <2>1
  <2>3. StreamSound(q, n) /\ n \in Nat
    BY <1>1, <2>1
  <2> HIDE DEF p, q, n
  <2>4. /\ StreamSound(p, n + 1) /\ BackOf(p) = BackOf(q)
        /\ LiveOf(p) \subseteq LiveOf(q) \cup {n} /\ n \in LiveOf(p)
        /\ Len(q.channel) = ChannelCapacity => LiveOf(q) \subseteq LiveOf(p) \cup {Head(q.channel)}
        /\ Len(q.channel) # ChannelCapacity => LiveOf(q) \subseteq LiveOf(p)
    BY <2>1, <2>2, <2>3, DeliverSound, SMTT(40)
  <2>5. Len(q.channel) = ChannelCapacity => Head(q.channel) \in Lagging
    BY <2>1 DEF Lagging, q
  <2>6. LiveOf(q) \subseteq LiveOf(p) \cup Lagging
    BY <2>4, <2>5
  <2> QED
    BY <2>1, <2>4, <2>6 DEF p, q
<1>4. ASSUME NEW s \in Streams, s \notin Attached
      PROVE  stream'[s] = stream[s] /\ StreamSound(stream'[s], n + 1)
  <2>1. stream'[s] = stream[s]
    BY <1>2, <1>4
  <2>2. StreamSound(stream[s], n) /\ n \in Nat
    BY <1>1
  <2> QED
    BY <2>1, <2>2, SoundLater
<1>5. \A s \in Streams : /\ StreamSound(stream'[s], n + 1)
                         /\ BackOf(stream'[s]) = BackOf(stream[s])
                         /\ LiveOf(stream'[s]) \subseteq LiveOf(stream[s]) \cup {n}
                         /\ LiveOf(stream[s]) \subseteq LiveOf(stream'[s]) \cup Lagging
  BY <1>3, <1>4
<1>6. Lagging \in SUBSET Nat
  <2> SUFFICES ASSUME NEW s \in Attached, Len(stream[s].channel) = ChannelCapacity
               PROVE  Head(stream[s].channel) \in Nat
    BY DEF Lagging
  <2>1. stream[s].channel \in Seq(Nat)
    BY <1>1 DEF Attached, StreamStates
  <2>2. stream[s].channel # <<>>
    BY StreamAssumption
  <2> QED
    BY <2>1, <2>2, ElementsTail
<1>7. lostEvents' \in LostSets /\ LostAll' = LostAll \cup Lagging
  BY <1>1, <1>2, <1>6, LostGrows
<1>8. /\ n \notin Waiting
      /\ \A s \in Streams : n \notin BackOf(stream[s]) /\ n \notin LiveOf(stream[s])
  BY <1>1, NextIsNew
<1>9. StreamsSound'
  <2>1. \A k \in Recorders : holding[k] < n + 1
    <3>1. \A k \in Recorders : holding[k] \in Nat
      BY <1>1
    <3> QED
      BY <1>1, <3>1, SMTT(40)
  <2>2. \A x \in Elements(spool) : x < n + 1
    <3>1. Elements(spool) \in SUBSET Nat
      BY <1>1, ElementsType
    <3> QED
      BY <1>1, <3>1, SMTT(40)
  <2>3. stream' \in [Streams -> StreamStates]
    BY <1>2, <1>5 DEF StreamSound
  <2>4. n + 1 \in Nat \ {0}
    BY <1>1, SMTT(40)
  <2> QED
    BY <1>1, <1>2, <1>5, <1>7, <2>1, <2>2, <2>3, <2>4 DEF StreamsSound
<1>10. Apart'
  <2>1. InHand' = InHand /\ Waiting' = Waiting
    BY <1>2 DEF InHand, Waiting
  <2>2. \A s \in Streams : Waiting \cap BackOf(stream'[s]) = {} /\ Waiting \cap LiveOf(stream'[s]) = {}
    BY <1>1, <1>5, <1>8, SMTT(40) DEF Apart
  <2>3. \A s, t \in Streams : BackOf(stream'[s]) \cap LiveOf(stream'[t]) = {}
    BY <1>1, <1>5, <1>8, SMTT(40) DEF Apart
  <2>4. \A s, t \in Streams : s # t => BackOf(stream'[s]) \cap BackOf(stream'[t]) = {}
    BY <1>1, <1>5 DEF Apart
  <2> QED
    BY <1>1, <1>2, <2>1, <2>2, <2>3, <2>4 DEF Apart
<1>11. AllAccounted'
  <2>m. PICK m \in Nat : m = n
    BY <1>1
  <2>1. Accounted(m)'
    <3>1. \E s \in Streams : m \in LiveOf(stream'[s])
      BY <1>3, <2>m
    <3> QED
      BY <3>1 DEF Accounted
  <2>2. ASSUME NEW e \in 1..(n - 1), Accounted(e) PROVE Accounted(e)'
    <3>1. CASE \E k \in Recorders : holding[k] = e
      BY <1>2, <3>1 DEF Accounted
    <3>2. CASE e \in Elements(spool) \/ e \in LostAll
      BY <1>2, <1>7, <3>2 DEF Accounted
    <3>3. CASE \E s \in Streams : e \in BackOf(stream[s]) \cup LiveOf(stream[s])
      BY <1>5, <1>7, <3>3 DEF Accounted
    <3> QED
      BY <2>2, <3>1, <3>2, <3>3 DEF Accounted
  <2> QED
    BY <1>1, <1>2, <2>m, <2>1, <2>2, RecordAccounts
<1> QED
  BY <1>9, <1>10, <1>11 DEF StreamInv
------------------------------------------------------------------------------
\* TelemetryCollector::new: no event, an empty spool, no stream.
LEMMA StreamStarts ==
  ASSUME StreamInit
  PROVE  StreamInv
<1>1. /\ nextEvent = 1 /\ holding = [r \in Recorders |-> 0] /\ spool = <<>>
      /\ stream = [s \in Streams |-> Detached]
      /\ lostEvents = [refused |-> {}, lagged |-> {}, filtered |-> {}, dropped |-> {}]
  BY DEF StreamInit
<1>2. /\ Detached.pc = "detached" /\ Detached.channel = <<>> /\ Detached.replay = <<>>
      /\ Detached.backlog = <<>> /\ Detached.live = <<>>
  BY DEF Detached
<1>3. Detached \in StreamStates
  BY NothingIn DEF Detached, StreamStates
<1>4. BackOf(Detached) = {} /\ LiveOf(Detached) = {}
  BY <1>2, NothingIn DEF BackOf, LiveOf
<1>5. StreamSound(Detached, 1)
  BY <1>2, <1>3, <1>4, NothingIn DEF StreamSound
<1>6. \A s \in Streams : stream[s] = Detached
  BY <1>1
<1>7. StreamsSound
  <2>1. lostEvents \in LostSets
    BY <1>1 DEF LostSets
  <2>2. holding \in [Recorders -> Nat] /\ \A r \in Recorders : holding[r] = 0
    BY <1>1
  <2>3. stream \in [Streams -> StreamStates]
    BY <1>1, <1>3
  <2>4. Elements(spool) = {} /\ spool \in Seq(Nat)
    BY <1>1, NothingIn
  <2> QED
    BY <1>1, <1>5, <1>6, <2>1, <2>2, <2>3, <2>4, SMTT(40) DEF StreamsSound
<1>8. Apart
  <2>1. \A r \in Recorders : holding[r] = 0
    BY <1>1
  <2>2. InHand = {} /\ Waiting = {} /\ Elements(spool) = {}
    BY <1>1, <2>1, NothingIn DEF InHand, Waiting
  <2> QED
    BY <1>4, <1>6, <2>1, <2>2 DEF Apart
<1>9. AllAccounted
  BY <1>1, SMTT(40) DEF AllAccounted
<1> QED
  BY <1>7, <1>8, <1>9 DEF StreamInv

\* Every step of the recorders and the streams keeps the invariant.
LEMMA StreamGoesOn ==
  ASSUME StreamInv, [StreamNext]_streamVars
  PROVE  StreamInv'
<1>1. ASSUME NEW r \in Recorders, RecordEvent(r) \/ SpoolEvent(r) PROVE StreamInv'
  BY <1>1, RecordHeldStep, RecordSentStep, SpoolStep
<1>2. ASSUME NEW s \in Streams, NEW k \in {{}, {"alert"}}, Subscribe(s, k) PROVE StreamInv'
  <2>1. k \in SUBSET Kinds
    BY DEF Kinds
  <2> QED
    BY <1>2, <2>1, SubscribeStep
<1>3. ASSUME NEW s \in Streams, DrainSpooled(s) \/ YieldReplay(s) \/ YieldLive(s) \/ Disconnect(s)
      PROVE  StreamInv'
  BY <1>3, DrainStep, YieldReplayStep, YieldLiveStep, DisconnectStep
<1>4. CASE UNCHANGED streamVars
  BY <1>4, SMTT(40) DEF streamVars, StreamInv, StreamsSound, Apart, InHand, Waiting, AllAccounted, Accounted,
              LostAll
<1> QED
  BY <1>1, <1>2, <1>3, <1>4 DEF StreamNext

\* What the invariant says of the places of events is what is promised.
LEMMA InvariantDelivers ==
  ASSUME StreamInv
  PROVE  BacklogDelivered
<1>1. StreamsSound /\ Apart /\ AllAccounted /\ lostEvents \in LostSets
  BY DEF StreamInv, StreamsSound
<1>2. \A s \in Streams : /\ stream[s].backlog \in Seq(Nat) /\ stream[s].replay \in Seq(Nat)
                         /\ stream[s].live \in Seq(Nat) /\ stream[s].channel \in Seq(Nat)
  BY <1>1 DEF StreamsSound, StreamStates
<1>3. EventsAccounted
  <2> SUFFICES ASSUME NEW e \in 1..(nextEvent - 1)
               PROVE  e \in {holding[r] : r \in Recorders} \cup Range(spool) \cup Lost
                              \cup UNION {InStream(s) : s \in Streams}
    BY DEF EventsAccounted
  <2>1. Accounted(e)
    BY <1>1 DEF AllAccounted
  <2>2. CASE \E r \in Recorders : holding[r] = e
    BY <2>2
  <2>3. CASE e \in Elements(spool)
    BY <2>3, SameElements
  <2>4. CASE e \in LostAll
    <3>1. \E k \in DOMAIN lostEvents : e \in lostEvents[k]
      BY <1>1, <2>4 DEF LostAll, LostSets
    <3> QED
      BY <3>1 DEF Lost
  <2>5. CASE \E s \in Streams : e \in BackOf(stream[s]) \cup LiveOf(stream[s])
    <3>1. PICK s \in Streams : e \in BackOf(stream[s]) \cup LiveOf(stream[s])
      BY <2>5
    <3>2. e \in InStream(s)
      BY <3>1, SameElements DEF InStream, BackOf, LiveOf
    <3> QED
      BY <3>2
  <2> QED
    BY <2>1, <2>2, <2>3, <2>4, <2>5 DEF Accounted
<1>4. BacklogOnce
  <2>1. \A s \in Streams : /\ Range(stream[s].backlog \o stream[s].replay) = BackOf(stream[s])
                           /\ Range(stream[s].live \o stream[s].channel) = LiveOf(stream[s])
    BY <1>2, SameElements, ElementsConcat, SMTT(40) DEF BackOf, LiveOf
  <2>2. Range(spool) \subseteq Waiting
    BY SameElements DEF Waiting
  <2> SUFFICES ASSUME NEW s \in Streams, NEW t \in Streams
               PROVE  /\ BackOf(stream[s]) \cap (Range(spool) \cup LiveOf(stream[t])) = {}
                      /\ s # t => BackOf(stream[s]) \cap BackOf(stream[t]) = {}
    BY <2>1 DEF BacklogOnce
  <2>3. /\ Waiting \cap BackOf(stream[s]) = {} /\ BackOf(stream[s]) \cap LiveOf(stream[t]) = {}
        /\ s # t => BackOf(stream[s]) \cap BackOf(stream[t]) = {}
    BY <1>1 DEF Apart
  <2> QED
    BY <2>2, <2>3
<1>5. BacklogFirstInStream
  BY <1>1 DEF BacklogFirstInStream, StreamsSound, StreamSound, Increasing
<1> QED
  BY <1>3, <1>4, <1>5 DEF BacklogDelivered

\* However many tasks record and however streams come and go: every event is in
\* a recorder's hand, in the spool, with a stream, or lost for one of the four
\* reasons the code has; a spooled event reaches one stream, once, and never
\* the live part of any; and a stream yields its backlog before its live
\* events, and those in the order of their sending (telemetry.rs, grpc.rs).
THEOREM BacklogStaysDelivered == StreamSpec => []BacklogDelivered
<1>1. StreamInit => StreamInv
  BY StreamStarts
<1>2. StreamInv /\ [StreamNext]_streamVars => StreamInv'
  BY StreamGoesOn
<1>3. StreamInv => BacklogDelivered
  BY InvariantDelivers
<1> QED
  BY <1>1, <1>2, <1>3, PTL DEF StreamSpec
================================================================================
