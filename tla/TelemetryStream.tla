-------------------------- MODULE TelemetryStream --------------------------
(***************************************************************************)
(* The telemetry collector (telemetry.rs) and the stream the gRPC service  *)
(* builds on it (grpc.rs, stream_telemetry).  record sends to the          *)
(* broadcast channel and, when nobody is subscribed, queues the event in   *)
(* the store-and-forward spool as a second step.  A stream subscribes,     *)
(* drains the spool, replays it in chunks and then forwards live events;   *)
(* its client may go away at any of these points.                          *)
(***************************************************************************)
EXTENDS Filters, FiniteSets

CONSTANTS
  Recorders, Streams, MaxEvents,
  ChannelCapacity,   \* events the channel keeps for a slow stream
  SpoolLimit,        \* max_items of the queue
  ReplayChunk

\* The capacities TelemetryCollector is made with, of which broadcast::channel
\* refuses zero, and the size of a chunk of the replay.
ASSUME StreamAssumption == ChannelCapacity \in Nat \ {0} /\ ReplayChunk \in Nat

VARIABLES
  nextEvent,   \* events are numbered as they are sent
  holding,     \* recorder -> the event it still has to queue, or 0
  spool,       \* the queue, oldest first
  stream,      \* stream -> [pc, kinds, mark, channel, replay, backlog, live]
  lostEvents   \* [refused, lagged, filtered, dropped], each a set of events

streamVars == <<nextEvent, holding, spool, stream, lostEvents>>

Kind(e) == IF e % 2 = 0 THEN "metric" ELSE "alert"

Detached == [pc |-> "detached", kinds |-> {}, mark |-> 0, channel |-> <<>>,
             replay |-> <<>>, backlog |-> <<>>, live |-> <<>>]

Events == 1..MaxEvents

StreamTypeOK ==
  /\ nextEvent \in 1..(MaxEvents + 1) /\ holding \in [Recorders -> 0..MaxEvents]
  /\ spool \in Seq(Events) /\ Len(spool) <= SpoolLimit
  /\ \A s \in Streams : /\ stream[s].pc \in {"detached", "subscribed", "open"}
                        /\ Len(stream[s].channel) <= ChannelCapacity
  /\ \A r \in DOMAIN lostEvents : lostEvents[r] \subseteq Events

StreamInit ==
  /\ nextEvent = 1 /\ holding = [r \in Recorders |-> 0] /\ spool = <<>>
  /\ stream = [s \in Streams |-> Detached]
  /\ lostEvents = [refused |-> {}, lagged |-> {}, filtered |-> {}, dropped |-> {}]

Attached == {s \in Streams : stream[s].pc # "detached"}

\* A channel that is full forgets its oldest event for the slow receiver.
Delivered(c, e) == Append(IF Len(c) = ChannelCapacity THEN Tail(c) ELSE c, e)

Lagging == {Head(stream[s].channel) : s \in {q \in Attached : Len(stream[q].channel) = ChannelCapacity}}

\* record: the send.  Without a receiver the event comes back to the caller.
RecordEvent(r) ==
  /\ holding[r] = 0 /\ nextEvent \in Events
  /\ nextEvent' = nextEvent + 1
  /\ IF Attached = {}
     THEN holding' = [holding EXCEPT ![r] = nextEvent] /\ UNCHANGED <<stream, lostEvents>>
     ELSE /\ stream' = [s \in Streams |->
               IF s \in Attached THEN [stream[s] EXCEPT !.channel = Delivered(@, nextEvent)] ELSE stream[s]]
          /\ lostEvents' = [lostEvents EXCEPT !.lagged = @ \cup Lagging]
          /\ UNCHANGED holding
  /\ UNCHANGED spool

\* Mutant of SpoolEvent: a record that gives up on an event nobody receives.
SpoolEventNot(r) ==
  /\ holding[r] # 0 /\ holding' = [holding EXCEPT ![r] = 0]
  /\ UNCHANGED <<nextEvent, spool, stream, lostEvents>>

\* Mutant of SpoolEvent: a full queue takes the event as well.
SpoolEventUnbounded(r) ==
  /\ holding[r] # 0 /\ spool' = Append(spool, holding[r])
  /\ holding' = [holding EXCEPT ![r] = 0]
  /\ UNCHANGED <<nextEvent, stream, lostEvents>>

\* record: try_enqueue of the returned event.  Events are Control items, which
\* EvictOldest does not evict: a full queue refuses the new one.
SpoolEvent(r) ==
  /\ holding[r] # 0
  /\ IF Len(spool) >= SpoolLimit
     THEN lostEvents' = [lostEvents EXCEPT !.refused = @ \cup {holding[r]}] /\ UNCHANGED spool
     ELSE spool' = Append(spool, holding[r]) /\ UNCHANGED lostEvents
  /\ holding' = [holding EXCEPT ![r] = 0]
  /\ UNCHANGED <<nextEvent, stream>>

\* Each call of the RPC is a stream of its own.
Subscribe(s, kinds) ==
  /\ stream[s].mark = 0
  /\ stream' = [stream EXCEPT ![s] = [Detached EXCEPT !.pc = "subscribed", !.kinds = kinds,
                                                      !.mark = nextEvent]]
  /\ UNCHANGED <<nextEvent, holding, spool, lostEvents>>

Wanted(s, e) == stream[s].kinds = {} \/ Kind(e) \in stream[s].kinds

\* Mutant of DrainTakes: a drain that leaves the queue as it was.
DrainLeaves == spool

DrainTakes == <<>>

\* drain_spooled takes the whole queue; what the stream did not ask for goes.
DrainSpooled(s) ==
  /\ stream[s].pc = "subscribed"
  /\ spool' = DrainTakes
  /\ stream' = [stream EXCEPT ![s].pc = "open", ![s].replay = Retain(spool, {e \in Range(spool) : Wanted(s, e)})]
  /\ lostEvents' = [lostEvents EXCEPT !.filtered = @ \cup {e \in Range(spool) : ~Wanted(s, e)}]
  /\ UNCHANGED <<nextEvent, holding>>

YieldReplay(s) ==
  LET q == stream[s].replay
      n == IF Len(q) < ReplayChunk THEN Len(q) ELSE ReplayChunk
  IN /\ stream[s].pc = "open" /\ q # <<>>
     /\ stream' = [stream EXCEPT ![s].backlog = @ \o SubSeq(q, 1, n), ![s].replay = SubSeq(q, n + 1, Len(q))]
     /\ UNCHANGED <<nextEvent, holding, spool, lostEvents>>

\* Mutant of ReplayDone: the replay need not have been yielded.
ReplayDoneNot(s) == stream[s].pc = "open"

\* The loop looks at live events only after the replay has been yielded.
ReplayDone(s) == stream[s].pc = "open" /\ stream[s].replay = <<>>

\* One turn of the loop: a wanted event is flushed at once, another skipped.
YieldLive(s) ==
  LET e == Head(stream[s].channel)
  IN /\ ReplayDone(s) /\ stream[s].channel # <<>>
     /\ stream' = [stream EXCEPT ![s].channel = Tail(@),
                     ![s].live = IF Wanted(s, e) THEN Append(@, e) ELSE @]
     /\ lostEvents' = IF Wanted(s, e) THEN lostEvents ELSE [lostEvents EXCEPT !.filtered = @ \cup {e}]
     /\ UNCHANGED <<nextEvent, holding, spool>>

\* The client goes away and the stream is dropped with what it still holds.
Disconnect(s) ==
  /\ s \in Attached
  /\ stream' = [stream EXCEPT ![s].pc = "detached", ![s].replay = <<>>, ![s].channel = <<>>]
  /\ lostEvents' = [lostEvents EXCEPT !.dropped = @ \cup Range(stream[s].replay) \cup Range(stream[s].channel)]
  /\ UNCHANGED <<nextEvent, holding, spool>>

StreamNext ==
  \/ \E r \in Recorders : RecordEvent(r) \/ SpoolEvent(r)
  \/ \E s \in Streams, k \in {{}, {"alert"}} : Subscribe(s, k)
  \/ \E s \in Streams : DrainSpooled(s) \/ YieldReplay(s) \/ YieldLive(s) \/ Disconnect(s)

StreamSpec == StreamInit /\ [][StreamNext]_streamVars
----------------------------------------------------------------------------
InStream(s) == Range(stream[s].channel) \cup Range(stream[s].replay)
                 \cup Range(stream[s].backlog) \cup Range(stream[s].live)

Lost == UNION {lostEvents[r] : r \in DOMAIN lostEvents}

(* No event vanishes unaccounted: whatever record has sent is in a         *)
(* recorder's hand, in the spool, in a stream's channel, replay or output, *)
(* or was lost for one of the four reasons the code allows (a full spool,  *)
(* lag, the stream's own filter, a client that left).                      *)
EventsAccounted ==
  1..(nextEvent - 1) \subseteq
    {holding[r] : r \in Recorders} \cup Range(spool) \cup Lost \cup UNION {InStream(s) : s \in Streams}

(* A spooled event reaches one stream at most and is never sent live as    *)
(* well: the backlogs of the streams, what they still have to replay, the  *)
(* spool and everything live are disjoint, so a reconnecting control plane *)
(* counts nothing twice.                                                   *)
BacklogOnce ==
  \A s, t \in Streams :
    LET back == Range(stream[s].backlog \o stream[s].replay)
    IN /\ back \cap (Range(spool) \cup Range(stream[t].live \o stream[t].channel)) = {}
       /\ s # t => back \cap Range(stream[t].backlog \o stream[t].replay) = {}

(* A stream yields its backlog before its first live event, and its live   *)
(* events in the order they were sent, whatever happened while it replayed *)
(* in chunks.                                                              *)
BacklogFirstInStream ==
  \A s \in Streams : /\ stream[s].live # <<>> => stream[s].replay = <<>>
                     /\ \A i, j \in DOMAIN stream[s].live : i < j => stream[s].live[i] < stream[s].live[j]

(* The comment in stream_telemetry: "everything recorded while no control  *)
(* plane was attached ... is delivered first ... before live events".      *)
BacklogBeforeLive ==
  \A s \in Attached : stream[s].live # <<>> =>
    \A e \in Range(spool) \cup {holding[r] : r \in Recorders} : e # 0 => e >= stream[s].mark

(* Every telemetry event is delivered, spooled or accounted as lost, and   *)
(* the backlog of a time without subscribers is handed to one stream, once *)
(* and before that stream's own live events.                               *)
BacklogDelivered ==
  /\ EventsAccounted
  /\ BacklogOnce
  /\ BacklogFirstInStream
=============================================================================
