------------------------- MODULE SeamlessController -------------------------
(***************************************************************************)
(* The continuity controller of core-supervisor/src/seamless.rs over the    *)
(* bridge and the replay buffer it shares.  Callers of act() run            *)
(* concurrently; each lock the code takes and releases is one step.  The    *)
(* forecast, the liveness of the primary and the outcome of every connect   *)
(* are inputs.  Round-trip times are arbitrary measurements, so any fresh   *)
(* standby may turn out to have the lowest.                                 *)
(***************************************************************************)
EXTENDS FailoverBridge

-----------------------------------------------------------------------------
(* The bounded buffer of unacknowledged frames (buffer_replay.rs).  A frame *)
(* is its sequence number and its hop count; one mutex guards them.         *)

CONSTANTS RingCapacity, MaxHops, \* capacity, max_hops
          MaxSeq                 \* bound on the frames pushed

VARIABLES frames,       \* frames, oldest first
          nextSeq,      \* next_seq
          droppedCount, \* dropped_count
          retired       \* frames replayed max_hops times and given up

ringVars == <<frames, nextSeq, droppedCount, retired>>

Capacity == IF RingCapacity = 0 THEN 1 ELSE RingCapacity

RingInit ==
    /\ frames = <<>>
    /\ nextSeq = 0
    /\ droppedCount = 0
    /\ retired = 0

\* Mutant of Push: a full ring evicts the newest frame.
PushEvictsNewest ==
    /\ nextSeq < MaxSeq
    /\ LET full == Len(frames) >= Capacity
           room == IF full THEN SubSeq(frames, 1, Len(frames) - 1) ELSE frames
       IN /\ frames' = Append(room, [seq |-> nextSeq, hops |-> 0])
          /\ droppedCount' = IF full THEN droppedCount + 1 ELSE droppedCount
    /\ nextSeq' = nextSeq + 1
    /\ UNCHANGED retired

Push ==
    /\ nextSeq < MaxSeq
    /\ LET full == Len(frames) >= Capacity
           room == IF full THEN Tail(frames) ELSE frames
       IN /\ frames' = Append(room, [seq |-> nextSeq, hops |-> 0])
          /\ droppedCount' = IF full THEN droppedCount + 1 ELSE droppedCount
    /\ nextSeq' = nextSeq + 1
    /\ UNCHANGED retired

Ack(upto) ==
    /\ frames' = Retain(frames, {f \in Range(frames) : f.seq > upto})
    /\ UNCHANGED <<nextSeq, droppedCount, retired>>

\* replay_all, which on_drop and on_loss_spike call: frames out of hops are
\* retired, the others are handed out with one more hop.
ReplayAll ==
    LET kept == Retain(frames, {f \in Range(frames) : f.hops < MaxHops})
    IN /\ frames' = [i \in DOMAIN kept |-> [kept[i] EXCEPT !.hops = @ + 1]]
       /\ retired' = retired + Len(frames) - Len(kept)
       /\ UNCHANGED <<nextSeq, droppedCount>>

RingNext ==
    \/ Push
    \/ \E upto \in 0..MaxSeq : Ack(upto)
    \/ ReplayAll

\* The frames held are always the newest ones pushed, without a gap, and an
\* older frame has been replayed at least as often as a newer one: so an
\* eviction, an acknowledgement and a retirement each only take the oldest
\* and the peer never sees a hole in what is replayed (push, ack, replay_all).
ReplayWindow ==
    \A i \in DOMAIN frames :
        /\ frames[i].seq = nextSeq - Len(frames) + i - 1
        /\ frames[i].hops <= MaxHops
        /\ i > 1 => frames[i - 1].hops >= frames[i].hops
-----------------------------------------------------------------------------
(* The controller.                                                          *)

CONSTANTS Candidates, \* the candidate transports, in order
          Tickers,    \* tasks that call act()
          MaxShared,  \* bound on the frames pushed while switches run
          MaxSwitches,\* bound on the switches begun
          None

\* capacity and max_hops are unsigned, the candidates a Vec, and finitely many
\* tasks call act().
ASSUME SeamlessAssumption ==
    /\ RingCapacity \in Nat /\ MaxHops \in Nat /\ MaxShared \in Nat
    /\ Candidates \in Seq(Range(Candidates))
    /\ IsFiniteSet(Tickers)

MAX_WARM_STANDBYS == 2

VARIABLES warm, \* inner.warm: [name, fresh]
          stats, \* inner.stats: [seamless, cold, failed]
          begun, \* calls of switch_now so far
          tick  \* per task: where it is in act() and what it has read

seamlessVars == <<bridgeVars, ringVars, warm, stats, begun, tick>>

Names == Range(Candidates) \union {Primary}
Resting == [pc |-> "idle", at |-> 0, active |-> None, already |-> {}, name |-> None, spends |-> FALSE]

SeamlessInit ==
    /\ BridgeInit /\ RingInit
    /\ warm = <<>>
    /\ stats = [seamless |-> 0, cold |-> 0, failed |-> 0]
    /\ begun = 0
    /\ tick = [t \in Tickers |-> Resting]

At(t, pc) == tick[t].pc = pc
Fresh(queue) == Retain(queue, {w \in Range(queue) : w.fresh})
WarmNames == {warm[i].name : i \in DOMAIN warm}

\* act: stale standbys go first; a dead primary switches whatever the forecast.
Act(t, forecast, alive) ==
    /\ At(t, "idle")
    /\ begun < MaxSwitches
    /\ warm' = Fresh(warm)
    /\ tick' = [tick EXCEPT ![t] =
           IF ~ alive THEN [Resting EXCEPT !.pc = "switch"]
           ELSE IF forecast = "PrewarmAdvised" THEN [Resting EXCEPT !.pc = "warm"]
           ELSE IF forecast = "SwitchAdvised" THEN [Resting EXCEPT !.pc = "warm", !.spends = TRUE]
           ELSE Resting]
    /\ UNCHANGED <<bridgeVars, ringVars, stats, begun>>

WarmReadActive(t) ==
    /\ At(t, "warm")
    /\ tick' = [tick EXCEPT ![t].pc = "already", ![t].active = active]
    /\ UNCHANGED <<bridgeVars, ringVars, warm, stats, begun>>

WarmReadAlready(t) ==
    /\ At(t, "already")
    /\ tick' = [tick EXCEPT ![t].pc = "candidate", ![t].already = WarmNames, ![t].at = 1]
    /\ UNCHANGED <<bridgeVars, ringVars, warm, stats, begun>>

\* warm_standbys is left; act either returns or goes on to switch_now.
WarmDone(t) == IF tick[t].spends THEN [Resting EXCEPT !.pc = "switch"] ELSE Resting

\* Mutant of WarmFull: one standby too many is kept.
WarmOverfull == Len(warm) > MAX_WARM_STANDBYS

WarmFull == Len(warm) >= MAX_WARM_STANDBYS

\* One turn of the loop over the candidates: the bound is read under the lock,
\* the handshake runs without it.
WarmCandidate(t, established) ==
    /\ At(t, "candidate")
    /\ LET i == tick[t].at
           name == Candidates[i]
       IN tick' = [tick EXCEPT ![t] =
              IF i > Len(Candidates) \/ WarmFull THEN WarmDone(t)
              ELSE IF name = @.active \/ name \in @.already \/ ~ established
                   THEN [@ EXCEPT !.at = i + 1]
              ELSE [@ EXCEPT !.pc = "push", !.name = name]]
    /\ UNCHANGED <<bridgeVars, ringVars, warm, stats, begun>>

WarmPush(t) ==
    /\ At(t, "push")
    /\ warm' = Append(warm, [name |-> tick[t].name, fresh |-> TRUE])
    /\ tick' = [tick EXCEPT ![t].pc = "candidate", ![t].at = @ + 1, ![t].name = None]
    /\ UNCHANGED <<bridgeVars, ringVars, stats, begun>>

\* switch_now takes a fresh standby out, or finds none and goes cold.
SwitchTake(t) ==
    /\ At(t, "switch")
    /\ begun' = begun + 1
    /\ LET fresh == Fresh(warm)
       IN \/ /\ fresh = <<>>
             /\ warm' = <<>>
             /\ tick' = [tick EXCEPT ![t].pc = "cold"]
          \/ \E i \in DOMAIN fresh :
                /\ warm' = Without(fresh, i)
                /\ tick' = [tick EXCEPT ![t].pc = "add", ![t].name = fresh[i].name]
    /\ UNCHANGED <<bridgeVars, ringVars, stats>>

SwitchAdd(t) ==
    /\ tick[t].pc \in {"add", "coldadd"}
    /\ AddStandby(tick[t].name)
    /\ tick' = [tick EXCEPT ![t].pc = IF @ = "add" THEN "promote" ELSE "coldpromote"]
    /\ UNCHANGED <<ringVars, warm, stats, begun>>

\* Mutant of SwitchPromote: the standby is left on the bridge.
SwitchPromoteForgets(t) ==
    /\ tick[t].pc \in {"promote", "coldpromote"}
    /\ active' = tick[t].name
    /\ tick' = [tick EXCEPT ![t].pc = "replay"]
    /\ UNCHANGED <<standby, failoverCount, ringVars, warm, stats, begun>>

SwitchPromote(t) ==
    /\ tick[t].pc \in {"promote", "coldpromote"}
    /\ \/ /\ Promote(tick[t].name)
          /\ tick' = [tick EXCEPT ![t].pc = IF @ = "promote" THEN "replay" ELSE "coldreplay"]
       \/ /\ ~ CanPromote(tick[t].name)
          /\ tick' = [tick EXCEPT ![t].pc = IF @ = "promote" THEN "cold" ELSE "coldtry",
                                  ![t].at = @ + 1]
          /\ UNCHANGED bridgeVars
    /\ UNCHANGED <<ringVars, warm, stats, begun>>

\* Mutant of SwitchReplay: only the hot path is counted.
SwitchReplayHotOnly(t) ==
    /\ tick[t].pc \in {"replay", "coldreplay"}
    /\ ReplayAll
    /\ tick' = [tick EXCEPT ![t] = Resting]
    /\ stats' = IF At(t, "replay") THEN [stats EXCEPT !.seamless = @ + 1] ELSE stats
    /\ UNCHANGED <<bridgeVars, warm, begun>>

SwitchReplay(t) ==
    /\ tick[t].pc \in {"replay", "coldreplay"}
    /\ ReplayAll
    /\ tick' = [tick EXCEPT ![t] = Resting]
    /\ stats' = IF At(t, "replay") THEN [stats EXCEPT !.seamless = @ + 1]
                                   ELSE [stats EXCEPT !.cold = @ + 1]
    /\ UNCHANGED <<bridgeVars, warm, begun>>

ColdReadActive(t) ==
    /\ At(t, "cold")
    /\ tick' = [tick EXCEPT ![t].pc = "coldtry", ![t].at = 1, ![t].active = active]
    /\ UNCHANGED <<bridgeVars, ringVars, warm, stats, begun>>

ColdCandidate(t, established) ==
    /\ At(t, "coldtry")
    /\ LET i == tick[t].at
       IN \/ /\ i > Len(Candidates)
             /\ tick' = [tick EXCEPT ![t] = Resting]
             /\ stats' = [stats EXCEPT !.failed = @ + 1]
          \/ /\ i <= Len(Candidates)
             /\ tick' = [tick EXCEPT ![t] =
                    IF Candidates[i] = @.active \/ ~ established THEN [@ EXCEPT !.at = i + 1]
                    ELSE [@ EXCEPT !.pc = "coldadd", !.name = Candidates[i]]]
             /\ UNCHANGED stats
    /\ UNCHANGED <<bridgeVars, ringVars, warm, begun>>

\* The oldest fresh standby outlives WARM_TTL.
StandbyAges ==
    /\ \E i \in DOMAIN warm :
          /\ warm[i].fresh /\ \A j \in 1..(i - 1) : ~ warm[j].fresh
          /\ warm' = [warm EXCEPT ![i].fresh = FALSE]
    /\ UNCHANGED <<bridgeVars, ringVars, stats, tick, begun>>

\* The other holders of the shared bridge and buffer.
BridgeUser == Failover /\ UNCHANGED <<ringVars, warm, stats, tick, begun>>
BufferUser ==
    /\ \/ nextSeq < MaxShared /\ Push
       \/ \E upto \in 0..(MaxShared - 1) : Ack(upto)
    /\ UNCHANGED <<bridgeVars, warm, stats, tick, begun>>

Forecasts == {"Stable", "PrewarmAdvised", "SwitchAdvised"}

SeamlessNext ==
    \/ \E t \in Tickers :
          \/ \E forecast \in Forecasts, alive \in BOOLEAN : Act(t, forecast, alive)
          \/ WarmReadActive(t) \/ WarmReadAlready(t) \/ WarmPush(t)
          \/ \E established \in BOOLEAN : WarmCandidate(t, established)
          \/ SwitchTake(t) \/ SwitchAdd(t) \/ SwitchPromote(t) \/ SwitchReplay(t)
          \/ ColdReadActive(t)
          \/ \E established \in BOOLEAN : ColdCandidate(t, established)
    \/ StandbyAges
    \/ BridgeUser
    \/ BufferUser

SeamlessSpec == SeamlessInit /\ [][SeamlessNext]_seamlessVars

SeamlessTypeOK ==
    /\ active \in Names
    /\ standby \in Seq(Names)
    /\ warm \in Seq([name : Range(Candidates), fresh : BOOLEAN])
    /\ \A t \in Tickers : tick[t].already \subseteq Names

Switching(t) == tick[t].pc \in {"add", "promote", "replay", "cold", "coldtry",
                                "coldadd", "coldpromote", "coldreplay"}

\* "Maximum number of standbys kept hot at once" (MAX_WARM_STANDBYS), which the
\* test warm_standbys_are_bounded asserts for one caller.  With two it does not
\* hold: the bound is read under one lock and the standby pushed under another.
WarmBounded == Len(warm) <= MAX_WARM_STANDBYS

\* How far warm_standbys misses that bound: each further concurrent caller can
\* add one standby beyond it, and no more.
WarmOvershootBounded == Len(warm) <= MAX_WARM_STANDBYS + Cardinality(Tickers) - 1

\* Every call of switch_now is counted once, as seamless, cold or failed,
\* also when another user of the bridge takes its standby between add_standby
\* and promote and the hot path falls through to the cold one.
SwitchesAccounted ==
    begun = stats.seamless + stats.cold + stats.failed + Cardinality({t \in Tickers : Switching(t)})

\* switch_now leaves nothing behind on the bridge: a standby is there only
\* while the call that added it is on its way to promoting it.
BridgeDrained ==
    Len(standby) <= Cardinality({t \in Tickers : tick[t].pc \in {"promote", "coldpromote"}})

\* Concurrent switches keep their books: every switch is accounted, the bridge
\* drains, what is replayed is the unbroken recent window of what was sent, and
\* the warm set exceeds MAX_WARM_STANDBYS by at most one per further caller
\* (that it exceeds it at all is what WarmBounded denies).
SwitchesSafe ==
    /\ SwitchesAccounted
    /\ BridgeDrained
    /\ WarmOvershootBounded
    /\ ReplayWindow
=============================================================================
