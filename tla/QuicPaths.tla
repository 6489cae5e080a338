----------------------------- MODULE QuicPaths ------------------------------
(***************************************************************************)
(* How QUIC keeps its paths: the migration of one connection, the paths of *)
(* a multipath session, and the segments kept for replay while a path is   *)
(* changed. The three share no state.                                      *)
(***************************************************************************)
EXTENDS Integers, Sequences, SequencesExt, FiniteSetsExt, Functions, FiniteSets

(* Connection migration of one QUIC connection (quic_migration.rs): the    *)
(* manager starts a path validation, the network answers it late, twice or *)
(* never, and the connection is stabilised.  The manager's lock makes each *)
(* call atomic; nothing ties an answer to the validation it belongs to.    *)

CONSTANTS Paths, InitialPath, MaxMigrations

ASSUME MigrationAssumption == InitialPath \in Paths /\ MaxMigrations \in Nat

VARIABLES
  state,       \* MigrationState
  path,        \* current_path's address
  validated,   \* current_path.validated
  migrations,  \* migration_count
  lastGood,    \* history: the path of the last Stable or Migrated period
  inFlight,    \* paths whose challenge may still be answered (the network)
  answers      \* history: paths answered for since the last migrate

migrationVars == <<state, path, validated, migrations, lastGood, inFlight, answers>>

MigrationTypeOK ==
  /\ state \in {"Stable", "PathValidation", "Migrated", "Failed"}
  /\ path \in Paths /\ lastGood \in Paths /\ validated \in BOOLEAN
  /\ migrations \in 0..MaxMigrations
  /\ inFlight \subseteq Paths /\ answers \subseteq Paths

MigrationInit ==
  /\ state = "Stable" /\ path = InitialPath /\ lastGood = InitialPath
  /\ validated = FALSE /\ migrations = 0 /\ inFlight = {} /\ answers = {}

\* migrate and start_path_validation: the new path, not yet validated, becomes
\* the current one at once.
CanMigrate == state = "Stable"

\* Mutant of NewPath: the mark of the path left is carried over.
NewPathInherits == validated

\* NetworkPath::new
NewPath == FALSE

Migrate(p) ==
  /\ CanMigrate
  /\ state' = "PathValidation"
  /\ path' = p
  /\ validated' = NewPath
  /\ lastGood' = path
  /\ inFlight' = inFlight \cup {p}
  /\ answers' = {}
  /\ UNCHANGED migrations

\* An answer arrives (and may arrive again): complete_validation(true, rtt).
\* It is applied to the current path whichever path it was for.
ValidationSucceeds(p) ==
  /\ p \in inFlight
  /\ migrations < MaxMigrations
  /\ validated' = TRUE
  /\ state' = "Migrated"
  /\ migrations' = migrations + 1
  /\ lastGood' = path
  /\ answers' = answers \cup {p}
  /\ \E again \in BOOLEAN : inFlight' = IF again THEN inFlight ELSE inFlight \ {p}
  /\ UNCHANGED path

\* The caller's timer or an error: complete_validation(false, _).
ValidationFails ==
  /\ inFlight # {}
  /\ state' = "Failed"
  /\ UNCHANGED <<path, validated, migrations, lastGood, inFlight, answers>>

Stabilize ==
  /\ state \in {"Migrated", "Failed"}
  /\ state' = "Stable"
  /\ UNCHANGED <<path, validated, migrations, lastGood, inFlight, answers>>

MigrationNext ==
  \/ \E p \in Paths : Migrate(p) \/ ValidationSucceeds(p)
  \/ ValidationFails
  \/ Stabilize

-----------------------------------------------------------------------------
\* The mark of the current path was earned since the connection moved to it,
\* never carried over from the path before, and Migrated is never reported
\* without it (start_path_validation, complete_validation).  Some answer earned
\* it, not always one for this path: see MigratedPathAnswered.
MarkEarnedHere ==
  /\ validated => answers # {}
  /\ state = "Migrated" => validated

\* What path validation is for: a connection that reports Migrated is on a path
\* whose own challenge was answered.  It does not hold: complete_validation is
\* told neither the path nor the state, so the late answer for a path given up
\* validates its successor.
MigratedPathAnswered == state = "Migrated" => path \in answers

\* MigrationState::Failed is documented "Failed to migrate, staying on old."
FailedStaysOnOld == state = "Failed" => path = lastGood

-----------------------------------------------------------------------------
(* A multipath QUIC session (mpquic.rs).  Its paths (a map) and its active *)
(* interfaces (a vector) are under two locks, taken one after the other,   *)
(* and total_bytes is an atomic of its own.  The methods take &self, so    *)
(* any task may be between the steps of any of them.                       *)

CONSTANTS Interfaces, Rtt, DataLens, MpTasks, MaxChanges, MaxTotal

ASSUME MultipathAssumption == 
  /\ DataLens \subseteq Nat /\ MaxChanges \in Nat /\ MaxTotal \in Nat
  /\ Rtt \in [Interfaces -> Nat]

VARIABLES
  known,     \* the keys of paths
  active,    \* active_interfaces, in order
  call,      \* task -> the call it is in: what it does next, to which interfaces
  sent,      \* the distribution send_bonded returned last
  credited,  \* bytes_sent of each path
  totalSent, \* total_bytes
  changes,   \* add_path and remove_path calls made
  overlapped    \* interfaces whose last add and remove overlapped (history)

multipathVars == <<known, active, call, sent, credited, totalSent, changes, overlapped>>

NoCall == [next |-> "none", names |-> <<>>, len |-> 0]

MultipathTypeOK ==
  /\ known \subseteq Interfaces
  /\ active \in Seq(Interfaces)
  /\ \A t \in MpTasks :
       /\ call[t].next \in {"none", "add", "remove", "split", "credit", "total"}
       /\ call[t].names \in Seq(Interfaces)
  /\ credited \in [Interfaces -> 0..MaxTotal] /\ totalSent \in 0..MaxTotal
  /\ changes \in 0..MaxChanges

MultipathInit ==
  /\ known = {} /\ active = <<>> /\ call = [t \in MpTasks |-> NoCall]
  /\ sent = [i \in {} |-> 0] /\ changes = 0 /\ overlapped = {}
  /\ credited = [i \in Interfaces |-> 0] /\ totalSent = 0

Begins(t, next, names, len) == call' = [call EXCEPT ![t] = [next |-> next, names |-> names, len |-> len]]
Returns(t) == call' = [call EXCEPT ![t] = NoCall]

\* The interfaces whose two collections a call is about to change.
Changing(ops) == {call[t].names[1] : t \in {u \in MpTasks : call[u].next \in ops}}

\* add_path: insert into the map, then append to the vector unless present.
AddKnown(t, i) ==
  /\ call[t] = NoCall /\ changes < MaxChanges
  /\ known' = known \cup {i}
  /\ credited' = [credited EXCEPT ![i] = 0]
  /\ Begins(t, "add", <<i>>, 0)
  /\ overlapped' = IF i \in Changing({"remove"}) THEN overlapped \cup {i} ELSE overlapped \ {i}
  /\ changes' = changes + 1
  /\ UNCHANGED <<active, sent, totalSent>>

AddActive(t) ==
  /\ call[t].next = "add"
  /\ LET i == call[t].names[1]
     IN active' = IF Contains(active, i) THEN active ELSE Append(active, i)
  /\ Returns(t)
  /\ UNCHANGED <<known, sent, credited, totalSent, changes, overlapped>>

\* remove_path: the vector is touched only if the map had the interface.
RemoveKnown(t, i) ==
  /\ call[t] = NoCall /\ changes < MaxChanges
  /\ i \in known
  /\ known' = known \ {i}
  /\ credited' = [credited EXCEPT ![i] = 0]
  /\ Begins(t, "remove", <<i>>, 0)
  /\ overlapped' = IF i \in Changing({"add"}) THEN overlapped \cup {i} ELSE overlapped \ {i}
  /\ changes' = changes + 1
  /\ UNCHANGED <<active, sent, totalSent>>

\* Mutant of Retain: the interface stays in the vector.
RetainAll(i) == active

Retain(i) == SelectSeq(active, LAMBDA n : n # i)

RemoveActive(t) ==
  /\ call[t].next = "remove"
  /\ active' = Retain(call[t].names[1])
  /\ Returns(t)
  /\ UNCHANGED <<known, sent, credited, totalSent, changes, overlapped>>

\* Bytes of the calls that have still to reach total_bytes.
Sending == MapThenSumSet(LAMBDA t : call[t].len, MpTasks)

\* send_bonded: clone the active names; none is an error ...
BondedSnapshot(t, len) ==
  /\ call[t] = NoCall /\ totalSent + Sending + len <= MaxTotal
  /\ active # <<>>
  /\ Begins(t, "split", active, len)
  /\ UNCHANGED <<known, active, sent, credited, totalSent, changes, overlapped>>

\* Mutant of Chunk: the remainder is sent on no path.
ChunkEven(names, len, i) == len \div Len(names)

Chunk(names, len, i) == (len \div Len(names)) + (IF i = 1 THEN len % Len(names) ELSE 0)

\* ... then share the data out over those of them that are still known ...
BondedSplit(t) ==
  /\ call[t].next = "split"
  /\ LET names == call[t].names
     IN sent' = [n \in ToSet(names) \cap known |->
                   Chunk(names, call[t].len, CHOOSE i \in 1..Len(names) : names[i] = n)]
  /\ call' = [call EXCEPT ![t].next = "total", ![t].names = <<>>]
  /\ UNCHANGED <<known, active, credited, totalSent, changes, overlapped>>

\* ... and count it, all of it.
CountTotal(t) ==
  /\ call[t].next = "total"
  /\ totalSent' = totalSent + call[t].len
  /\ Returns(t)
  /\ UNCHANGED <<known, active, sent, credited, changes, overlapped>>

\* send: the path of the lowest round trip, whichever of them the map yields ...
SendPick(t, len) ==
  /\ call[t] = NoCall /\ totalSent + Sending + len <= MaxTotal
  /\ \E n \in known :
       /\ \A m \in known : Rtt[n] <= Rtt[m]
       /\ Begins(t, "credit", <<n>>, len)
  /\ UNCHANGED <<known, active, sent, credited, totalSent, changes, overlapped>>

\* Mutant of CreditsPath: the chosen path is credited although it left the map meanwhile.
CreditsAny(n) == TRUE

CreditsPath(n) == n \in known

\* ... and, under the lock taken again, its counter if there is one of that
\* name; then the total, as above.
SendCredit(t) ==
  /\ call[t].next = "credit"
  /\ LET n == call[t].names[1]
     IN credited' = IF CreditsPath(n) THEN [credited EXCEPT ![n] = @ + call[t].len]
                    ELSE credited
  /\ call' = [call EXCEPT ![t].next = "total"]
  /\ UNCHANGED <<known, active, sent, totalSent, changes, overlapped>>

MultipathNext ==
  \E t \in MpTasks :
    \/ \E i \in Interfaces : AddKnown(t, i) \/ RemoveKnown(t, i)
    \/ AddActive(t) \/ RemoveActive(t)
    \/ \E len \in DataLens : BondedSnapshot(t, len) \/ SendPick(t, len)
    \/ BondedSplit(t) \/ SendCredit(t) \/ CountTotal(t)

-----------------------------------------------------------------------------
\* The two collections agree on an interface that no call is changing: it is
\* bonded exactly if it is known.  It does not hold once an add_path and a
\* remove_path of it have overlapped: the vector is then updated in the other
\* order than the map.
BondedIsKnown ==
  \A i \in Interfaces \ Changing({"add", "remove"}) : i \in ToSet(active) <=> i \in known

\* What the two locks do keep: no interface is ever listed twice, and the
\* collections agree on every interface that no call is changing and whose last
\* add_path and remove_path did not overlap; the next call that overlaps no
\* other one and changes the map repairs the rest.
PathsAgree ==
  /\ IsInjective(active)
  /\ \A i \in Interfaces \ (overlapped \cup Changing({"add", "remove"})) :
        i \in ToSet(active) <=> i \in known

\* Every byte of a bonded send is on exactly one interface, or the list it read
\* names one that the map no longer has; then the shares of those are on none,
\* and total_bytes counts them all the same.
BondedConserves ==
  [][\A t \in MpTasks :
       call[t].next = "split" /\ call'[t].next = "total" =>
         LET handed == MapThenSumSet(LAMBDA n : sent'[n], DOMAIN sent')
         IN IF ToSet(call[t].names) \subseteq known THEN handed = call[t].len
            ELSE handed < call[t].len \/ call[t].len < Len(call[t].names)]_multipathVars

\* Only a path of the session carries a count, and what all paths carry is never
\* more than total_bytes and what senders are about to add to it, whatever was
\* added, removed and added again while they were between their locks.  (Between
\* the two the paths may be ahead of the total, and a path added again under its
\* old name is credited with a send that had picked the one before.)
PathBytesWithinTotal ==
  /\ \A n \in Interfaces \ known : credited[n] = 0
  /\ MapThenSumSet(LAMBDA n : credited[n], Interfaces) <=
       totalSent + MapThenSumSet(LAMBDA t : IF call[t].next = "total" THEN call[t].len ELSE 0, MpTasks)
------------------------------------------------------------------------------
(* The loopback buffer of unacknowledged segments (loopback_buffer.rs).    *)
(* buffer_segment draws its sequence number before it takes the buffer's   *)
(* lock, so writers that run together may enter out of order.              *)

CONSTANTS LoopCapacity, LoopWriters,
          MaxSegments, \* bound on the segments buffered
          MaxRepeats   \* bound on the acknowledgements repeated

ASSUME LoopbackAssumption ==
  LoopCapacity \in Nat \ {0} /\ MaxSegments \in Nat /\ MaxRepeats \in Nat

VARIABLES
  segments,    \* the deque: [seq, acked], oldest first
  nextSeq,
  drawn,       \* writer -> the number it holds while waiting for the lock, or 0
  acks,        \* sequence numbers some ack call has named while buffered
  lost,        \* sequence numbers total_dropped counts
  pruned,      \* sequence numbers prune_acked removed
  repeats,     \* acknowledgements of a segment that had one already (history)
  totals       \* [buffered, acked, dropped]

loopVars == <<segments, nextSeq, drawn, acks, lost, pruned, repeats, totals>>

LoopTypeOK ==
  /\ segments \in Seq([seq : Nat, acked : BOOLEAN])
  /\ nextSeq \in 1..(MaxSegments + 1)
  /\ drawn \in [LoopWriters -> 0..MaxSegments]
  /\ totals \in [buffered : Nat, acked : Nat, dropped : Nat] /\ repeats \in 0..MaxRepeats

LoopInit ==
  /\ segments = <<>> /\ nextSeq = 1
  /\ drawn = [w \in LoopWriters |-> 0]
  /\ acks = {} /\ lost = {} /\ pruned = {} /\ repeats = 0
  /\ totals = [buffered |-> 0, acked |-> 0, dropped |-> 0]

Buffered == {segments[i].seq : i \in DOMAIN segments}

DrawSeq(w) ==
  /\ drawn[w] = 0 /\ nextSeq <= MaxSegments
  /\ drawn' = [drawn EXCEPT ![w] = nextSeq]
  /\ nextSeq' = nextSeq + 1
  /\ UNCHANGED <<segments, acks, lost, pruned, repeats, totals>>

\* Mutant of Full: one segment more than the capacity.
FullLate == Len(segments) > LoopCapacity

Full == Len(segments) >= LoopCapacity

InsertSegment(w) ==
  LET room == IF Full THEN Tail(segments) ELSE segments IN
  /\ drawn[w] # 0
  /\ segments' = Append(room, [seq |-> drawn[w], acked |-> FALSE])
  /\ lost' = IF Full THEN lost \cup {segments[1].seq} ELSE lost
  /\ totals' = [totals EXCEPT !.buffered = @ + 1, !.dropped = @ + (IF Full THEN 1 ELSE 0)]
  /\ drawn' = [drawn EXCEPT ![w] = 0]
  /\ UNCHANGED <<nextSeq, acks, pruned, repeats>>

Unacknowledged == {seg.seq : seg \in {segments[i] : i \in {j \in DOMAIN segments : ~segments[j].acked}}}

Acknowledge(named) ==
  /\ segments' = [i \in DOMAIN segments |->
        IF segments[i].seq \in named THEN [segments[i] EXCEPT !.acked = TRUE]
        ELSE segments[i]]
  /\ acks' = acks \cup (named \cap Buffered)
  /\ UNCHANGED <<nextSeq, drawn, lost, pruned>>

\* ack counts a segment each time it is named, ack_up_to the first time only.
Ack(n) ==
  /\ n \in Buffered
  /\ Acknowledge({n})
  /\ totals' = [totals EXCEPT !.acked = @ + 1]
  /\ repeats' = IF n \in Unacknowledged THEN repeats ELSE repeats + 1
  /\ repeats' <= MaxRepeats

\* Mutant of AckUpTo: the segments are counted whether or not they had been acknowledged.
AckUpToAll(n) ==
  /\ Acknowledge(1..n)
  /\ totals' = [totals EXCEPT !.acked = @ + Cardinality(1..n \cap Buffered)]
  /\ UNCHANGED repeats

AckUpTo(n) ==
  /\ Acknowledge(1..n)
  /\ totals' = [totals EXCEPT !.acked = @ + Cardinality(1..n \cap Unacknowledged)]
  /\ UNCHANGED repeats

\* Mutant of PruneKeeps: age alone decides.
PruneKeepsAny(seg, old) == seg.seq \notin old

\* retain keeps what is unacknowledged or younger than the age given: any
\* subset of the segments may be old enough to go.
PruneKeeps(seg, old) == seg.acked => seg.seq \notin old

PruneAcked(old) ==
  /\ segments' = SelectSeq(segments, LAMBDA seg : PruneKeeps(seg, old))
  /\ pruned' = pruned \cup {n \in Buffered :
        \A i \in DOMAIN segments' : segments'[i].seq # n}
  /\ UNCHANGED <<nextSeq, drawn, acks, lost, repeats, totals>>

LoopNext ==
  \/ \E w \in LoopWriters : DrawSeq(w) \/ InsertSegment(w)
  \/ \E n \in 1..MaxSegments : Ack(n) \/ AckUpTo(n)
  \/ \E old \in SUBSET Buffered : PruneAcked(old)

\* unacked_segments, what replay_unacked re-injects after a micro-failover.
Unacked == SelectSeq(segments, LAMBDA seg : ~seg.acked)

-----------------------------------------------------------------------------
\* replay_unacked misses nothing: every segment a writer has entered is
\* replayed, acknowledged, or was pushed out by the capacity.  (Writers enter out
\* of order, so what is pushed out is the first entered, not always the lowest
\* number: EvictsLowest does not hold.)
ReplayComplete ==
  \A n \in 1..(nextSeq - 1) :
    \/ \E w \in LoopWriters : drawn[w] = n
    \/ n \in acks \cup lost
    \/ \E i \in DOMAIN Unacked : Unacked[i].seq = n

\* "Drop oldest if full" (buffer_segment), read by sequence number.
EvictsLowest == \A n \in lost, m \in Buffered : n < m

\* The buffer never outgrows its capacity, and its counters account for every
\* segment under any interleaving: buffered = held + dropped + pruned, and
\* acked = segments acknowledged + acknowledgements repeated by ack.
LoopbackAccounted ==
  /\ Len(segments) <= LoopCapacity
  /\ totals.buffered = Len(segments) + totals.dropped + Cardinality(pruned)
  /\ totals.acked = Cardinality(acks) + repeats
==============================================================================
