--------------------------- MODULE SessionManager ---------------------------
(***************************************************************************)
(* The control plane's session state (control-plane/internal/store:        *)
(* session_manager.go over the statements of postgres.go): Postgres is the *)
(* source of truth, Redis a cache that is written on a best-effort basis.  *)
(* A mutex per session serialises create, heartbeat, migration and close;  *)
(* GetSession takes none.  Each statement sent to a store is one step, and *)
(* may fail.  A manager without Redis is one whose every Redis command     *)
(* fails.  bytes stands for both byte counters, which are treated alike.   *)
(***************************************************************************)
EXTENDS Integers, FiniteSets

CONSTANTS
  SessionIds,
  SessionNodes,      \* nodes a session may be on
  QuicSessions,      \* sessions of a native QUIC protocol with a connection id
  SessionCallers,    \* goroutines
  MaxSessionBytes,   \* bound on the byte counters reported
  MaxSessionCalls,   \* bound on the calls made
  MaxStoreFaults     \* bound on failing statements and commands

VARIABLES
  rows,           \* the sessions table: id -> row
  cached,         \* aether:session:<id> in Redis
  userSessions,   \* aether:user_sessions:<user> in Redis (one user)
  stripes,        \* id -> the goroutines holding its mutex (none or one)
  calls,          \* goroutine -> its call in progress
  sessionCalls,   \* calls made
  storeFaults,    \* failures so far
  behind          \* sessions whose cached copy was left behind the table (history)

ASSUME SessionAssumption == QuicSessions \subseteq SessionIds /\ MaxSessionBytes \in Nat

sessionVars == <<rows, cached, userSessions, stripes, calls, sessionCalls, storeFaults, behind>>

NoRow == [node |-> "", bytes |-> 0, active |-> FALSE, migrated |-> -1]
NoSessionCall ==
  [op |-> "none", pc |-> "idle", id |-> "", node |-> "", bytes |-> 0, s |-> NoRow, todo |-> {}]

Row == [node : SessionNodes, bytes : 0..MaxSessionBytes, active : BOOLEAN, migrated : Nat]

SessionTypeOK ==
  /\ rows \in [SessionIds -> Row \cup {NoRow}] /\ cached \in [SessionIds -> Row \cup {NoRow}]
  /\ userSessions \subseteq SessionIds /\ behind \subseteq SessionIds
  /\ \A id \in SessionIds : Cardinality(stripes[id]) <= 1
  /\ sessionCalls \in 0..MaxSessionCalls /\ storeFaults \in 0..MaxStoreFaults

SessionInit ==
  /\ rows = [id \in SessionIds |-> NoRow] /\ cached = [id \in SessionIds |-> NoRow]
  /\ userSessions = {} /\ stripes = [id \in SessionIds |-> {}]
  /\ calls = [t \in SessionCallers |-> NoSessionCall]
  /\ sessionCalls = 0 /\ storeFaults = 0 /\ behind = {}

----------------------------------------------------------------------------
(* Calls, the session's mutex and how a call ends.                         *)

\* The fault budget after a command that fails or not.
Faulty(failed) ==
  /\ failed => storeFaults < MaxStoreFaults
  /\ storeFaults' = IF failed THEN storeFaults + 1 ELSE storeFaults

Call(op, pc, id) == [NoSessionCall EXCEPT !.op = op, !.pc = pc, !.id = id]

Begin(t, call) ==
  /\ calls[t].pc = "idle" /\ sessionCalls < MaxSessionCalls
  /\ sessionCalls' = sessionCalls + 1
  /\ calls' = [calls EXCEPT ![t] = call]
  /\ UNCHANGED <<rows, cached, userSessions, stripes, storeFaults, behind>>

BeginGet(t, id) == Begin(t, Call("get", "lookup", id))
BeginCreate(t, id, n) == Begin(t, [Call("create", "lock", id) EXCEPT !.node = n])
BeginHeartbeat(t, id, b) == Begin(t, [Call("heartbeat", "lock", id) EXCEPT !.bytes = b])
BeginMigrate(t, id, n) == Begin(t, [Call("migrate", "lock", id) EXCEPT !.node = n])
BeginClose(t, id) == Begin(t, Call("close", "lock", id))

\* AutoFailover lists the active rows; which of them are stale is a matter of time,
\* and the hash picks one of the healthy nodes the row is not on.
BeginFailover(t) ==
  LET movable == {id \in QuicSessions : rows[id].active}
  IN \E old \in (SUBSET movable) \ {{}} :
       \E to \in [old -> SessionNodes] :
         /\ \A id \in old : to[id] # rows[id].node
         /\ LET first == CHOOSE id \in old : TRUE
            IN Begin(t, [Call("migrate", "lock", first) EXCEPT !.node = to[first],
                                       !.todo = {<<id, to[id]>> : id \in old \ {first}}])

\* Mutant of StripeFree: the mutex is not asked for.
StripeFreeAlways(id) == TRUE

StripeFree(id) == stripes[id] = {}

Lock(t) ==
  /\ calls[t].pc = "lock" /\ StripeFree(calls[t].id)
  /\ stripes' = [stripes EXCEPT ![calls[t].id] = {t}]
  /\ calls' = [calls EXCEPT ![t].pc = IF calls[t].op = "create" THEN "save" ELSE "lookup"]
  /\ UNCHANGED <<rows, cached, userSessions, sessionCalls, storeFaults, behind>>

\* The call returns, with an answer or an error, and AutoFailover goes on to the next row.
Return(t) ==
  LET c == calls[t]
      next == CHOOSE x \in c.todo : TRUE
  IN /\ stripes' = [stripes EXCEPT ![c.id] = @ \ {t}]
     /\ calls' = [calls EXCEPT ![t] = IF c.todo = {} THEN NoSessionCall
                    ELSE [c EXCEPT !.pc = "lock", !.id = next[1], !.node = next[2],
                                   !.s = NoRow, !.todo = @ \ {next}]]

Continue(t, pc, s) ==
  /\ calls' = [calls EXCEPT ![t].pc = pc, ![t].s = s]
  /\ UNCHANGED stripes

----------------------------------------------------------------------------
(* GetSession: Redis, then Postgres, then back into Redis.                 *)

GotSession(t, s) == IF calls[t].op = "get" THEN Return(t) ELSE Continue(t, "have", s)

LookupCache(t, failed) ==
  LET c == calls[t]
  IN /\ c.pc = "lookup" /\ Faulty(failed)
     /\ IF failed \/ cached[c.id] = NoRow THEN Continue(t, "read", NoRow)
        ELSE GotSession(t, cached[c.id])
     /\ UNCHANGED <<rows, cached, userSessions, sessionCalls, behind>>

ReadRow(t, failed) ==
  LET c == calls[t]
  IN /\ c.pc = "read" /\ Faulty(failed)
     /\ IF failed \/ rows[c.id] = NoRow THEN Return(t) ELSE Continue(t, "fill", rows[c.id])
     /\ UNCHANGED <<rows, cached, userSessions, sessionCalls, behind>>

\* What t stores is out of date, or about to be: a close has emptied the cache already.
Overtaken(t) ==
  \/ calls[t].s # rows[calls[t].id]
  \/ \E u \in SessionCallers : calls[u].id = calls[t].id /\ calls[u].pc \in {"delist", "delete"}

FillCache(t, failed) ==
  LET c == calls[t]
  IN /\ c.pc = "fill" /\ Faulty(failed)
     /\ cached' = IF failed THEN cached ELSE [cached EXCEPT ![c.id] = c.s]
     /\ behind' = IF ~failed /\ Overtaken(t) THEN behind \cup {c.id} ELSE behind
     /\ GotSession(t, c.s)
     /\ UNCHANGED <<rows, userSessions, sessionCalls>>

----------------------------------------------------------------------------
(* What each call does with the session.  A failed statement ends it.      *)

\* SaveSession upserts the row; the call goes on at pc.
SaveRow(t, s, pc, failed) ==
  /\ Faulty(failed)
  /\ rows' = IF failed THEN rows ELSE [rows EXCEPT ![calls[t].id] = s]
  /\ IF failed THEN Return(t) ELSE Continue(t, pc, s)
  /\ UNCHANGED <<cached, userSessions, sessionCalls, behind>>

Refuse(t) == Return(t) /\ UNCHANGED <<rows, cached, userSessions, sessionCalls, storeFaults, behind>>

CreateSave(t, failed) ==
  /\ calls[t].pc = "save" /\ calls[t].op = "create"
  /\ SaveRow(t, [node |-> calls[t].node, bytes |-> 0, active |-> TRUE, migrated |-> 0], "cache", failed)

\* Mutant of MayReport: the counters are not compared.
MayReportAlways(c) == TRUE

MayReport(c) == c.bytes >= c.s.bytes

\* Heartbeat; UpdateBytes then writes the same counters once more.
HeartbeatSave(t, failed) ==
  LET c == calls[t]
  IN /\ c.pc = "have" /\ c.op = "heartbeat"
     /\ IF MayReport(c) THEN SaveRow(t, [c.s EXCEPT !.bytes = c.bytes], "cache", failed)
        ELSE ~failed /\ Refuse(t)

\* MigrateSession: an inactive session, one that cannot migrate and one that is there
\* already; else RecordMigration, which moves the row by itself.
MigrateRecord(t, failed) ==
  LET c == calls[t]
      moved == [c.s EXCEPT !.node = c.node, !.migrated = @ + 1]
  IN /\ c.pc = "have" /\ c.op = "migrate"
     /\ IF ~c.s.active \/ c.id \notin QuicSessions \/ c.s.node = c.node THEN ~failed /\ Refuse(t)
        ELSE /\ Faulty(failed)
             /\ IF failed \/ rows[c.id] = NoRow THEN Return(t) /\ UNCHANGED rows
                ELSE /\ rows' = [rows EXCEPT ![c.id].node = c.node, ![c.id].migrated = @ + 1]
                     /\ Continue(t, "save", moved)
             /\ UNCHANGED <<cached, userSessions, sessionCalls, behind>>

\* A migration that fails here has moved the row and leaves the cached copy behind.
MigrateSave(t, failed) ==
  LET c == calls[t]
  IN /\ c.pc = "save" /\ c.op = "migrate" /\ Faulty(failed)
     /\ rows' = IF failed THEN rows ELSE [rows EXCEPT ![c.id] = c.s]
     /\ behind' = IF failed /\ cached[c.id] # NoRow THEN behind \cup {c.id} ELSE behind
     /\ IF failed THEN Return(t) ELSE Continue(t, "cache", c.s)
     /\ UNCHANGED <<cached, userSessions, sessionCalls>>

\* The best-effort write at the end of create, heartbeat and migration.
CacheSession(t, failed) ==
  LET c == calls[t]
  IN /\ c.pc = "cache" /\ Faulty(failed)
     /\ cached' = IF failed THEN cached ELSE [cached EXCEPT ![c.id] = c.s]
     /\ behind' = IF failed /\ cached[c.id] \notin {NoRow, c.s} THEN behind \cup {c.id} ELSE behind
     /\ IF c.op = "create" THEN Continue(t, "enlist", c.s) ELSE Return(t)
     /\ UNCHANGED <<rows, userSessions, sessionCalls>>

\* SAdd.
EnlistSession(t, failed) ==
  /\ calls[t].pc = "enlist" /\ Faulty(failed)
  /\ userSessions' = IF failed THEN userSessions ELSE userSessions \cup {calls[t].id}
  /\ Return(t)
  /\ UNCHANGED <<rows, cached, sessionCalls, behind>>

\* Mutant of CloseSave: the cached copy is left to expire.
CloseSaveKeepsCache(t, failed) ==
  /\ calls[t].pc = "have" /\ calls[t].op = "close"
  /\ SaveRow(t, [calls[t].s EXCEPT !.active = FALSE], "delist", failed)

CloseSave(t, failed) ==
  /\ calls[t].pc = "have" /\ calls[t].op = "close"
  /\ SaveRow(t, [calls[t].s EXCEPT !.active = FALSE], "uncache", failed)

UncacheSession(t, failed) ==
  LET c == calls[t]
  IN /\ c.pc = "uncache" /\ Faulty(failed)
     /\ cached' = IF failed THEN cached ELSE [cached EXCEPT ![c.id] = NoRow]
     /\ behind' = IF failed /\ cached[c.id] # NoRow THEN behind \cup {c.id} ELSE behind
     /\ Continue(t, "delist", c.s)
     /\ UNCHANGED <<rows, userSessions, sessionCalls>>

\* SRem.
DelistSession(t, failed) ==
  /\ calls[t].pc = "delist" /\ Faulty(failed)
  /\ userSessions' = IF failed THEN userSessions ELSE userSessions \ {calls[t].id}
  /\ Continue(t, "delete", calls[t].s)
  /\ UNCHANGED <<rows, cached, sessionCalls, behind>>

DeleteRow(t, failed) ==
  /\ calls[t].pc = "delete" /\ Faulty(failed)
  /\ rows' = IF failed THEN rows ELSE [rows EXCEPT ![calls[t].id] = NoRow]
  /\ Return(t)
  /\ UNCHANGED <<cached, userSessions, sessionCalls, behind>>

\* An entry's 24 hours are over.
ExpireCache(id) ==
  /\ cached[id] # NoRow /\ cached' = [cached EXCEPT ![id] = NoRow]
  /\ UNCHANGED <<rows, userSessions, stripes, calls, sessionCalls, storeFaults, behind>>

SessionStep(t, failed) ==
  \/ LookupCache(t, failed) \/ ReadRow(t, failed) \/ FillCache(t, failed)
  \/ CreateSave(t, failed) \/ HeartbeatSave(t, failed)
  \/ MigrateRecord(t, failed) \/ MigrateSave(t, failed)
  \/ CacheSession(t, failed) \/ EnlistSession(t, failed)
  \/ CloseSave(t, failed) \/ UncacheSession(t, failed)
  \/ DelistSession(t, failed) \/ DeleteRow(t, failed)

SessionNext ==
  \/ \E t \in SessionCallers, id \in SessionIds :
       \/ BeginGet(t, id) \/ BeginClose(t, id)
       \/ \E n \in SessionNodes : BeginCreate(t, id, n) \/ BeginMigrate(t, id, n)
       \/ \E b \in 0..MaxSessionBytes : BeginHeartbeat(t, id, b)
  \/ \E t \in SessionCallers :
       BeginFailover(t) \/ Lock(t) \/ \E failed \in BOOLEAN : SessionStep(t, failed)
  \/ \E id \in SessionIds : ExpireCache(id)

SessionSpec == SessionInit /\ [][SessionNext]_sessionVars

----------------------------------------------------------------------------
\* While nobody works on a session, Redis holds nothing or what Postgres holds
\* ("Postgres as source of truth + Redis cache"), except after one of three
\* events that leave the copy behind for up to 24 hours: a cache command that
\* failed, a migration whose second statement failed, and a GetSession that
\* stores what it read although a close or an update has passed it meanwhile.
CacheAgreesWithTable ==
  \A id \in SessionIds \ behind : stripes[id] = {} => cached[id] \in {NoRow, rows[id]}

\* Who is at work in a step, if it is a call of that kind.
StepOf(ops) == \E t \in SessionCallers : calls[t].op \in ops /\ calls'[t] # calls[t]

\* What Postgres knows of a session whose copy was never left behind, in the
\* way CacheAgreesWithTable names, moves in one direction: only a migration
\* moves it to another node, its counters do not decrease and once deleted it
\* is back only by a new CreateSession.
TableMovesForward ==
  [][\A id \in SessionIds \ behind : rows'[id] # rows[id] /\ ~StepOf({"create"}) =>
       /\ rows[id] # NoRow
       /\ rows'[id] # NoRow =>
            /\ rows'[id].bytes >= rows[id].bytes
            /\ rows'[id].node # rows[id].node => StepOf({"migrate"})]_sessionVars

\* For every session whose copy was never left behind: reading through the cache
\* is as good as reading the table, and what a call writes after it has read is
\* not built on a value another call has replaced (GetSession, Heartbeat,
\* MigrateSession, CloseSession).  NodeNotResurrected is what fails for the rest.
SessionDiscipline == []CacheAgreesWithTable /\ TableMovesForward

\* The comment on stripes: locking "prevents concurrent heartbeat/migration
\* writes from resurrecting stale node state during a failover".  A row changes
\* its node by a migration or by being created, and by nothing else.
NodeNotResurrected ==
  [][\A id \in SessionIds :
       rows[id] # NoRow /\ rows'[id] # NoRow /\ rows'[id].node # rows[id].node =>
         StepOf({"migrate", "create"})]_sessionVars
=============================================================================
