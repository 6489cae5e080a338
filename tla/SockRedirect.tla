---------------------------- MODULE SockRedirect ----------------------------
(***************************************************************************)
(* The socket redirect manager (core-supervisor/src/sockops.rs) and, below,*)
(* the attachment of the XDP program it works beside and the migration of  *)
(* sockets to their shadows.  The three share no state.                    *)
(***************************************************************************)
EXTENDS Integers, Sequences, FiniteSets, FiniteSetsExt

(* The redirect.  The attachment and the socket map are behind two locks   *)
(* and the counters are atomics, so one redirect is five steps that other  *)
(* threads may separate.  Every message is one unit long.                  *)

CONSTANTS SockKeys, Redirectors, MaxRedirects

VARIABLES
  sockets,        \* the sockhash: key -> bytes_redirected
  attachment,     \* SockHashAttachment
  sockStats,      \* the atomic counters
  redirector,     \* per thread, the redirect it is executing
  detacher,       \* whether detach has cleared the map but not yet detached
  redirected      \* redirects that returned Ok

sockVars == <<sockets, attachment, sockStats, redirector, detacher, redirected>>

Attachments == {"Detached", "KernelAttached", "UserspaceFallback"}
Resting == [pc |-> "idle", saw |-> "Detached", dsts |-> <<>>, src |-> CHOOSE k \in SockKeys : TRUE]

SockTypeOK ==
  /\ attachment \in Attachments /\ DOMAIN sockets \subseteq SockKeys
  /\ \A t \in Redirectors : redirector[t].pc \in {"idle", "read", "verified", "counted", "credit"}

SockInit ==
  /\ sockets = <<>> /\ attachment = "Detached" /\ detacher = FALSE
  /\ sockStats = [redirects |-> 0, fallback |-> 0, bytes |-> 0]
  /\ redirector = [t \in Redirectors |-> Resting]
  /\ redirected = 0

PrepareForStrategy(fallback) ==
  /\ attachment' = IF fallback THEN "UserspaceFallback" ELSE "Detached"
  /\ UNCHANGED <<sockets, sockStats, redirector, detacher, redirected>>

MarkKernelAttached ==
  /\ attachment' = "KernelAttached"
  /\ UNCHANGED <<sockets, sockStats, redirector, detacher, redirected>>

\* detach takes the two locks one after the other.
DetachClear ==
  /\ ~detacher /\ detacher' = TRUE /\ sockets' = <<>>
  /\ UNCHANGED <<attachment, sockStats, redirector, redirected>>

DetachDone ==
  /\ detacher /\ detacher' = FALSE /\ attachment' = "Detached"
  /\ UNCHANGED <<sockets, sockStats, redirector, redirected>>

AddSocket(k) ==
  /\ k \notin DOMAIN sockets
  /\ sockets' = [j \in DOMAIN sockets \cup {k} |-> IF j = k THEN 0 ELSE sockets[j]]
  /\ UNCHANGED <<attachment, sockStats, redirector, detacher, redirected>>

RemoveSocket(k) ==
  /\ k \in DOMAIN sockets
  /\ sockets' = [j \in DOMAIN sockets \ {k} |-> sockets[j]]
  /\ UNCHANGED <<attachment, sockStats, redirector, detacher, redirected>>

Moves(t, r) == redirector' = [redirector EXCEPT ![t] = r]

\* Messages still to be counted.
Pending == MapThenSumSet(LAMBDA t : Len(redirector[t].dsts), Redirectors)

\* redirect_msg, or redirect_multipath when several destinations are given.
RedirectMsg(t, src, dsts) ==
  /\ redirector[t].pc = "idle" /\ dsts # <<>>
  /\ sockStats.redirects + Pending + Len(dsts) <= MaxRedirects
  /\ Moves(t, IF attachment = "Detached" THEN Resting   \* Err(MapNotAttached)
              ELSE [pc |-> "read", saw |-> attachment, src |-> src, dsts |-> dsts])
  /\ UNCHANGED <<sockets, attachment, sockStats, detacher, redirected>>

\* Both sockets must be in the map; a missing one ends a multipath send too.
VerifySockets(t) ==
  /\ redirector[t].pc = "read"
  /\ Moves(t, IF {redirector[t].src, Head(redirector[t].dsts)} \subseteq DOMAIN sockets
              THEN [redirector[t] EXCEPT !.pc = "verified"] ELSE Resting)
  /\ UNCHANGED <<sockets, attachment, sockStats, detacher, redirected>>

CountRedirect(t) ==
  /\ redirector[t].pc = "verified"
  /\ sockStats' = [sockStats EXCEPT !.redirects = @ + 1]
  /\ Moves(t, [redirector[t] EXCEPT !.pc = "counted"])
  /\ UNCHANGED <<sockets, attachment, detacher, redirected>>

\* Mutant of CountPath: counting a redirect by the attachment there is now.
CountPathNow(t) ==
  /\ redirector[t].pc = "counted"
  /\ sockStats' = CASE attachment = "KernelAttached" -> [sockStats EXCEPT !.bytes = @ + 1]
                    [] attachment = "UserspaceFallback" -> [sockStats EXCEPT !.fallback = @ + 1]
                    [] OTHER -> sockStats
  /\ Moves(t, [redirector[t] EXCEPT !.pc = "credit"])
  /\ UNCHANGED <<sockets, attachment, detacher, redirected>>

\* A redirect is counted on the path it read when it began.
CountPath(t) ==
  /\ redirector[t].pc = "counted"
  /\ sockStats' = IF redirector[t].saw = "KernelAttached"
                  THEN [sockStats EXCEPT !.bytes = @ + 1] ELSE [sockStats EXCEPT !.fallback = @ + 1]
  /\ Moves(t, [redirector[t] EXCEPT !.pc = "credit"])
  /\ UNCHANGED <<sockets, attachment, detacher, redirected>>

\* The rest of a multipath send, whose next message reads the attachment again.
Onward(r) ==
  IF Len(r.dsts) = 1 \/ attachment = "Detached" THEN Resting
  ELSE [r EXCEPT !.pc = "read", !.saw = attachment, !.dsts = Tail(@)]

\* Mutant of CreditSocket: crediting every message to the source.
CreditSource(t) ==
  LET k == redirector[t].src
  IN /\ redirector[t].pc = "credit"
     /\ sockets' = IF k \in DOMAIN sockets THEN [sockets EXCEPT ![k] = @ + 1] ELSE sockets
     /\ redirected' = redirected + 1
     /\ Moves(t, Onward(redirector[t]))
     /\ UNCHANGED <<attachment, sockStats, detacher>>

CreditSocket(t) ==
  LET k == Head(redirector[t].dsts)
  IN /\ redirector[t].pc = "credit"
     /\ sockets' = IF k \in DOMAIN sockets THEN [sockets EXCEPT ![k] = @ + 1] ELSE sockets
     /\ redirected' = redirected + 1
     /\ Moves(t, Onward(redirector[t]))
     /\ UNCHANGED <<attachment, sockStats, detacher>>

Destinations == UNION {[1..n -> SockKeys] : n \in 1..2}

SockNext ==
  \/ \E b \in BOOLEAN : PrepareForStrategy(b)
  \/ MarkKernelAttached \/ DetachClear \/ DetachDone
  \/ \E k \in SockKeys : AddSocket(k) \/ RemoveSocket(k)
  \/ \E t \in Redirectors :
       \/ \E s \in SockKeys, d \in Destinations : RedirectMsg(t, s, d)
       \/ VerifySockets(t) \/ CountRedirect(t) \/ CountPath(t) \/ CreditSocket(t)

----------------------------------------------------------------------------
InStep(p) == Cardinality({t \in Redirectors : redirector[t].pc = p})

(* Every redirect is on exactly one path.  total_redirects is the messages *)
(* sent over the kernel plus the fallback ones plus those a thread has     *)
(* counted and not yet classified, whatever prepare_for_strategy,          *)
(* mark_kernel_attached and detach do in between: the fallback is          *)
(* "deliberately counted separately and never advertised as zero-copy".    *)
RedirectsPartition ==
  /\ sockStats.redirects = sockStats.bytes + sockStats.fallback + InStep("counted")
  /\ sockStats.redirects = redirected + InStep("counted") + InStep("credit")

(* A socket's bytes_redirected moves only by the messages sent to it: a    *)
(* step that credits a socket is the last step of a redirect whose         *)
(* destination it is.                                                      *)
CreditedToDestination ==
  [][\A k \in DOMAIN sockets : k \in DOMAIN sockets' /\ sockets'[k] > sockets[k] =>
       \E t \in Redirectors : redirector[t].pc = "credit" /\ Head(redirector[t].dsts) = k]_sockVars

(* "Clearing the userspace registry prevents a stale redirect after        *)
(* SIGTERM": while the manager is detached no redirect passes the socket   *)
(* check.                                                                  *)
NoStaleRedirect ==
  [][\A t \in Redirectors :
       redirector[t].pc = "read" /\ redirector'[t].pc = "verified" => attachment # "Detached"]_sockVars

----------------------------------------------------------------------------
(* The XDP engine (core-supervisor/src/xdp_engine.rs).  detect_and_attach  *)
(* looks at the interface, then writes the adapter and the mode under two  *)
(* locks; process_packet reads the mode and stores its latency later.      *)

CONSTANT MaxXdpCalls   \* bound on the calls made

VARIABLES
  xdpAdapter,     \* the adapter attached to: {} or {[veth, driver, mount, caps]}
  xdpMode,        \* active_mode
  xdpLatency,     \* avg_latency_ns, in microseconds
  xdpCounts,      \* [calls, packets, fallbacks]
  xdpCaller,      \* per thread, its call: [pc, adapter, mode]
  xdpCrossed      \* whether two attachments have crossed (history)

xdpVars == <<xdpAdapter, xdpMode, xdpLatency, xdpCounts, xdpCaller, xdpCrossed>>

XdpIdle == [pc |-> "idle", adapter |-> {}, mode |-> "None"]

XdpInit ==
  /\ xdpAdapter = {} /\ xdpMode = "None" /\ xdpLatency = 0 /\ xdpCrossed = FALSE
  /\ xdpCounts = [calls |-> 0, packets |-> 0, fallbacks |-> 0]
  /\ xdpCaller = [t \in Redirectors |-> XdpIdle]

XdpTypeOK == xdpMode \in {"Driver", "Generic", "None"} /\ xdpLatency \in {0, 50, 500, 2000}

\* By the interface's name: a veth, the restricted one, one that only contains
\* "veth", and any other.
XdpInterfaces == {"veth0", "restricted", "br-veth", "eth0"}
DetectAdapter(i) ==
  [veth |-> i \in {"veth0", "br-veth"}, driver |-> i # "veth0",
   mount |-> i # "restricted", caps |-> i # "restricted"]

\* Mutant of ModeFor: a veth whose adapter claims driver support runs in driver mode.
ModeForDriverFirst(a) ==
  CASE ~a.caps \/ ~a.mount -> "None"
    [] a.caps /\ a.mount /\ a.driver -> "Driver"
    [] OTHER -> "Generic"

ModeFor(a) ==
  CASE ~a.caps \/ ~a.mount -> "None"
    [] a.caps /\ a.mount /\ ~a.veth /\ a.driver -> "Driver"
    [] OTHER -> "Generic"

LatencyOf(mode) == CASE mode = "Driver" -> 50 [] mode = "Generic" -> 500 [] mode = "None" -> 2000

XdpMoves(t, pc, adapter, mode) ==
  xdpCaller' = [xdpCaller EXCEPT ![t] = [pc |-> pc, adapter |-> adapter, mode |-> mode]]

DetectAndAttach(t, i) ==
  LET a == DetectAdapter(i)
  IN /\ xdpCaller[t].pc = "idle" /\ xdpCounts.calls < MaxXdpCalls
     /\ XdpMoves(t, "adapter", {a}, ModeFor(a))
     /\ xdpCounts' = [xdpCounts EXCEPT !.calls = @ + 1, !.fallbacks = @ + IF ModeFor(a) = "None" THEN 1 ELSE 0]
     /\ UNCHANGED <<xdpAdapter, xdpMode, xdpLatency, xdpCrossed>>

AttachAdapter(t) ==
  /\ xdpCaller[t].pc = "adapter" /\ xdpAdapter' = xdpCaller[t].adapter
  /\ XdpMoves(t, "mode", xdpCaller[t].adapter, xdpCaller[t].mode)
  /\ xdpCrossed' = (\E u \in Redirectors : xdpCaller[u].pc = "mode")
  /\ UNCHANGED <<xdpMode, xdpLatency, xdpCounts>>

AttachMode(t) ==
  /\ xdpCaller[t].pc = "mode" /\ xdpMode' = xdpCaller[t].mode /\ XdpMoves(t, "idle", {}, "None")
  /\ UNCHANGED <<xdpAdapter, xdpLatency, xdpCounts, xdpCrossed>>

ProcessPacket(t) ==
  /\ xdpCaller[t].pc = "idle" /\ xdpCounts.calls < MaxXdpCalls
  /\ XdpMoves(t, "latency", xdpAdapter, xdpMode)
  /\ xdpCounts' = [xdpCounts EXCEPT !.calls = @ + 1, !.packets = @ + 1]
  /\ UNCHANGED <<xdpAdapter, xdpMode, xdpLatency, xdpCrossed>>

StoreLatency(t) ==
  /\ xdpCaller[t].pc = "latency" /\ xdpLatency' = LatencyOf(xdpCaller[t].mode)
  /\ XdpMoves(t, "idle", {}, "None")
  /\ UNCHANGED <<xdpAdapter, xdpMode, xdpCounts, xdpCrossed>>

XdpNext ==
  \E t \in Redirectors :
    \/ \E i \in XdpInterfaces : DetectAndAttach(t, i)
    \/ AttachAdapter(t) \/ AttachMode(t) \/ ProcessPacket(t) \/ StoreLatency(t)

(* The mode in force is one the attached adapter can run, once no attach   *)
(* is half done: no XDP without the capability and the bpf mount, driver   *)
(* mode never on a veth ("veth typically only supports generic mode").     *)
(* Excepted are two attachments that crossed between the two locks.        *)
XdpModeFits ==
  (\A t \in Redirectors : xdpCaller[t].pc # "mode") /\ ~xdpCrossed =>
    \A a \in xdpAdapter : /\ xdpMode = "None" <=> ~a.caps \/ ~a.mount
                          /\ xdpMode = "Driver" => ~a.veth
------------------------------------------------------------------------------
(* Socket migration (core-supervisor/src/shadow_socket.rs).  The sockets   *)
(* and their shadows are two maps behind two locks that no call holds      *)
(* together, so clone_socket and complete_migration are several steps.     *)

CONSTANTS Fds, Migrators, MaxShadows

VARIABLES
  originals,      \* original_sockets: fd -> TcpState
  shadows,        \* shadows: fd -> shadow_fd
  nextShadow,     \* next_fd, counted from 0
  migrator        \* per thread: [pc, fd, shadow]

shadowVars == <<originals, shadows, nextShadow, migrator>>

Still == [pc |-> "idle", fd |-> CHOOSE f \in Fds : TRUE, shadow |-> 0]
Put(f, k, v) == [j \in DOMAIN f \cup {k} |-> IF j = k THEN v ELSE f[j]]
Drop(f, k) == [j \in DOMAIN f \ {k} |-> f[j]]

ShadowTypeOK ==
  /\ DOMAIN originals \subseteq Fds /\ DOMAIN shadows \subseteq Fds
  /\ \A f \in DOMAIN originals : originals[f] \in {"Established", "Migrating"}
  /\ nextShadow \in 0..MaxShadows

ShadowInit ==
  /\ originals = <<>> /\ shadows = <<>> /\ nextShadow = 0
  /\ migrator = [t \in Migrators |-> Still]

Goes(t, pc, fd, shadow) == migrator' = [migrator EXCEPT ![t] = [pc |-> pc, fd |-> fd, shadow |-> shadow]]

RegisterSocket(f) ==
  /\ originals' = Put(originals, f, "Established")
  /\ UNCHANGED <<shadows, nextShadow, migrator>>

\* clone_socket: look the socket up and draw a shadow fd.
CloneBegin(t, f) ==
  /\ migrator[t].pc = "idle" /\ f \in DOMAIN originals /\ nextShadow < MaxShadows
  /\ nextShadow' = nextShadow + 1
  /\ Goes(t, "mark", f, nextShadow)
  /\ UNCHANGED <<originals, shadows>>

\* The shadow before the mark.
CloneMarkLate(t) ==
  /\ migrator[t].pc = "mark"
  /\ shadows' = Put(shadows, migrator[t].fd, migrator[t].shadow)
  /\ Goes(t, "insert", migrator[t].fd, migrator[t].shadow)
  /\ UNCHANGED <<originals, nextShadow>>

CloneMark(t) ==
  /\ migrator[t].pc = "mark"
  /\ originals' = IF migrator[t].fd \in DOMAIN originals
                  THEN [originals EXCEPT ![migrator[t].fd] = "Migrating"] ELSE originals
  /\ Goes(t, "insert", migrator[t].fd, migrator[t].shadow)
  /\ UNCHANGED <<shadows, nextShadow>>

\* ... and the mark after the shadow.
CloneInsertLate(t) ==
  /\ migrator[t].pc = "insert"
  /\ originals' = IF migrator[t].fd \in DOMAIN originals
                  THEN [originals EXCEPT ![migrator[t].fd] = "Migrating"] ELSE originals
  /\ Goes(t, "idle", migrator[t].fd, 0)
  /\ UNCHANGED <<shadows, nextShadow>>

CloneInsert(t) ==
  /\ migrator[t].pc = "insert"
  /\ shadows' = Put(shadows, migrator[t].fd, migrator[t].shadow)
  /\ Goes(t, "idle", migrator[t].fd, 0)
  /\ UNCHANGED <<originals, nextShadow>>

\* Mutant of CloneSteps: the shadow is inserted before the original is marked.
CloneStepsSwapped(t) == CloneMarkLate(t) \/ CloneInsertLate(t)

\* The two steps of clone_socket.
CloneSteps(t) == CloneMark(t) \/ CloneInsert(t)

\* complete_migration: take the shadow, then promote it under the original fd.
CompleteTake(t, f) ==
  /\ migrator[t].pc = "idle" /\ f \in DOMAIN shadows
  /\ shadows' = Drop(shadows, f)
  /\ Goes(t, "promote", f, shadows[f])
  /\ UNCHANGED <<originals, nextShadow>>

CompletePromote(t) ==
  /\ migrator[t].pc = "promote"
  /\ originals' = Put(originals, migrator[t].fd, "Established")
  /\ Goes(t, "idle", migrator[t].fd, 0)
  /\ UNCHANGED <<shadows, nextShadow>>

ShadowNext ==
  \/ \E f \in Fds : RegisterSocket(f)
  \/ \E t \in Migrators :
       \/ \E f \in Fds : CloneBegin(t, f) \/ CompleteTake(t, f)
       \/ CloneSteps(t) \/ CompletePromote(t)

----------------------------------------------------------------------------
(* No socket is left Migrating with nothing to finish it: while no call is *)
(* under way a socket in that state has a shadow complete_migration can    *)
(* promote, however clones and completions of the same fd overlapped.      *)
NoStuckMigration ==
  (\A t \in Migrators : migrator[t].pc = "idle") =>
    \A f \in DOMAIN originals : originals[f] = "Migrating" => f \in DOMAIN shadows
==============================================================================
