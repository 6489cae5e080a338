# Formal models of the Aether-X data plane

TLA+ modules for the parts of this repository in which the order of events, a
limit or a byte format matters, the TLC runs that check them on small instances,
and TLAPS proofs of the results that hold for every instance. Paths are relative
to `src/`; short file names are those of `core-supervisor/src/`.

## The system and its modules

The supervisor process owns the cores it runs, a telemetry collector with a
durable spool, and the engines that keep traffic flowing: signals classify the
network, the integration reacts to them, the cadence paces probes, the seamless
controller and the last-resort tier switch transports. The anti-forgery library
and server issue and check tokens. The control plane, written in Go, reaches the
supervisor only over gRPC and keeps sessions in Postgres and Redis.

| Part | Code | Module |
|---|---|---|
| Store-and-forward queue | `store_and_forward.rs`, `main.rs` | `StoreAndForward`, `DurableQueue`; `StoreAndForwardProofs`, `SpoolProofs`, `DurableQueueProofs` |
| Core supervisor, managed processes | `supervisor.rs`, `core_adapters.rs` | `CoreSupervisor`, `ManagedProcessAdapter`; `CoreSupervisorProofs` |
| gRPC handlers over the mock core | `grpc.rs`, `supervisor.rs`, `core_adapters.rs` | `MockService` |
| Telemetry collector and stream | `telemetry.rs`, `grpc.rs` | `TelemetryStream`; `TelemetryProofs` |
| Start-up of both services | `main.rs`, `runtime_preflight.rs`, `cni_detector.rs`, `antiforgery-server/src/main.rs` | `Startup` |
| Isolation level, probe cadence | `isolation.rs`, `probe_cadence.rs` | `ProbeCadence` |
| Blackout reaction | `blackout.rs`, `advanced_integration.rs` | `AdvancedIntegration` |
| Failover, replay, seamless switching | `failover.rs`, `buffer_replay.rs`, `seamless.rs` | `FailoverBridge`, `SeamlessController`; `SeamlessProofs` |
| Last-resort tier and its race | `tor.rs`, `resilience.rs`, `dns_tunnel.rs`, `multipath.rs` | `LastResortTier`, `TransportRace` |
| Decision path | `decider.rs`, `policy.rs`, `anomaly_detector.rs`, `telemetry.rs` | `AdaptiveDecision` |
| Model registry | `model_registry.rs` | `ModelRegistry` |
| Live signals, forecast | `live_signals.rs`, `dpi_forecast.rs` | `LiveSignals`; the answers of the resolver in `WireCodecs` |
| Domestic intelligence | `domestic_intel.rs` | `DomesticIntel` |
| Reverse relay and fallback transports | `reverse_relay.rs`, `fallback_transport.rs` | `ReverseRelay` |
| Enterprise engine, deterministic fallback | `enterprise.rs`, `deterministic_fallback.rs` | `EnterpriseEngine` |
| QUIC migration and multipath, loopback buffer | `quic_migration.rs`, `mpquic.rs`, `loopback_buffer.rs` | `QuicPaths` |
| Staggered race | `happy_eyeballs.rs` | `HappyEyeballs` |
| Socket redirect, XDP attachment, socket migration | `sockops.rs`, `xdp_engine.rs`, `shadow_socket.rs` | `SockRedirect` |
| Whitelist, fronting, in-TLS sessions | `sni_whitelist.rs`, `domain_fronting.rs`, `in_tls.rs` | `FrontingWhitelist` |
| Probing defence | `active_defense.rs`, `active_probing_honeypot.rs` | `ProbeDefense` |
| Stack profiles, traffic morphing | `os_polymorphism.rs`, `tcp_polymorphism.rs`, `ai_dpi.rs`, `ai_morph.rs`, `chaff.rs` | `TrafficMorph` |
| Forward error correction | `fec_engine.rs` | `FecEngine` |
| Tunnel and hello formats | `fragmentation.rs`, `ebpf.rs`, `xdp_engine.rs`, `multi_tunnel.rs`, `icmp_tunnel.rs`, `doh_tunnel.rs`, `tls.rs` | `WireCodecs` |
| Panic wipe | `panic_wipe.rs` | `PanicWipe` |
| Zero-knowledge verifiers | `zkp_auth.rs`, `zk_auth.rs` | `ZkpVerifier` |
| Tokens, audit log, server; anti-replay, device limit | `antiforgery/src/{token,audit,zkp,replay,device}.rs`, `antiforgery-server/src/server.rs` | `TokenService` |
| Merkle trees, transparency log | `antiforgery/src/merkle.rs`, `transparency.rs` | `MerkleLog` |
| Session store (Go) | `control-plane/internal/store/{session_manager,postgres}.go` | `SessionManager` |
| Routing rules | `routing/src/`, `routing.rs` | `RouteRules` |

`PROJECT.json` lists every component with its files and maps every definition to
the lines it translates.

How the code becomes steps, in all modules: a critical section is one step. A
method that takes two locks one after the other, awaits, or updates several
atomics is as many steps, and every other thread may run between them. Time is a
step of its own, randomness a choice over the values it can take, the network a
process that cuts, delays, repeats or loses what it carries. Hashes and signatures
are symbolic: equal exactly if their inputs are. History variables are marked as
such where they are declared.

### StoreAndForward

`control`, `bulk`, `next_id`, `pending_bytes` and `stats` are the fields of
`Inner`; `disk` is the spool file; `recovered` is what `open` has parsed. The
mutex is released between the push of an item and the write of its record, and
between the draining of the lanes and the truncation of the file, so a call is
one step per critical section:

- `try_enqueue`: `RejectTooLarge`, or `EnqueueLock`, then `EvictBulk` repeatedly,
  then `RejectFull`, or `Push` followed by `AppendSpool` or `CompactSpool`;
- `flush`: `FlushDrain`, `FlushTruncate`; `persist`: `Persist`;
- restart: `Crash`, then `Open`, `RecoverItem` per record and `RecoverDone`, or
  `OpenFails` (`main` then uses a queue in memory).

A write cut short leaves a fragment ("torn") or a record without its newline
("bare"); the next line written after it becomes an invalid line. Every call
offers a payload of its own, so that a replay can be recognised. `used`, `acked`,
`evicted` and `settled` are history. Abstractions: sealing is readable or failed;
one rewrite fails to seal at most one item; a crash is of the process, not of the
machine (the code does not call fsync); `flush_count` is left out. `DurableQueue`
is the abstract queue a single-threaded caller may rely on.

### CoreSupervisor and ManagedProcessAdapter

`ManagedProcessAdapter` has the adapter's map (`entry`), the children (`proc`,
`owner`), the `lifecycle` mutex and the Arc each task holds (`grab`). `stop` and
`restart` are two steps (take out of the map; kill, and spawn). `health` is three
(`HealthGet`, `HealthWait`, `HealthAnswer`): the map may change between them. A
child dies with the last Arc that refers to it (`DropArcs`, `kill_on_drop`).

`CoreSupervisor` extends it with the records, the RPC handlers and the watchers.
Every await ends a step. A watcher keeps the record it started with, also after a
stop. `started_at.elapsed() < restart_window` is the flag `fresh`, which `Age`
takes away at any moment. `healthy()` holds the read guard of the shard during its
probe (`ShardFree`). `Cancel` drops a handler at an await point. Calls that return
an error at once (unknown kind, `drain = true`, stale revision) change nothing and
have no action. `healthy()` is modelled as one iteration of its loop per call.
`MockService` models the same RPCs over the mock core, whose entries outlive a
stop, together with `list_cores` and the health service.

### Continuity (`MCContinuity`)

`AdvancedIntegration` extends `LastResortTier` and `ProbeCadence`, and
`SeamlessController` extends `FailoverBridge` and holds the replay ring, as the
code composes them: `react_automatic` and `recover_automatic` are one step each (they
take `&mut self`), while the cadence, the registry and the bridge they share also
change between those steps. `set_level` and `note_failure` of the cadence take two
locks and are two steps; `switch_now` adds a standby and promotes it in two.
`TransportRace` counts time in ticks against the two timeouts of the race.

### Transports and services (`MCTransports`, `MCServices`)

`EnterpriseEngine` extends `ReverseRelay`: a tick walks the fallback chain, which has
a tunnel manager of its own, and then lets the relay reconnect; ticks overlap. The
other components share no state with one another. A behaviour of all of
them is an interleaving of behaviours of each, so a suite picks one in its initial
state (`focus`) and leaves the others at rest: every property is about the state
of one component (or of the engine and its relay), and no interleaving with another
can matter to it. The header of each
module says which locks separate its steps and what is abstracted.

## Runs

| Run | Instance | Shows |
|---|---|---|
| `saf_concurrent` | 2 threads, 3 payloads, 2 items / 3 bytes, EvictOldest, 1 fault, 1 crash; 2.2 M states | limits, byte and item counters, durability, no replay, the spool opens, the control lane only grows |
| `saf_calls_return` | the same without crashes, fair; 0.27 M | every call returns |
| `saf_sequential` | 1 thread, 4 payloads, RejectNew, 1 fault, 2 crashes; 0.7 M | file and memory agree, recovery keeps order, nothing doubled, acknowledged items survive |
| `saf_refines_durable_queue` | 1 thread, RejectNew, no fault, 2 crashes; 33 k | the queue implements `DurableQueue` |
| `sup_lifecycle` | 2 handlers, 2 records, 2 process slots, 1 fault, no restart by watchers; 3.1 M | no duplicate or lost child, and only a stop that removes a newer record makes one unreachable |
| `sup_live` | 1 handler, 1 record, 4 process slots, 1 restart by the watcher, 1 cancellation, no fault, fair; 73 k | no child escapes when a handler is dropped, the watcher keeps its budget, handlers return, watchers of stopped cores end |
| `continuity` | the seven continuity components; 1.4 M | escalation, recovery, switching and the race (below) |
| `transports` | eighteen transports and signals; 0.66 M | two-lock state, counters, data and verdicts (below) |
| `services` | fifteen services, records and formats; 0.28 M | delivery, truthfulness, single use, evidence, codecs (below) |

The properties of the last three runs are conjunctions: one conjunct per
component, defined and explained in the component's module, grouped by what they
promise. Each conjunct has its own mutation of the code that breaks it, defined in
the same module (`Mutant of ...`) and listed in `PROJECT.json` under the property it
belongs to. A violation names the conjunction; the last state shows the component.

| Property | Conjuncts |
|---|---|
| `NothingDelaysRecovery` (continuity) | `IntegratedViewsAgree`, `IntegratedRecoveryPrompt`, `ScheduleJustified` |
| `SwitchesSafe` (continuity) | `SwitchesAccounted`, `BridgeDrained`, `WarmBounded`, `ReplayWindow` |
| `ConnectionsEarned` (continuity) | `EveryAttemptOnce`, `WinnerFastestInTime`, `ConnectWithinTimeout`, `ActiveReallyConnected`, `CircuitsNotOverspent`, `BondShared`, `RegistryOrdered` |
| `BlackoutDiscipline` (continuity) | `LevelDiscipline`, `NoRetryStorm`, `DebouncedRise` |
| `TwoLockStateAgrees` (transports) | `ReportedTransportUp`, `PathsAgree`, `WhitelistAgrees`, `LayersAgree`, `XdpModeFits`, `NoStuckMigration` |
| `EventsCountedOnce` (transports) | `PathBytesWithinTotal`, `LoopbackAccounted`, `RedirectsPartition`, `InterceptionsAttributed`, `ProbedReportedOnce`, `SessionIdsUnique`, `IncrementalIdsDistinct` |
| `NothingLostOnTheWay` (transports) | `ReplayComplete`, `MorphKeepsBytes`, `FingerprintComplete`, `AnyKShardsDecode`, `LossCovered` |
| `VerdictsFollowEvidence` (transports) | `MigratedIsValidated`, `WinnerIsFirstSuccess`, `StepsExplainWinner`, `HearsayIsFirstHand`, `PeerInfluenceCapped`, `AttemptsReordered`, `ProbeNeedsHellos`, `RatesExact`, `AdviceHasEvidence`, `SustainedBlockAdvised`, `AdviceFollowsHistory`, `SeveredExactly`, `TimeoutNotInterference` |
| `StepsAreJustified` (transports) | `NoTunnelOverDeadKind`, `SettledBeforeNext`, `BondedConserves`, `CreditedToDestination`, `SwitchOnFreshEvidence` |
| `BacklogDelivered` (services) | `EventsAccounted`, `BacklogOnce`, `BacklogFirstInStream` |
| `ServicesTruthful` (services) | `ListenerGuarded`, `RefusedRunsNothing`, `FallbackExplained`, `SignerSurvivesRestart`, `ListedRuns`, `StartedOnce`, `RevisionsIncrease`, `PromotedEarned`, `CacheAgreesWithTable` |
| `SpentOnce` (services) | `AcceptedOnce`, `DeviceLimitHolds`, `RotationKeepsInFlight`, `SpentStaysSpent`, `AcceptedWasGood`, `WipedIsGone`, `DestroyedOnce` |
| `EvidenceHolds` (services) | `InclusionExact`, `ConsistencyExact`, `ReceiptsHold`, `ProofMatchesToken`, `EditSurfaces`, `IssuedVerifies`, `VerifiedWasIssued` |
| `CodecsExact` (services) | `ParsedExactly`, `PlanWithinHello`, `FragmentsRebuild`, `CascadeExact`, `IcmpExact`, `DohExact`, `HelloReadExactly`, `SuffixOnLabels`, `RouteByPriority` |
| `NothingUndone` (services) | `RolledBackStaysOut`, `TableMovesForward` |

Violated. A run that refutes a statement of the repository's own comments, quoted
under "findings" in `PROJECT.json`:

| Run | What happens |
|---|---|
| `saf_lost_item` | an item flushed between push and append is acknowledged and lost in a crash |
| `sup_restart_exited` | the probe removes the exited child, so the watcher's restart finds nothing |
| `session_resurrected` | a read that fetched the row before a migration caches it afterwards, and the next heartbeat saves the old node |

### Statements that do not hold and have no run

The modules also define the following, each with the comment or test it comes from.
TLC finds them violated when they are added to the run of their module
(`AdaptiveSupported` with 255 data shards, `LocalOutranksHearsay` with three devices,
`RevisionMonotonic` with `MaxRevision = 1`); the passing runs check what the code achieves.

| Property | Code | What happens |
|---|---|---|
| `DiskAgrees` under EvictOldest | `store_and_forward.rs` 487 | evictions followed by a refusal are not written to the file |
| `LaneOrder` with two threads | `store_and_forward.rs` 572 | records are appended in another order than their ids, and recovery keeps it |
| `RevisionMonotonic` | `supervisor.rs` 95 | overlapping starts and a stop put a registered core back to revision 0 |
| `AlwaysReachable` | `supervisor.rs` 72, 130 | a start dropped after the spawn leaves a child no RPC can reach; a stop removes, by id, the record of a start that followed it |
| `ProbeHarmless` | `core_adapters.rs` 464 | a probe of the old child removes and kills its replacement |
| `BacklogBeforeLive` | `telemetry.rs` 80 | a live event overtakes the spooled ones of its subscriber |
| `RecoveryNotDelayed` | `probe_cadence.rs` 284 | a failure that read the level before it fell is scheduled by the old level |
| `ProfileFollowsLevel` | `advanced_integration.rs` 150 | `recover_automatic` returns to Normal and leaves the profile of the blackout |
| `QueuedDataPreserved` | `advanced_integration.rs` 125 | the markers a reaction enqueues as Control evict the bulk data waiting |
| `RaceWithinTimeout` | `multipath.rs` 73 | the workers are joined after the deadline, so a slow connect prolongs the race |
| `WinnerIfAnySuccess` | `happy_eyeballs.rs` 139 | a success collected after the deadline is listed but does not win |
| `DisconnectBlamesCurrent` | `reverse_relay.rs` 150 | the failure is charged to the first of the chain, not to the transport in use |
| `FailedStaysOnOld` | `quic_migration.rs` 60 | validation has already replaced the path, and a failure does not restore it |
| `NoStaleRedirect` | `sockops.rs` 129 | the attachment is read before `detach`, the sockets, added again since, after it |
| `ProbeOnlyIncomplete` | `active_defense.rs` 48 | hellos of completed handshakes count as well |
| `LocalOutranksHearsay` | `domestic_intel.rs` 43 | enough peers outvote what the device saw itself |
| `SingleFailureCannotEscalate` | `live_signals.rs` 341 | one failure among the few probes of a full window is enough |
| `PadNeverShrinks` | `ai_dpi.rs` 130 | a packet longer than every target gets the largest, smaller length |
| `AdaptiveSupported` | `fec_engine.rs` 485 | with 255 data shards no parity fits, and the configuration is kept although unsupported |
| `FsmOnlyMeansNoneInForce` | `model_registry.rs` 509 | an artifact loaded over a promoted model leaves `fsm_only` false |
| `NullifierOnce` | `zkp_auth.rs` 98 | the check and the insertion are separate: two verifications both pass |
| `WipeOneShot` | `panic_wipe.rs` 319 | `triggered` is loaded and then stored: two triggers both wipe |
| `ExistsMeansListed` | `error.rs` 12 | the adapter refuses an id whose record is not, or no longer, listed |
| `DeletionSurfaces`, `RootCommitsToLog` | `audit.rs` 110, 97 | a log without its last record verifies; padding gives two logs one root |
| `CatalogProofMeansPrefix` | `transparency.rs` 499 | the roots are not recomputed, so another old root is accepted |

Some properties name an exception, because TLC showed that the code allows it: a
schedule stored by a failure that read the level before it fell (`ScheduleJustified`),
a name removed between the two halves of its add (`WhitelistAgrees`), an edge recorded
by a connect whose tunnel was closed meanwhile (`ReportedTransportUp`), a transport
lost between the check and the tunnel (`NoTunnelOverDeadKind`), crossed attachments
(`XdpModeFits`), overlapping fallbacks that erase each other's steps
(`StepsExplainWinner`), rules reloaded unsorted (`RouteByPriority`), a cached session
left behind the table (`CacheAgreesWithTable`). The comment of each says which.

### Bounds

Queue: three payloads of sizes 1, 2, 1 in a queue of two items and three bytes reach
both limits separately and together; a fourth is larger than the queue. One fault and
one crash reach every failure and the recovery after it; the sequential run has two
crashes, so that a recovered queue crashes again. Supervisor: two records are a core
started again while the first watcher lives. Process slots are reused once dead and
unreferenced; a spawn waits for a slot, so two slots leave out states with more than
two children referred to at once. `Age` acts only until the budget is spent,
after which the flag is not read. What the two runs leave out (two handlers beside a watcher that
restarts, more records and slots) is covered by the proofs, which have no bounds.

Suites: two threads, callers or devices wherever calls can cross, because every
hazard listed is between two of them; two or three keys; and the code's own limits
(window lengths, thresholds, capacities) or, where they are large, the smallest value
for which the limit, the value below it and the value above it are all reached. The
counters of calls and of time (`Max...`) stop the exploration, not the code: they allow
at least one round of each operation after every other. The codecs are checked for
every input up to the length at which their last branch is taken. All values are in the
`.cfg` files and, for what a `.cfg` cannot write, in the `MC` modules. The `sup_*` runs
and the suites do not check deadlock: once the bounds are used up nothing is left to do.

### Fairness

A thread inside a queue call is scheduled (weak fairness); nobody is obliged to call,
crash or restart. Tokio polls every woken task and its mutex is first come, first
served, hence strong fairness for handlers and watchers. A readiness loop reaches its
deadline because every round sleeps 100 ms. The other runs assume no fairness and
check safety only.

## Proofs

All theorems are for every value of the constants; what they assume of them are the
named assumptions in the modules that declare them (sets not empty, finitely many
callers of act(), limits natural numbers). `PROJECT.json` lists the property each one states.

### The queue

`StoreAndForwardProofs` and `SpoolProofs`: every set of threads and payloads, all
limits, both policies, any number of faults and crashes.

- `TypeCorrect`: `Spec => []TypeOK`. Inductive with `HoldsOne`: a call past "idle"
  in try_enqueue holds exactly one item.
- `LimitsHold`, `CountersBalance`: `[]Bounded` and `[]Accounting`. `Sized` adds that
  a queue that is down is empty; `Asleep`, that no call is in progress unless the
  process runs and that one thread at most is in the critical section.
- `NothingReplayed`: `[]NoReplay`. `NoReplay` is not inductive. `Apart` adds that an
  offered payload is new, that what a flush has drained is not in memory (so that the
  rewrite removes it from the file), and that while the queue is in memory the file
  and the memory have nothing in common (so that a flush that cannot truncate the
  file settles nothing that is in it).
- `SpoolAlwaysOpens`: `[]SpoolOpens`. `SpoolFine` adds that without faults the file of
  a running queue has its header and no fragment at its end: an append cut by a crash
  is then the only damage `open` can meet, and it is at the end.
- `PendingIsDurable`: `[]Durable`. `Filed` adds that ids grow and that an item owed to
  the file is identified by its id, so that a rewrite by another thread, which already
  writes it, and the append that follows do not disagree.
- `BytesAreExact`: `[]BytesExact`. `Bytes` is a recursive function; what it gives for an
  appended, a removed and a concatenated item is proved by well-founded induction.
- `ControlNeverEvicted`: the action property `ControlAppendOnly`.

`DurableQueueProofs` assumes `Sequential`: one thread, RejectNew. Both hypotheses are
needed: TLC violates `DiskAgrees` with EvictOldest and `LaneOrder` with two threads.

- `DiskMatchesMemory`: `[]DiskAgrees`. `Mirror` says what the file holds at every point
  of a call, the record about to be appended and the lanes just drained included.
- `LanesStayOrdered`, `NothingPendingTwice`, `AcknowledgedIsDurable`. `Kept` adds what
  a disk without faults keeps through a crash: a file within the limits, in order,
  and, during a recovery, records read and records to read that make up the file.
- `QueueIsDurable`: with `MaxFaults = 0` also, `Spec => ImplementsDurableQueue`. The
  refinement mapping reads the lanes from memory while the process runs and from the
  file while it does not; each step is an abstract step or a stutter.

### The supervisor

`CoreSupervisorProofs`: any ids, handlers, records, process slots, restarts, faults
and cancellations.

- `SupervisorTypes`, `ChildrenStayTracked`, `OneChildPerId`: `[]TypeOK`, `[]NoEscape`,
  `[]OneChild`, from `Safe == Typed /\ Room /\ Owned`. `Owned` says that the map holds
  children of its own ids, that whoever is about to kill a child holds the lifecycle
  lock, alone, with the id out of the map, and that only probes and killers hold an
  Arc. `Room`, that every start under way still finds an unused record, is needed
  only because records are bounded.
- `WatcherKeepsBudget`: `[]RestartBudget`. `Budget` relates what a watcher has launched
  to the restarts its record counts, which the restart RPC increases as well.
- `ChildrenStayReachable`: the action property `StaysReachable`. `Born` and `Removable`
  say that a stop about to remove the record it looked up finds the child gone, or a
  newer one that a start will still register.

### Continuity and telemetry

- `SwitchesStaySafe` (`SeamlessProofs`): `SeamlessSpec => []SwitchesSafe`, for any
  candidates, callers of act(), capacity and hop limit. Two of its four parts are not
  inductive. `WarmReserved` counts, beside the standbys that are warm, the callers that
  have passed the bound and not yet pushed: each of them holds a place, and the last
  one found the set below the bound. `BridgeMatched` says that the standbys on the
  bridge can be assigned to calls about to promote them, by name and one to one; when
  promote takes the handle another call had added under the same name, the two
  exchange theirs.
- `BacklogStaysDelivered` (`TelemetryProofs`): `StreamSpec => []BacklogDelivered`, for any
  recorders, streams and capacities. `Apart` says that an event is with one recorder, in
  the spool, with the stream that drained it, or live, and in no two of these;
  `StreamSound`, that a stream which has not drained has only its channel and that the
  channel is newer than what was yielded.

`SequenceProofs` holds what several of these need of sequences: induction on numbers and
on sequences, from the well-foundedness of `<`; that a recursive function over an
interval exists; what `Retain` (`Filters`) keeps, and that it cuts a prefix off when the
predicate, once true, stays true along the sequence.

### Only model-checked

Liveness (`CallsReturn`, `HandlersReturn`, `WatcherEnds`), which the prover does not do,
and the properties of the suites other than `SwitchesSafe` and `BacklogDelivered`, whose
theorems are about the component's own specification (`SeamlessSpec`, `StreamSpec`).
The codecs, the Merkle trees and the error correction are recursive operators, which
keep the prover's SMT backend from their modules.

## Not modelled

Operations left out of modelled parts: `SeamlessController::tick` is its three
branches, chosen freely instead of by the forecast; `handle_rebinding` of `mpquic.rs`;
`register` of `quic_migration.rs`; the copying of relayed bytes; the answers of the
panic wipe's camouflage; `ranking` and `best_candidate` of `domestic_intel.rs`;
`verify_bulletproof`, a length test; `inject_ooo` and `manipulate_window` of `ebpf.rs`;
`CountActive`, `SessionStats`, `Close` and `RedisPing` of the session store. The engine
of `enterprise.rs` is its tick; its getters and statistics are left out.

Parts left out:

- cryptography and TLS imitation: computations without protocol state; hashes,
  signatures and commitments are symbolic where a modelled part uses them;
- auto-healing targets, option parsing, address tables, wrappers of sockets and the
  kernel attachment: tables, thresholds and I/O, whose outcomes are inputs above;
- the rest of the control plane (subscriptions, telemetry pipeline, distribution, API,
  all in Go): another program, which reaches the data plane only over the RPCs that
  `MockService` and `TelemetryStream` model; the session store is modelled because
  several replicas share it;
- dashboard, training, deployment, fuzz targets, generated code.
