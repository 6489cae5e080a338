------------------------------- MODULE Startup ------------------------------
(***************************************************************************)
(* How the two Rust services boot: core-supervisor/src/main.rs with the    *)
(* container preflight, and antiforgery-server/src/main.rs.  A step reads  *)
(* one piece of configuration; the supervisor's is chosen when it is read, *)
(* the anti-forgery service's is fixed, because it restarts under it.      *)
(***************************************************************************)
EXTENDS Integers, Sequences, FiniteSets

CONSTANT MaxBoots

VARIABLES
  boot,           \* the supervisor: [pc, loopback, mtls, tls, live, tasks]
  preflight,      \* RuntimePreflight: [strategy, diagnostics]
  spoolMode,      \* where telemetry waits: "none" before boot, "memory", "sealed"
  serviceEnv,     \* the anti-forgery service's environment
  service,        \* the anti-forgery service: [pc, key, loopback, mtls, tls]
  identities,     \* signing keys it has served with
  boots           \* times it was started

bootVars == <<boot, preflight, spoolMode, serviceEnv, service, identities, boots>>

AddrValues == {"unset", "loopback", "public", "malformed"}
MtlsValues == {"unset", "on", "off", "malformed"}
PemValues == {"unset", "blank", "unreadable", "empty", "garbage", "good"}

\* supervisor_addr_from_environment: unset means 127.0.0.1.
AddrAccepted(a) == a # "malformed"
IsLoopback(a) == a \in {"unset", "loopback"}

\* parse_mtls_value
MtlsAccepted(m) == m # "malformed"
MtlsEnabled(m) == m = "on"

\* TlsServerConfig::from_environment: three paths, each set and not blank, to
\* files that can be read and are not empty.  Nobody parses them here.
RequiredEnvironmentPath(p) == p \notin {"unset", "blank"}
ReadPem(p) == p \notin {"unreadable", "empty"}
TlsLoads(p) == RequiredEnvironmentPath(p) /\ ReadPem(p)

\* Mutant of PlaintextAllowed: the refusal of a plaintext listener, dropped.
PlaintextAllowedAlways(mtls, loopback) == TRUE

PlaintextAllowed(mtls, loopback) == mtls \/ loopback

----------------------------------------------------------------------------
(* runtime_preflight.rs and cni_detector.rs.                               *)

CniNames == {"veth0", "cali1", "br-0", "ipvlan0", "macvlan0", "eth0"}

\* detect_cni, by the prefix of the name.
DetectCni(i) ==
  CASE i \in {"veth0", "cali1"} -> "Veth"
    [] i = "br-0" -> "Bridge"
    [] i = "ipvlan0" -> "Ipvlan"
    [] i = "macvlan0" -> "Macvlan"
    [] OTHER -> "Unknown"

\* CniDetector.strategy
AttachStrategy(i, caps, mounted) ==
  CASE ~({"bpf", "net_admin"} \subseteq caps) \/ ~mounted -> "FallbackAfPacket"
    [] DetectCni(i) \in {"Veth", "Bridge"} -> "TcEgress"
    [] DetectCni(i) = "Unknown" -> "XdpGeneric"
    [] OTHER -> "XdpDriver"

\* discover_interface: a veth before any other, never lo.
DiscoverInterface(configured, present) ==
  CASE configured # {} -> configured
    [] "veth0" \in present -> {"veth0"}
    [] present # {} -> {CHOOSE i \in present : TRUE}
    [] OTHER -> {}

\* Mutant of MountedIfRead: a mount table that cannot be read is taken for a mounted bpffs.
MountedIfUnread(mountRead, mounted) == ~mountRead \/ mounted

\* inspect: a source that cannot be read counts as absent.
MountedIfRead(mountRead, mounted) == mountRead /\ mounted

\* inspect and evaluate.
Preflight(capsRead, caps, mountRead, isMounted, ifRead, configured, present) ==
  LET effective == IF capsRead THEN caps ELSE {}
      mounted == MountedIfRead(mountRead, isMounted)
      iface == IF ifRead \/ configured # {} THEN DiscoverInterface(configured, present) ELSE {}
      strategy == IF iface = {} THEN "FallbackAfPacket"
                  ELSE AttachStrategy(CHOOSE i \in iface : TRUE, effective, mounted)
  IN [strategy |-> strategy,
      diagnostics |->
        (IF capsRead THEN {} ELSE {"capabilities unread"})
        \cup (IF mountRead THEN {} ELSE {"mounts unread"})
        \cup (IF ifRead \/ configured # {} THEN {} ELSE {"interfaces unread"})
        \cup (IF iface = {} THEN {"no interface"} ELSE {})
        \cup (IF {"bpf", "net_admin"} \subseteq effective THEN {} ELSE {"no capability"})
        \cup (IF mounted THEN {} ELSE {"no bpffs"})
        \cup (IF strategy = "FallbackAfPacket" THEN {"fallback selected"} ELSE {})]

----------------------------------------------------------------------------
(* core-supervisor main.                                                   *)

BootTypeOK ==
  /\ boot.tasks \subseteq {"probe", "monitor"} /\ spoolMode \in {"none", "memory", "sealed"}
  /\ identities \in Seq(Nat) /\ boots \in 0..MaxBoots

ServiceEnvs ==
  [key : {"unset", "malformed", "seed"}, dev : BOOLEAN, zkp : {"unset", "valid", "rejected"},
   addr : AddrValues, mtls : MtlsValues, pem : PemValues]
Undeployed == [dev |-> FALSE]   \* only the supervisor is booted
Stopped == [pc |-> "down", key |-> 0, loopback |-> TRUE, mtls |-> FALSE, tls |-> "none"]

BootInit ==
  /\ boot = [pc |-> "addr", loopback |-> TRUE, mtls |-> FALSE, tls |-> "none", live |-> FALSE, tasks |-> {}]
  /\ preflight = [strategy |-> "none", diagnostics |-> {}] /\ spoolMode = "none"
  /\ serviceEnv \in {Undeployed} \cup ServiceEnvs /\ service = Stopped /\ identities = <<>> /\ boots = 0

SupervisorOnly == UNCHANGED <<serviceEnv, service, identities, boots>>

ReadAddr(a) ==
  /\ boot.pc = "addr"
  /\ boot' = IF AddrAccepted(a) THEN [boot EXCEPT !.pc = "mtls", !.loopback = IsLoopback(a)]
             ELSE [boot EXCEPT !.pc = "refused"]
  /\ UNCHANGED <<preflight, spoolMode>> /\ SupervisorOnly

\* mtls_enabled_from_environment, then validate_external_core_mode.
ReadMtls(m, coreModeOk) ==
  /\ boot.pc = "mtls"
  /\ boot' = IF MtlsAccepted(m) /\ coreModeOk
             THEN [boot EXCEPT !.pc = IF MtlsEnabled(m) THEN "tls" ELSE "plain", !.mtls = MtlsEnabled(m)]
             ELSE [boot EXCEPT !.pc = "refused"]
  /\ UNCHANGED <<preflight, spoolMode>> /\ SupervisorOnly

ReadTls(p) ==
  /\ boot.pc = "tls"
  /\ boot' = IF TlsLoads(p) THEN [boot EXCEPT !.pc = "plain", !.tls = p] ELSE [boot EXCEPT !.pc = "refused"]
  /\ UNCHANGED <<preflight, spoolMode>> /\ SupervisorOnly

RefusePlaintext ==
  /\ boot.pc = "plain"
  /\ boot' = [boot EXCEPT !.pc = IF PlaintextAllowed(boot.mtls, boot.loopback) THEN "preflight" ELSE "refused"]
  /\ UNCHANGED <<preflight, spoolMode>> /\ SupervisorOnly

Inspect(report) ==
  /\ boot.pc = "preflight" /\ preflight' = report
  /\ boot' = [boot EXCEPT !.pc = "live"]
  /\ UNCHANGED spoolMode /\ SupervisorOnly

\* Mutant of ReadLiveConfig: the monitor started as soon as its configuration is read.
ReadLiveConfigSpawns(c) ==
  /\ boot.pc = "live"
  /\ boot' = CASE c = "invalid" -> [boot EXCEPT !.pc = "refused"]
               [] c = "unset" -> [boot EXCEPT !.pc = "probe"]
               [] c = "valid" -> [boot EXCEPT !.pc = "probe", !.tasks = {"monitor"}]
  /\ UNCHANGED <<preflight, spoolMode>> /\ SupervisorOnly

\* LiveSignalSource::from_path; an unreadable rule file falls back to the preset.
ReadLiveConfig(c) ==
  /\ boot.pc = "live"
  /\ boot' = IF c = "invalid" THEN [boot EXCEPT !.pc = "refused"]
             ELSE [boot EXCEPT !.pc = "probe", !.live = (c = "valid")]
  /\ UNCHANGED <<preflight, spoolMode>> /\ SupervisorOnly

\* transport_probe_from_environment, then the two spawns.
ReadProbe(p) ==
  /\ boot.pc = "probe"
  /\ boot' = IF p = "invalid" THEN [boot EXCEPT !.pc = "refused"]
             ELSE [boot EXCEPT !.pc = "queue",
                     !.tasks = @ \cup (IF p = "valid" THEN {"probe"} ELSE {})
                                 \cup (IF boot.live THEN {"monitor"} ELSE {})]
  /\ UNCHANGED <<preflight, spoolMode>> /\ SupervisorOnly

\* store_and_forward_from_environment never fails.
OpenQueue(path, key, opens) ==
  /\ boot.pc = "queue"
  /\ spoolMode' = IF path /\ key = "hex64" /\ opens THEN "sealed" ELSE "memory"
  /\ boot' = [boot EXCEPT !.pc = "serve"]
  /\ UNCHANGED preflight /\ SupervisorOnly

\* grpc::serve: tonic parses the PEM material, then binds.
Serve(bound) ==
  /\ boot.pc = "serve"
  /\ boot' = [boot EXCEPT !.pc = IF boot.tls = "garbage" \/ ~bound THEN "failed" ELSE "serving"]
  /\ UNCHANGED <<preflight, spoolMode>> /\ SupervisorOnly

----------------------------------------------------------------------------
(* antiforgery-server main, and its restarts.                              *)

ServiceOnly == UNCHANGED <<boot, preflight, spoolMode, serviceEnv>>

Seed == 0   \* the key made from AETHER_ANTIFORGERY_SIGNING_KEY

\* Mutant of SignerKey: an ephemeral key whenever the seed is missing.
SignerKeyLenient(env, n) == IF env.key = "seed" THEN {Seed} ELSE {n}

\* signer_from_environment: {} when the boot is refused.
SignerKey(env, n) ==
  CASE env.key = "seed" -> {Seed}
    [] env.key = "unset" /\ env.dev -> {n}
    [] OTHER -> {}

\* main up to serve; the configured token must pass the eligibility check.
StartService ==
  LET env == serviceEnv
      key == SignerKey(env, boots + 1)
      ok == /\ key # {} /\ env.zkp # "rejected" /\ AddrAccepted(env.addr) /\ MtlsAccepted(env.mtls)
            /\ MtlsEnabled(env.mtls) => TlsLoads(env.pem)
            /\ PlaintextAllowed(MtlsEnabled(env.mtls), IsLoopback(env.addr))
      serves == ok /\ (MtlsEnabled(env.mtls) => env.pem = "good")
  IN /\ service.pc = "down" /\ boots < MaxBoots /\ boots' = boots + 1
     /\ service' = IF serves
                   THEN [pc |-> "serving", key |-> CHOOSE k \in key : TRUE, loopback |-> IsLoopback(env.addr),
                         mtls |-> MtlsEnabled(env.mtls), tls |-> IF MtlsEnabled(env.mtls) THEN env.pem ELSE "none"]
                   ELSE Stopped
     /\ identities' = IF serves THEN Append(identities, service'.key) ELSE identities
     /\ ServiceOnly

StopService ==
  /\ service.pc = "serving" /\ service' = Stopped
  /\ UNCHANGED <<identities, boots>> /\ ServiceOnly

Reports ==
  {Preflight(cr, caps, mr, m, ir, conf, present) :
     cr, mr, m, ir \in BOOLEAN, caps \in SUBSET {"bpf", "net_admin"},
     conf \in {{}} \cup {{i} : i \in CniNames}, present \in {{}, {"eth0"}, {"eth0", "veth0"}}}

SupervisorBoots ==
  \/ \E a \in AddrValues : ReadAddr(a)
  \/ \E m \in MtlsValues, ok \in BOOLEAN : ReadMtls(m, ok)
  \/ \E p \in PemValues : ReadTls(p)
  \/ RefusePlaintext
  \/ \E r \in Reports : Inspect(r)
  \/ \E c \in {"unset", "invalid", "valid"} : ReadLiveConfig(c)
  \/ \E p \in {"unset", "invalid", "valid"} : ReadProbe(p)
  \/ \E path, opens \in BOOLEAN, key \in {"unset", "malformed", "hex64"} : OpenQueue(path, key, opens)
  \/ \E b \in BOOLEAN : Serve(b)

BootNext ==
  \/ serviceEnv = Undeployed /\ SupervisorBoots
  \/ serviceEnv # Undeployed /\ (StartService \/ StopService)

----------------------------------------------------------------------------
(* Neither service ever listens in plaintext beyond the loopback: a        *)
(* listener on another address has mutual TLS switched on and usable       *)
(* certificate material loaded, whatever the environment holds.            *)
ListenerGuarded ==
  /\ boot.pc = "serving" => boot.loopback \/ (boot.mtls /\ boot.tls = "good")
  /\ service.pc = "serving" => service.loopback \/ (service.mtls /\ service.tls = "good")

(* A configuration main refuses starts nothing: no probe and no monitor is *)
(* running when a boot ends in one of main's own errors.                   *)
RefusedRunsNothing == boot.pc = "refused" => boot.tasks = {}

(* The preflight's fallback is explained and its kernel strategies are     *)
(* clean: diagnostics are recorded exactly when the userspace fallback was *)
(* chosen, so a source that could not be read never ends in a kernel       *)
(* attachment.                                                             *)
FallbackExplained == preflight.diagnostics # {} <=> preflight.strategy = "FallbackAfPacket"

(* "Subscription signatures must remain valid across a process restart":   *)
(* outside AETHER_DEV every start that serves under one environment serves *)
(* with the same signing key.                                              *)
SignerSurvivesRestart ==
  ~serviceEnv.dev => \A i, j \in DOMAIN identities : identities[i] = identities[j]
=============================================================================
