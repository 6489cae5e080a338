--------------------------- MODULE LastResortTier ---------------------------
(***************************************************************************)
(* The last-resort transports of core-supervisor: the registry and the Arti *)
(* engine (tor.rs), the DNS and SSH tunnels (dns_tunnel.rs, ssh_tunnel.rs), *)
(* the escalation onto the failover bridge (resilience.rs) and the weighted *)
(* bond over the members that connect (multipath.rs).                       *)
(***************************************************************************)
EXTENDS FailoverBridge, SequencesExt

CONSTANTS Endpoints,     \* TcpEndpointTransports a caller may register
          ProbedTunnels, \* tunnels whose sidecar something reports on
          CircuitUsers,  \* threads that call take_circuit
          MaxBootstraps, \* bound on bootstrap_count
          MaxPicks,      \* bound on the bond's cursor
          Rtts           \* round trips a connection may report, ms

VARIABLES registry,    \* transports, by priority
          healthy,     \* tunnels whose healthy flag is set
          artiStatus,  \* status
          preWarmed,   \* pre_warmed
          bootstraps,  \* bootstrap_count
          granted,     \* circuits handed out since the last bootstrap
          taking,      \* per user: the count read before its exchange, or -1
          bond,        \* the members of the bond last built: [name, weight]
          picks        \* members returned by next(), in order; its length is cursor

tierVars == <<registry, healthy, artiStatus, preWarmed, bootstraps, granted, taking, bond, picks>>

\* What with_full_resilience_tier registers, in its order.
FullTier == <<
    [name |-> "arti-tor", priority |-> 10], [name |-> "webtunnel", priority |-> 20],
    [name |-> "snowflake", priority |-> 30], [name |-> "obfs4", priority |-> 40],
    [name |-> "meek", priority |-> 50], [name |-> "conjure", priority |-> 60],
    [name |-> "dns-tunnel-masterdns", priority |-> 100],
    [name |-> "dns-tunnel-vaydns-doh", priority |-> 100],
    [name |-> "dns-tunnel-noizdns", priority |-> 100],
    [name |-> "ssh-socks-tunnel", priority |-> 110]>>

Tunnels == {"dns-tunnel-masterdns", "dns-tunnel-vaydns-doh", "dns-tunnel-noizdns",
            "ssh-socks-tunnel"}
EndpointNames == {e.name : e \in Endpoints}

\* Mutant of Register: a tie is put before the transports already there.
RegisterFirst(reg, t) ==
    LET at == SelectInSeq(reg, LAMBDA r : r.priority >= t.priority)
    IN IF at = 0 THEN Append(reg, t) ELSE InsertAt(reg, at, t)

\* register: push, then the stable sort_by_key.
Register(reg, t) ==
    LET at == SelectInSeq(reg, LAMBDA r : r.priority > t.priority)
    IN IF at = 0 THEN Append(reg, t) ELSE InsertAt(reg, at, t)

TierInit ==
    /\ registry = FoldLeft(Register, <<>>, FullTier)
    /\ healthy = {}
    /\ artiStatus = "Idle"
    /\ preWarmed = 0 /\ bootstraps = 0 /\ granted = 0
    /\ taking = [u \in CircuitUsers |-> -1]
    /\ bond = <<>> /\ picks = <<>>

IsAvailable(name) ==
    CASE name = "arti-tor" -> artiStatus = "Ready"
      [] name \in Tunnels -> name \in healthy
      [] OTHER -> TRUE

\* connect: only a configured endpoint has one; the others keep the trait's
\* default, which is NotConfigured.  `reach` are the endpoints that answer now.
Connects(name, reach) == name \in EndpointNames /\ name \in reach

RegisterEndpoint(e) ==
    /\ e \notin ToSet(registry)
    /\ registry' = Register(registry, e)
    /\ UNCHANGED <<healthy, artiStatus, preWarmed, bootstraps, granted, taking, bond, picks>>

MarkHealthy(name, ok) ==
    /\ healthy' = IF ok THEN healthy \union {name} ELSE healthy \ {name}
    /\ UNCHANGED <<registry, artiStatus, preWarmed, bootstraps, granted, taking, bond, picks>>

BootstrapBegin ==
    /\ artiStatus # "Bootstrapping" /\ bootstraps < MaxBootstraps
    /\ artiStatus' = "Bootstrapping"
    /\ bootstraps' = bootstraps + 1
    /\ UNCHANGED <<registry, healthy, preWarmed, granted, taking, bond, picks>>

BootstrapEnd ==
    /\ artiStatus = "Bootstrapping"
    /\ artiStatus' = "Ready"
    /\ preWarmed' = 3
    /\ granted' = 0
    /\ UNCHANGED <<registry, healthy, bootstraps, taking, bond, picks>>

\* take_circuit: the load, which gives up at zero ...
TakeLoad(u) ==
    /\ taking[u] = -1 /\ preWarmed > 0
    /\ taking' = [taking EXCEPT ![u] = preWarmed]
    /\ UNCHANGED <<registry, healthy, artiStatus, preWarmed, bootstraps, granted, bond, picks>>

\* Mutant of TakeExchange: the count read is stored without comparing it.
TakeStore(u) ==
    /\ taking[u] # -1
    /\ taking' = [taking EXCEPT ![u] = -1]
    /\ preWarmed' = taking[u] - 1
    /\ granted' = granted + 1
    /\ UNCHANGED <<registry, healthy, artiStatus, bootstraps, bond, picks>>

\* ... and the compare_exchange, which loops when another thread came first.
TakeExchange(u) ==
    /\ taking[u] # -1
    /\ taking' = [taking EXCEPT ![u] = -1]
    /\ IF preWarmed = taking[u]
         THEN preWarmed' = preWarmed - 1 /\ granted' = granted + 1
         ELSE UNCHANGED <<preWarmed, granted>>
    /\ UNCHANGED <<registry, healthy, artiStatus, bootstraps, bond, picks>>

\* Mutant of Escalation: availability is taken for a connection.
EscalationByFlag(reach) == SelectSeq(registry, LAMBDA t : IsAvailable(t.name))

\* apply_decision(Escalate): the transports that would be promoted, best first.
Escalation(reach) ==
    SelectSeq(registry, LAMBDA t : IsAvailable(t.name) /\ Connects(t.name, reach))

\* The first of them is added to the bridge and promoted; one that is not
\* there changes nothing.  The old active transport is let go.
ApplyEscalate(reach) ==
    LET found == Escalation(reach)
    IN IF found = <<>> THEN UNCHANGED bridgeVars
       ELSE /\ active' = Head(found).name
            /\ failoverCount' = failoverCount + 1
            /\ UNCHANGED standby

WeightForRtt(rtt) ==
    LET w == 500 \div (IF rtt = 0 THEN 1 ELSE rtt)
    IN IF w < 1 THEN 1 ELSE IF w > 10 THEN 10 ELSE w

\* from_available, and the cursor of the new bond.
BuildBond(reach, rtt) ==
    /\ bond' = LET members == SelectSeq(registry, LAMBDA t : IsAvailable(t.name) /\ Connects(t.name, reach))
               IN [i \in DOMAIN members |-> [name |-> members[i].name,
                                             weight |-> WeightForRtt(rtt[members[i].name])]]
    /\ picks' = <<>>

\* Mutant of Schedule: every member appears once, whatever its weight.
ScheduleFlat == [i \in DOMAIN bond |-> bond[i].name]

\* schedule: member names repeated by weight.
Schedule ==
    FoldLeft(LAMBDA acc, m : acc \o [i \in 1..m.weight |-> m.name], <<>>, bond)

BondPick ==
    /\ Schedule # <<>> /\ Len(picks) < MaxPicks
    /\ picks' = Append(picks, Schedule[(Len(picks) % Len(Schedule)) + 1])
    /\ UNCHANGED <<registry, healthy, artiStatus, preWarmed, bootstraps, granted, taking, bond>>

\* ResilienceController driven by the decider, and a bond built by a caller.
TierEscalate(reach) ==
    /\ failoverCount < MaxFailovers
    /\ ApplyEscalate(reach)
    /\ UNCHANGED tierVars

TierBond(reach, rtt) ==
    /\ BuildBond(reach, rtt)
    /\ UNCHANGED <<bridgeVars, registry, healthy, artiStatus, preWarmed, bootstraps, granted, taking>>

TierStep ==
    \/ \E e \in Endpoints : RegisterEndpoint(e)
    \/ \E name \in ProbedTunnels, ok \in BOOLEAN : MarkHealthy(name, ok)
    \/ BootstrapBegin \/ BootstrapEnd
    \/ \E u \in CircuitUsers : TakeLoad(u) \/ TakeExchange(u)
    \/ BondPick

TierNext ==
    \/ \E reach \in SUBSET EndpointNames : TierEscalate(reach)
    \/ \E reach \in SUBSET EndpointNames, rtt \in [EndpointNames -> Rtts] : TierBond(reach, rtt)
    \/ UNCHANGED bridgeVars /\ TierStep

-----------------------------------------------------------------------------
TierTypeOK ==
    /\ healthy \subseteq Tunnels
    /\ artiStatus \in {"Idle", "Bootstrapping", "Ready"}
    /\ preWarmed \in 0..3
    /\ bond \in Seq([name : EndpointNames, weight : 1..10])

\* No more circuits are handed out than a bootstrap pre-warmed, whatever the
\* interleaving of take_circuit callers with each other and with bootstrap().
CircuitsNotOverspent == granted + preWarmed <= 3

\* Only the primary or a transport whose own connect() succeeded ever carries
\* traffic ("Every candidate must complete the real Transport::connect path
\* before it can be promoted", apply_decision): an available transport without
\* an endpoint never does.
ActiveReallyConnected == active \in EndpointNames \union {Primary}

\* Traffic over a bond is shared by weight: after whole rounds of next(), each
\* member was returned as often as its weight says, and none is left out.
BondShared ==
    (bond # <<>> /\ Len(picks) % Len(Schedule) = 0) =>
        \A i \in DOMAIN bond :
            LET total == FoldLeft(LAMBDA acc, m : acc + m.weight, 0, bond)
            IN Len(SelectSeq(picks, LAMBDA n : n = bond[i].name)) * total
                   = bond[i].weight * Len(picks)

\* The registry is by priority, and a built-in transport keeps its place ahead
\* of a later registration of the same priority (register).
RegistryOrdered ==
    \A i, j \in DOMAIN registry :
        i < j => /\ registry[i].priority <= registry[j].priority
                 /\ registry[i].name \in EndpointNames /\ registry[j].name \notin EndpointNames
                        => registry[i].priority < registry[j].priority
=============================================================================
