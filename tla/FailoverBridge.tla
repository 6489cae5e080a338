--------------------------- MODULE FailoverBridge ---------------------------
(***************************************************************************)
(* The in-memory transport switch of core-supervisor/src/failover.rs.  A    *)
(* handle is its transport name, the only field the bridge looks at.        *)
(***************************************************************************)
EXTENDS FiniteSetsExt, Filters

CONSTANTS Primary,     \* the transport the bridge starts on
          MaxFailovers \* bound on the count at which failover() is still called

VARIABLES active,       \* active
          standby,      \* standby, first to be used first
          failoverCount \* failover_count

bridgeVars == <<active, standby, failoverCount>>

BridgeInit ==
    /\ active = Primary
    /\ standby = <<>>
    /\ failoverCount = 0

\* failover: both locks are held across the swap, and the call is counted
\* whether or not a standby was there to take over.
Failover ==
    /\ failoverCount < MaxFailovers
    /\ active' = IF standby = <<>> THEN active ELSE Head(standby)
    /\ standby' = IF standby = <<>> THEN standby ELSE Tail(standby)
    /\ failoverCount' = failoverCount + 1

AddStandby(name) ==
    /\ standby' = Append(standby, name)
    /\ UNCHANGED <<active, failoverCount>>

CanPromote(name) == name \in Range(standby)

\* The position of the first handle of that name.
PositionOf(name) == Min({i \in DOMAIN standby : standby[i] = name})

\* promote, when it returns true; the first handle of that name is taken.
Promote(name) ==
    /\ CanPromote(name)
    /\ standby' = Without(standby, PositionOf(name))
    /\ active' = name
    /\ failoverCount' = failoverCount + 1
=============================================================================
