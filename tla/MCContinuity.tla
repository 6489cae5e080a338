---------------------------- MODULE MCContinuity ----------------------------
(***************************************************************************)
(* The continuity components for TLC.  They share no state with one        *)
(* another except where one module extends another, so a behaviour of all  *)
(* of them is an interleaving of behaviours of each: `focus` picks the     *)
(* component a behaviour exercises and the others rest.                    *)
(***************************************************************************)
EXTENDS SeamlessController, AdvancedIntegration, TransportRace, TLC

CONSTANTS Focus, p, a, b, c, t1, t2

VARIABLE focus

continuityVars == <<isolationVars, bridgeVars, ringVars, warm, stats, begun, tick,
                    tierVars, cadenceVars, integrationVars, raceVars>>

vars == <<focus, continuityVars>>

Symmetry == Permutations({t1, t2})
MCCandidates == <<a, b>>
MCEndpoints == {[name |-> a, priority |-> 5], [name |-> b, priority |-> 100]}
MCRacers == <<a, b, c>>

Address(how, takes) == [how |-> how, takes |-> takes]
Script(lookup, fails, addresses) == [lookup |-> lookup, fails |-> fails, addresses |-> addresses]
MCScripts ==
    {Script(0, FALSE, <<Address("accepts", 1)>>),
     Script(1, FALSE, <<Address("accepts", 1)>>),
     Script(0, FALSE, <<Address("fails", 1), Address("accepts", 1)>>),
     Script(0, FALSE, <<Address("refuses", 0), Address("accepts", 0)>>),
     Script(0, FALSE, <<Address("fails", 3), Address("accepts", 3)>>),
     Script(1, TRUE, <<>>), Script(0, FALSE, <<>>), Script(9, FALSE, <<Address("accepts", 0)>>)}

Init ==
    /\ focus \in Focus
    /\ IsolationInit /\ SeamlessInit /\ IntegrationInit /\ RaceInit

Next ==
    /\ UNCHANGED focus
    /\ \/ /\ focus = "isolation" /\ IsolationNext
          /\ UNCHANGED <<bridgeVars, ringVars, warm, stats, begun, tick, tierVars, cadenceVars,
                         integrationVars, raceVars>>
       \/ /\ focus = "cadence" /\ CadenceNext
          /\ UNCHANGED <<isolationVars, bridgeVars, ringVars, warm, stats, begun, tick, tierVars,
                         integrationVars, raceVars>>
       \/ /\ focus = "ring" /\ RingNext
          /\ UNCHANGED <<isolationVars, bridgeVars, warm, stats, begun, tick, tierVars, cadenceVars,
                         integrationVars, raceVars>>
       \/ /\ focus = "seamless" /\ SeamlessNext
          /\ UNCHANGED <<isolationVars, tierVars, cadenceVars, integrationVars, raceVars>>
       \/ /\ focus = "tier" /\ TierNext
          /\ UNCHANGED <<isolationVars, ringVars, warm, stats, begun, tick, cadenceVars,
                         integrationVars, raceVars>>
       \/ /\ focus = "integration" /\ IntegrationNext
          /\ UNCHANGED <<isolationVars, ringVars, warm, stats, begun, tick, raceVars>>
       \/ /\ focus = "race" /\ RaceNext
          /\ UNCHANGED <<isolationVars, bridgeVars, ringVars, warm, stats, begun, tick, tierVars,
                         cadenceVars, integrationVars>>

Spec == Init /\ [][Next]_vars

\* ViewsAgree and RecoveryPrompt where the whole integration runs: the cadence
\* and the tier, exercised on their own, change under no blackout level.
IntegratedViewsAgree == focus = "integration" => ViewsAgree

\* After a recovery a transport waits only for a failure stored since
\* (recover_automatic, force_all_due).
IntegratedRecoveryPrompt == focus = "integration" => RecoveryPrompt

(* What a blackout leaves behind is bounded: between calls the classifier,  *)
(* the flag, the probe cadence and the profile tell of one level; after a   *)
(* recovery a transport waits only for a failure stored since; and it waits *)
(* as long as its failures and the level in force justify, or, where a      *)
(* note_failure straddled the fall of the level, one interval of the level  *)
(* it had read.  That last delay contradicts the comment of set_level, see  *)
(* RecoveryNotDelayed.                                                      *)
NothingDelaysRecovery ==
  /\ IntegratedViewsAgree
  /\ IntegratedRecoveryPrompt
  /\ ScheduleBounded

(* A connection is reported only if it was made, and in time: every racer is*)
(* attempted once, the fastest in time wins, a connect ends with its timeout,*)
(* the active last-resort tunnel really connected, circuits are not        *)
(* overspent, bonding divides all the data and the registry keeps its order.*)
ConnectionsEarned ==
  /\ EveryAttemptOnce
  /\ WinnerFastestInTime
  /\ ConnectWithinTimeout
  /\ ActiveReallyConnected
  /\ CircuitsNotOverspent
  /\ BondShared
  /\ RegistryOrdered

(* The isolation level moves with discipline: it rises only after a debounced*)
(* run of failures and by the transitions the correlator allows, and at    *)
(* isolation no transport is probed more than once per interval.           *)
BlackoutDiscipline ==
  /\ LevelDiscipline
  /\ NoRetryStorm
  /\ []DebouncedRise

\* Every component's state is well typed.
TypeOK == /\ IsolationTypeOK /\ CadenceTypeOK /\ SeamlessTypeOK
          /\ TierTypeOK /\ IntegrationTypeOK /\ RaceTypeOK
=============================================================================
