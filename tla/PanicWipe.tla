----------------------------- MODULE PanicWipe -----------------------------
(***************************************************************************)
(* The panic wipe (panic_wipe.rs).  trigger checks the PIN, tests and then *)
(* sets a flag with two separate atomic operations, and wipes the          *)
(* registered targets one by one while it holds the targets' read lock;    *)
(* each target wipes itself under its own write lock.  Other threads store *)
(* items and register targets meanwhile.                                   *)
(***************************************************************************)
EXTENDS Integers, Sequences, FiniteSetsExt, Functions

CONSTANTS Callers, WipeTargets, Items

VARIABLES
  stores,      \* target -> the items it holds
  stored,      \* items ever stored
  targets,     \* registered targets, in order
  triggered,
  wipeCount,
  wiper        \* caller -> [pc, next, found, results]

wipeVars == <<stores, stored, targets, triggered, wipeCount, wiper>>

IdleWiper == [pc |-> "idle", next |-> 0, found |-> {}, results |-> <<>>]

WipeTypeOK ==
  /\ stores \in [WipeTargets -> SUBSET Items] /\ stored \subseteq Items
  /\ targets \in Seq(WipeTargets) /\ triggered \in BOOLEAN
  /\ wipeCount \in 0..Cardinality(Callers)
  /\ \A c \in Callers :
       wiper[c].pc \in {"idle", "checked", "entered", "wiping", "ok", "AlreadyTriggered", "InvalidPin"}

WipeInit ==
  /\ stores = [t \in WipeTargets |-> {}] /\ stored = {}
  /\ targets = <<>> /\ triggered = FALSE /\ wipeCount = 0
  /\ wiper = [c \in Callers |-> IdleWiper]

Held(t) == \E i \in DOMAIN targets : targets[i] = t

\* push of a subscription, a buffer or a log line: any time, in any target.
StoreItem(t, x) ==
  /\ x \notin stored
  /\ stored' = stored \cup {x} /\ stores' = [stores EXCEPT ![t] = @ \cup {x}]
  /\ UNCHANGED <<targets, triggered, wipeCount, wiper>>

\* The write lock of the target list waits for every wiper to finish.
RegisterTarget(t) ==
  /\ ~Held(t) /\ \A c \in Callers : wiper[c].pc # "wiping"
  /\ targets' = Append(targets, t)
  /\ UNCHANGED <<stores, stored, triggered, wipeCount, wiper>>

\* verify_pin, and the load of the flag.
CheckTrigger(c, pinOk) ==
  /\ wiper[c].pc = "idle"
  /\ wiper' = [wiper EXCEPT ![c].pc = CASE ~pinOk -> "InvalidPin"
                                        [] pinOk /\ triggered -> "AlreadyTriggered"
                                        [] OTHER -> "checked"]
  /\ UNCHANGED <<stores, stored, targets, triggered, wipeCount>>

SetTriggered(c) ==
  /\ wiper[c].pc = "checked"
  /\ triggered' = TRUE /\ wiper' = [wiper EXCEPT ![c].pc = "entered"]
  /\ UNCHANGED <<stores, stored, targets, wipeCount>>

\* The read lock; found records what the registered targets hold at that point.
LockTargets(c) ==
  /\ wiper[c].pc = "entered"
  /\ wiper' = [wiper EXCEPT ![c].pc = "wiping", ![c].next = 1,
                 ![c].found = UNION {stores[targets[i]] : i \in DOMAIN targets}]
  /\ UNCHANGED <<stores, stored, targets, triggered, wipeCount>>

\* Mutant of AllWiped: the loop over the targets, stopped one target early.
AllWipedEarly(c) == wiper[c].next >= Len(targets)

\* The loop over the targets has ended.
AllWiped(c) == wiper[c].next > Len(targets)

\* Mutant of ItemsDestroyed: a count of everything that was ever in the target.
ItemsDestroyedEver(t) == Cardinality(stored)

\* items_destroyed of a target's result.
ItemsDestroyed(t) == Cardinality(stores[t])

\* One target's wipe: its count and its clearing under one write lock.
WipeOne(c) ==
  LET t == targets[wiper[c].next]
  IN /\ wiper[c].pc = "wiping" /\ ~AllWiped(c)
     /\ stores' = [stores EXCEPT ![t] = {}]
     /\ wiper' = [wiper EXCEPT ![c].next = @ + 1,
                    ![c].results = Append(@, ItemsDestroyed(t))]
     /\ UNCHANGED <<stored, targets, triggered, wipeCount>>

FinishWipe(c) ==
  /\ wiper[c].pc = "wiping" /\ AllWiped(c)
  /\ wipeCount' = wipeCount + 1 /\ wiper' = [wiper EXCEPT ![c].pc = "ok"]
  /\ UNCHANGED <<stores, stored, targets, triggered>>

WipeNext ==
  \/ \E t \in WipeTargets, x \in Items : StoreItem(t, x)
  \/ \E t \in WipeTargets : RegisterTarget(t)
  \/ \E c \in Callers, p \in BOOLEAN : CheckTrigger(c, p)
  \/ \E c \in Callers : SetTriggered(c) \/ LockTargets(c) \/ WipeOne(c) \/ FinishWipe(c)

WipeSpec == WipeInit /\ [][WipeNext]_wipeVars

----------------------------------------------------------------------------
Destroyed(c) == FoldFunction(+, 0, wiper[c].results)

(* When trigger has returned a report, nothing that the registered targets *)
(* held when it took their lock is stored anywhere any more, whoever else  *)
(* wiped, stored or registered meanwhile.                                  *)
WipedIsGone ==
  \A c \in Callers : wiper[c].pc = "ok" =>
     \A t \in WipeTargets : stores[t] \cap wiper[c].found = {}

(* The reports count every destroyed item exactly once: items_destroyed    *)
(* over all reports is what was stored less what is still there, also when *)
(* two triggers run through the targets together.                          *)
DestroyedOnce ==
  FoldSet(LAMBDA c, n : n + Destroyed(c), 0, Callers)
    = Cardinality(stored) - Cardinality(UNION {stores[t] : t \in WipeTargets})

(* The error's doc calls the wipe "one-shot": of any number of callers, at *)
(* most one gets a report.                                                 *)
WipeOneShot == Cardinality({c \in Callers : wiper[c].pc \in {"wiping", "ok"}}) <= 1
=============================================================================
