--------------------------- MODULE MCStoreAndForward ---------------------------
(* Instances of StoreAndForward for TLC. *)
EXTENDS StoreAndForward, TLC

CONSTANTS p1, p2, p3, p4

\* With MaxBytes = 3 and MaxItems = 2: two items fit, a third may be one too many.
MCSize == (p1 :> 1) @@ (p2 :> 2) @@ (p3 :> 1)

\* As MCSize, and p4 is larger than the whole queue.
MCSizeOver == MCSize @@ (p4 :> 9)

\* p4 fills the queue alone: beside a control item it is refused, after the bulk
\* items have been evicted for it.  The others reach the limit on items.
MCSizeFull == (p1 :> 1) @@ (p2 :> 1) @@ (p3 :> 1) @@ (p4 :> 3)

Symmetry == Permutations(Threads) \cup Permutations({p1, p2, p3})

================================================================================
