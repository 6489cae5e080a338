------------------------------ MODULE DurableQueue ------------------------------
(***************************************************************************)
(* What the store-and-forward queue promises a caller who uses it from one *)
(* thread on a healthy disk: two durable FIFO lanes with a common capacity *)
(* bound.  A payload enters at the back of its lane in one step, all of    *)
(* them leave in one step, and a crash is not visible at all.              *)
(***************************************************************************)
EXTENDS Integers, Sequences

CONSTANTS Payloads, Size, MaxItems, MaxBytes

VARIABLES control, bulk,  \* payloads of the two lanes, oldest first
          taken           \* payloads handed over so far

vars == <<control, bulk, taken>>

Held == {control[i] : i \in DOMAIN control} \union {bulk[i] : i \in DOMAIN bulk}

\* The bytes of a sequence of payloads.
Bytes(s) ==
  LET upTo[i \in 0..Len(s)] == IF i = 0 THEN 0 ELSE upTo[i - 1] + Size[s[i]]
  IN  upTo[Len(s)]

Fits(p) ==
  /\ Len(control) + Len(bulk) < MaxItems
  /\ Bytes(control) + Bytes(bulk) + Size[p] <= MaxBytes

Init == control = <<>> /\ bulk = <<>> /\ taken = {}

Put(p) ==
  /\ p \notin Held \union taken /\ Fits(p)
  /\ \/ control' = Append(control, p) /\ UNCHANGED bulk
     \/ bulk' = Append(bulk, p) /\ UNCHANGED control
  /\ UNCHANGED taken

TakeAll ==
  /\ taken' = taken \union Held
  /\ control' = <<>> /\ bulk' = <<>>

Next == TakeAll \/ \E p \in Payloads : Put(p)

Spec == Init /\ [][Next]_vars
================================================================================
