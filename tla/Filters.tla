------------------------------- MODULE Filters -------------------------------
(***************************************************************************)
(* VecDeque::retain and remove, and Iterator::filter, of the standard      *)
(* library.                                                                *)
(***************************************************************************)
EXTENDS Integers, Sequences, Functions

\* The elements of s that belong to S, in their order.
Retain(s, S) ==
  LET upTo[i \in 0..Len(s)] ==
        IF i = 0 THEN <<>>
        ELSE IF s[i] \in S THEN Append(upTo[i - 1], s[i]) ELSE upTo[i - 1]
  IN  upTo[Len(s)]

\* s with its i-th element removed.
Without(s, i) == [j \in 1..(Len(s) - 1) |-> IF j < i THEN s[j] ELSE s[j + 1]]
==============================================================================
