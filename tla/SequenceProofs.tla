---------------------------- MODULE SequenceProofs ----------------------------
(***************************************************************************)
(* Induction over numbers and sequences, and what Retain returns.          *)
(***************************************************************************)
EXTENDS Filters, SequenceTheorems, WellFoundedInduction, TLAPS

USE ZenonT(40)

(***************************************************************************)
(* Recursive definitions over sequences.  The induction theorems of the    *)
(* library take a predicate as a parameter; stated for sets, the least     *)
(* element of a well-founded order gives the same.                         *)
(***************************************************************************)
\* A set that contains 0 and with n also n + 1 contains every natural number.
LEMMA InductionOnNat ==
  ASSUME NEW T, 0 \in T, \A n \in Nat : n \in T => n + 1 \in T
  PROVE  Nat \subseteq T
<1> SUFFICES ASSUME Nat \ T # {} PROVE FALSE
  OBVIOUS
<1> DEFINE less == OpToRel(<, Nat)
<1>1. IsWellFoundedOn(less, Nat)
  BY NatLessThanWellFounded
<1>2. \A x, y \in Nat : x < y => <<x, y>> \in less
  BY DEF OpToRel
<1> HIDE DEF less
<1>3. \E m \in Nat \ T : \A k \in Nat \ T : ~(<<k, m>> \in less)
  BY <1>1, WFMin
<1>4. PICK m \in Nat \ T : \A k \in Nat \ T : ~(k < m)
  BY <1>2, <1>3
<1>5. m # 0 /\ m - 1 \in Nat /\ m - 1 < m /\ (m - 1) + 1 = m
  BY <1>4, SMTT(40)
<1> QED
  BY <1>4, <1>5

(* g accumulates along 1..n: it starts from c and takes one step per index. *)
IsStep(step, A, n) == step \in [A \X (1..n) -> A]
IsFold(g, A, c, n, step) ==
  g \in [0..n -> A] /\ g[0] = c /\ \A i \in 1..n : g[i] = step[<<g[i - 1], i>>]

\* What is computed item by item along 1..n exists, and its values have the
\* type of the accumulator.
LEMMA FoldExists ==
  ASSUME NEW A, NEW c \in A, NEW n \in Nat, NEW step, IsStep(step, A, n)
  PROVE  \E g : IsFold(g, A, c, n, step)
<1> USE DEF IsStep
<1> DEFINE Upto(k, g) == /\ g \in [0..k -> A] /\ g[0] = c
                         /\ \A i \in 1..k : g[i] = step[<<g[i - 1], i>>]
           T == {k \in Nat : k <= n => \E g : Upto(k, g)}
<1>1. 0 \in T
  <2>1. Upto(0, [i \in 0..0 |-> c])
    BY SMTT(40)
  <2> QED
    BY <2>1
<1>2. ASSUME NEW k \in Nat, k \in T PROVE k + 1 \in T
  <2> SUFFICES ASSUME k + 1 <= n PROVE \E h : Upto(k + 1, h)
    BY SMTT(40)
  <2>1. PICK g : Upto(k, g)
    BY <1>2, SMTT(40)
  <2> DEFINE h == [i \in 0..(k + 1) |-> IF i <= k THEN g[i] ELSE step[<<g[k], k + 1>>]]
  <2>2. k + 1 \in 1..n /\ g[k] \in A
    BY <2>1, SMTT(40)
  <2>3. step[<<g[k], k + 1>>] \in A
    BY <2>2
  <2>4. h \in [0..(k + 1) -> A]
    BY <2>1, <2>3, SMTT(40)
  <2>5. h[0] = c
    BY <2>1, SMTT(40)
  <2>6. ASSUME NEW i \in 1..(k + 1) PROVE h[i] = step[<<h[i - 1], i>>]
    <3>1. CASE i <= k
      <4>1. i \in 1..k /\ i - 1 \in 0..k /\ i \in 0..(k + 1) /\ i - 1 \in 0..(k + 1)
        BY <3>1, <2>6, SMTT(40)
      <4>2. h[i] = g[i] /\ h[i - 1] = g[i - 1]
        BY <3>1, <4>1, SMTT(40)
      <4> QED
        BY <2>1, <4>1, <4>2
    <3>2. CASE ~(i <= k)
      <4>1. i = k + 1 /\ i - 1 = k /\ i \in 0..(k + 1) /\ i - 1 \in 0..(k + 1)
        BY <3>2, <2>6, SMTT(40)
      <4>2. h[i] = step[<<g[k], k + 1>>] /\ h[i - 1] = g[k]
        BY <3>2, <4>1, SMTT(40)
      <4> QED
        BY <4>1, <4>2
    <3> QED
      BY <3>1, <3>2
  <2> HIDE DEF h
  <2>7. Upto(k + 1, h)
    BY <2>4, <2>5, <2>6
  <2> QED
    BY <2>7
<1> HIDE DEF T
<1>3. Nat \subseteq T
  BY <1>1, <1>2, InductionOnNat
<1>4. n \in T /\ n <= n
  BY <1>3, SMTT(40)
<1>5. \E g : Upto(n, g)
  <2> HIDE DEF Upto
  <2> QED
    BY <1>4 DEF T
<1> QED
  BY <1>5 DEF IsFold

\* A set of sequences that contains the empty one and is closed under Append
\* contains them all.
LEMMA InductionOnSeq ==
  ASSUME NEW S, NEW T, <<>> \in T,
         \A s \in Seq(S), x \in S : s \in T => Append(s, x) \in T
  PROVE  Seq(S) \subseteq T
<1> DEFINE N == {k \in Nat : \A s \in Seq(S) : Len(s) = k => s \in T}
<1>1. 0 \in N
  <2>1. \A s \in Seq(S) : Len(s) = 0 => s = <<>>
    BY SMTT(40)
  <2> QED
    BY <2>1
<1>2. ASSUME NEW k \in Nat, k \in N PROVE k + 1 \in N
  <2> SUFFICES ASSUME NEW s \in Seq(S), Len(s) = k + 1 PROVE s \in T
    BY SMTT(40)
  <2>1. s # <<>>
    BY SMTT(40)
  <2>2. PICK u \in Seq(S), x \in S : s = Append(u, x)
    BY <2>1, SequenceEmptyOrAppend
  <2>3. Len(u) = k
    BY <2>2, SMTT(40)
  <2> QED
    BY <1>2, <2>2, <2>3
<1> HIDE DEF N
<1>3. Nat \subseteq N
  BY <1>1, <1>2, InductionOnNat
<1>4. ASSUME NEW s \in Seq(S) PROVE s \in T
  <2>1. Len(s) \in N
    BY <1>3, SMTT(40)
  <2> QED
    BY <2>1 DEF N
<1> QED
  BY <1>4

\* Concatenation at its edges.
LEMMA ConcatEdges ==
  ASSUME NEW S, NEW s \in Seq(S)
  PROVE  /\ s \o <<>> = s /\ <<>> \o s = s
         /\ \A u \in Seq(S), x \in S : s \o Append(u, x) = Append(s \o u, x)
         /\ \A u \in Seq(S) : u # <<>> => s \o u = Append(s, Head(u)) \o Tail(u)
<1>1. s \o <<>> = s /\ <<>> \o s = s
  BY SMTT(40)
<1>2. ASSUME NEW u \in Seq(S), NEW x \in S PROVE s \o Append(u, x) = Append(s \o u, x)
  <2> DEFINE a == s \o Append(u, x)
             b == Append(s \o u, x)
             n == Len(s) + Len(u) + 1
  <2>1. Len(s) \in Nat /\ Len(u) \in Nat /\ Len(Append(u, x)) = Len(u) + 1
    BY SMTT(40)
  <2>2. a \in Seq(S) /\ b \in Seq(S) /\ Len(a) = n /\ Len(b) = n
    BY <2>1, SMTT(40)
  <2>3. ASSUME NEW i \in 1..n PROVE a[i] = b[i]
    BY <2>1, SMTT(40)
  <2> HIDE DEF a, b
  <2>4. a = b
    BY <2>2, <2>3, SeqEqual
  <2> QED
    BY <2>4 DEF a, b
<1>3. ASSUME NEW u \in Seq(S), u # <<>> PROVE s \o u = Append(s, Head(u)) \o Tail(u)
  <2> DEFINE a == s \o u
             b == Append(s, Head(u)) \o Tail(u)
             n == Len(s) + Len(u)
  <2>1. /\ Len(s) \in Nat /\ Len(u) \in Nat /\ Len(u) >= 1 /\ Head(u) = u[1] /\ Head(u) \in S
        /\ Tail(u) \in Seq(S) /\ Len(Tail(u)) = Len(u) - 1
        /\ \A i \in 1..(Len(u) - 1) : Tail(u)[i] = u[i + 1]
    BY <1>3, SMTT(40)
  <2>2. Append(s, Head(u)) \in Seq(S) /\ Len(Append(s, Head(u))) = Len(s) + 1
    BY <2>1, SMTT(40)
  <2>3. a \in Seq(S) /\ b \in Seq(S) /\ Len(a) = n /\ Len(b) = n
    BY <2>1, <2>2, SMTT(40)
  <2>4. ASSUME NEW i \in 1..n PROVE a[i] = b[i]
    <3>1. CASE i <= Len(s)
      BY <2>1, <2>2, <3>1, SMTT(40)
    <3>2. CASE i = Len(s) + 1
      BY <2>1, <2>2, <3>2, SMTT(40)
    <3>3. CASE i > Len(s) + 1
      <4>1. i - (Len(s) + 1) \in 1..(Len(u) - 1) /\ (i - (Len(s) + 1)) + 1 = i - Len(s)
        BY <2>1, <3>3, SMTT(40)
      <4>2. b[i] = Tail(u)[i - (Len(s) + 1)]
        BY <2>1, <2>2, <3>3, <4>1, SMTT(40)
      <4>3. a[i] = u[i - Len(s)]
        BY <2>1, <3>3, SMTT(40)
      <4> HIDE DEF a, b
      <4> QED
        BY <2>1, <4>1, <4>2, <4>3
    <3> QED
      BY <2>1, <3>1, <3>2, <3>3, SMTT(40)
  <2> HIDE DEF a, b
  <2>5. a = b
    BY <2>3, <2>4, SeqEqual
  <2> QED
    BY <2>5 DEF a, b
<1> QED
  BY <1>1, <1>2, <1>3
--------------------------------------------------------------------------------
(***************************************************************************)
(* Retain                                                                  *)
(***************************************************************************)
RetainStep(s, S, T) ==
  [c \in Seq(T) \X (1..Len(s)) |-> IF s[c[2]] \in S THEN Append(c[1], s[c[2]]) ELSE c[1]]
Keeps(g, s, S, n) ==
  \A i \in 1..n : g[i] = IF s[i] \in S THEN Append(g[i - 1], s[i]) ELSE g[i - 1]
IsRetained(g, s, S, T) ==
  g \in [0..Len(s) -> Seq(T)] /\ g[0] = <<>> /\ Keeps(g, s, S, Len(s))

\* What is kept of sequences that agree as far as n agrees there.
LEMMA KeepsAgree ==
  ASSUME NEW s, NEW u, NEW S, NEW g, NEW h, NEW n \in Nat,
         \A i \in 1..n : s[i] = u[i],
         g[0] = h[0], Keeps(g, s, S, n), Keeps(h, u, S, n)
  PROVE  \A k \in 0..n : g[k] = h[k]
<1> DEFINE T == {k \in Nat : k <= n => g[k] = h[k]}
<1>1. 0 \in T
  OBVIOUS
<1>2. ASSUME NEW k \in Nat, k \in T PROVE k + 1 \in T
  <2> SUFFICES ASSUME k + 1 <= n PROVE g[k + 1] = h[k + 1]
    BY SMTT(40)
  <2>1. k + 1 \in 1..n /\ (k + 1) - 1 = k /\ g[k] = h[k]
    BY <1>2, SMTT(40)
  <2> QED
    BY <2>1, SMTT(40) DEF Keeps
<1> HIDE DEF T
<1>3. Nat \subseteq T
  BY <1>1, <1>2, InductionOnNat
<1> QED
  BY <1>3, SMTT(40) DEF T

\* Retain is computed element by element.
LEMMA RetainKeeps ==
  ASSUME NEW T, NEW s \in Seq(T), NEW S
  PROVE  \E g : IsRetained(g, s, S, T) /\ Retain(s, S) = g[Len(s)]
<1> DEFINE n == Len(s)
           step == RetainStep(s, S, T)
           IsUpTo(g) == g = [i \in 0..n |->
                              IF i = 0 THEN <<>>
                              ELSE IF s[i] \in S THEN Append(g[i - 1], s[i]) ELSE g[i - 1]]
           upTo == CHOOSE g : IsUpTo(g)
<1>1. n \in Nat /\ \A i \in 1..n : s[i] \in T
  BY SMTT(40)
<1>2. IsStep(step, Seq(T), n)
  <2>1. ASSUME NEW c \in Seq(T) \X (1..n)
        PROVE  (IF s[c[2]] \in S THEN Append(c[1], s[c[2]]) ELSE c[1]) \in Seq(T)
    <3>1. c[1] \in Seq(T) /\ s[c[2]] \in T
      BY <1>1
    <3>2. Append(c[1], s[c[2]]) \in Seq(T)
      BY <3>1, SMTT(40)
    <3> QED
      BY <3>1, <3>2
  <2> QED
    BY <2>1 DEF IsStep, RetainStep
<1>3. PICK g : IsFold(g, Seq(T), <<>>, n, step)
  <2>1. <<>> \in Seq(T)
    BY SMTT(40)
  <2> HIDE DEF step, n
  <2> QED
    BY <1>1, <1>2, <2>1, FoldExists
<1>4. \A i \in 1..n : g[i] = IF s[i] \in S THEN Append(g[i - 1], s[i]) ELSE g[i - 1]
  <2> TAKE i \in 1..n
  <2>1. i - 1 \in 0..n
    BY <1>1, SMTT(40)
  <2>2. <<g[i - 1], i>> \in Seq(T) \X (1..n)
    BY <1>3, <2>1 DEF IsFold
  <2>3. g[i] = step[<<g[i - 1], i>>]
    BY <1>3 DEF IsFold
  <2> QED
    BY <2>2, <2>3 DEF RetainStep
<1>5. g \in [0..n -> Seq(T)] /\ g[0] = <<>>
  BY <1>3 DEF IsFold
<1> HIDE DEF step
<1>6. IsUpTo(g)
  <2>1. \A i \in 0..n : g[i] = IF i = 0 THEN <<>>
                               ELSE IF s[i] \in S THEN Append(g[i - 1], s[i]) ELSE g[i - 1]
    <3>1. \A i \in 0..n : i = 0 \/ i \in 1..n
      BY <1>1, SMTT(40)
    <3> HIDE DEF n
    <3> QED
      BY <1>4, <1>5, <3>1
  <2> QED
    BY <1>5, <2>1
<1>7. IsUpTo(upTo)
  BY <1>6
<1>8. Retain(s, S) = upTo[n]
  BY DEF Retain
<1>9. /\ DOMAIN upTo = 0..n /\ upTo[0] = <<>>
      /\ \A i \in 1..n : upTo[i] = IF s[i] \in S THEN Append(upTo[i - 1], s[i]) ELSE upTo[i - 1]
  <2> HIDE DEF upTo
  <2>1. DOMAIN upTo = 0..n /\ 0 \in 0..n /\ \A i \in 1..n : i \in 0..n /\ i # 0
    BY <1>1, <1>7, SMTT(40)
  <2> QED
    BY <1>7, <2>1
<1> HIDE DEF upTo
<1>10. upTo[n] = g[n]
  <2>1. n \in 0..n /\ n \in Nat /\ upTo[0] = g[0]
    BY <1>1, <1>5, <1>9, SMTT(40)
  <2>2. Keeps(g, s, S, n) /\ Keeps(upTo, s, S, n)
    BY <1>4, <1>9 DEF Keeps
  <2>3. \A i \in 1..n : s[i] = s[i]
    OBVIOUS
  <2> HIDE DEF n
  <2>4. \A k \in 0..n : upTo[k] = g[k]
    BY <2>1, <2>2, <2>3, KeepsAgree, SMTT(40)
  <2> QED
    BY <2>1, <2>4
<1> QED
  BY <1>4, <1>5, <1>8, <1>10 DEF IsRetained, Keeps

\* Retain gives a sequence, of the empty one the empty one.
LEMMA RetainType ==
  ASSUME NEW T, NEW S
  PROVE  Retain(<<>>, S) = <<>> /\ \A s \in Seq(T) : Retain(s, S) \in Seq(T)
<1>1. ASSUME NEW s \in Seq(T)
      PROVE  Retain(s, S) \in Seq(T) /\ (s = <<>> => Retain(s, S) = <<>>)
  <2>1. PICK g : IsRetained(g, s, S, T) /\ Retain(s, S) = g[Len(s)]
    BY RetainKeeps
  <2>2. Len(s) \in 0..Len(s) /\ (s = <<>> => Len(s) = 0)
    BY SMTT(40)
  <2> QED
    BY <2>1, <2>2 DEF IsRetained
<1>2. <<>> \in Seq(T)
  BY SMTT(40)
<1> QED
  BY <1>1, <1>2

\* An element at the end stays there or goes.
LEMMA RetainAppend ==
  ASSUME NEW T, NEW S, NEW s \in Seq(T), NEW x \in T
  PROVE  Retain(Append(s, x), S) = IF x \in S THEN Append(Retain(s, S), x) ELSE Retain(s, S)
<1> DEFINE u == Append(s, x)
           n == Len(s)
<1>1. /\ u \in Seq(T) /\ Len(u) = n + 1 /\ n \in Nat
      /\ u[n + 1] = x /\ \A i \in 1..n : s[i] = u[i]
  BY SMTT(40)
<1> HIDE DEF u
<1>2. PICK g : IsRetained(g, s, S, T) /\ Retain(s, S) = g[n]
  BY RetainKeeps
<1>3. PICK h : IsRetained(h, u, S, T) /\ Retain(u, S) = h[Len(u)]
  BY <1>1, RetainKeeps
<1>4. h[n + 1] = IF x \in S THEN Append(h[n], x) ELSE h[n]
  <2>1. n + 1 \in 1..Len(u) /\ (n + 1) - 1 = n
    BY <1>1, SMTT(40)
  <2> QED
    BY <1>1, <1>3, <2>1 DEF IsRetained, Keeps
<1>5. g[n] = h[n]
  <2>1. n \in 0..n /\ 1..n \subseteq 1..Len(u)
    BY <1>1, SMTT(40)
  <2>2. g[0] = h[0]
    BY <1>2, <1>3 DEF IsRetained
  <2>3. Keeps(g, s, S, n) /\ Keeps(h, u, S, n)
    BY <1>2, <1>3, <2>1 DEF IsRetained, Keeps
  <2> HIDE DEF n
  <2>4. \A k \in 0..n : g[k] = h[k]
    BY <1>1, <2>2, <2>3, KeepsAgree, SMTT(40)
  <2> QED
    BY <2>1, <2>4
<1> QED
  BY <1>1, <1>2, <1>3, <1>4, <1>5 DEF u

\* The elements of a sequence; Range of Functions.
Elements(s) == {s[i] : i \in DOMAIN s}

\* Append adds one element.
LEMMA ElementsAppend ==
  ASSUME NEW T, NEW s \in Seq(T), NEW x \in T
  PROVE  Elements(Append(s, x)) = Elements(s) \union {x}
<1>1. /\ DOMAIN Append(s, x) = 1..(Len(s) + 1) /\ DOMAIN s = 1..Len(s) /\ Len(s) \in Nat
      /\ \A i \in 1..Len(s) : Append(s, x)[i] = s[i]
      /\ Append(s, x)[Len(s) + 1] = x
  BY SMTT(40)
<1>2. Elements(s) \union {x} \subseteq Elements(Append(s, x))
  BY <1>1, SMTT(40) DEF Elements
<1>3. ASSUME NEW i \in 1..(Len(s) + 1) PROVE Append(s, x)[i] \in Elements(s) \union {x}
  <2>1. i \in 1..Len(s) \/ i = Len(s) + 1
    BY <1>1, SMTT(40)
  <2> QED
    BY <1>1, <2>1 DEF Elements
<1> QED
  BY <1>1, <1>2, <1>3 DEF Elements

\* Retain keeps exactly the elements in S and makes nothing longer.
LEMMA RetainElements ==
  ASSUME NEW T, NEW S, NEW s \in Seq(T)
  PROVE  /\ Retain(s, S) \in Seq(T) /\ Len(Retain(s, S)) <= Len(s)
         /\ Elements(Retain(s, S)) = Elements(s) \intersect S
<1> DEFINE X == {v \in Seq(T) : /\ Len(Retain(v, S)) <= Len(v)
                                /\ Elements(Retain(v, S)) = Elements(v) \intersect S}
<1>1. <<>> \in X
  <2>1. Retain(<<>>, S) = <<>>
    BY RetainType
  <2> QED
    BY <2>1, SMTT(40) DEF Elements
<1>2. ASSUME NEW v \in Seq(T), NEW x \in T, v \in X PROVE Append(v, x) \in X
  <2>a. Append(v, x) \in Seq(T)
    BY SMTT(40)
  <2>b. \A w \in Seq(T) : Retain(w, S) \in Seq(T)
    BY RetainType
  <2>0. Retain(v, S) \in Seq(T) /\ Append(v, x) \in Seq(T)
    BY <2>a, <2>b
  <2>1. Retain(Append(v, x), S) = IF x \in S THEN Append(Retain(v, S), x) ELSE Retain(v, S)
    BY RetainAppend, SMTT(40)
  <2>2. /\ Len(Retain(v, S)) <= Len(v) /\ Len(v) \in Nat
        /\ Elements(Retain(v, S)) = Elements(v) \intersect S
    BY <1>2, SMTT(40)
  <2>3. Elements(Append(v, x)) = Elements(v) \union {x}
    BY ElementsAppend, SMTT(40)
  <2>4. CASE x \in S
    <3>1. Retain(Append(v, x), S) = Append(Retain(v, S), x)
      BY <2>1, <2>4
    <3>2. Elements(Append(Retain(v, S), x)) = Elements(Retain(v, S)) \union {x}
      BY <2>0, ElementsAppend, SMTT(40)
    <3>3. Len(Append(Retain(v, S), x)) <= Len(Append(v, x))
      BY <2>0, <2>2, SMTT(40)
    <3>4. Elements(Retain(Append(v, x), S)) = Elements(Append(v, x)) \intersect S
      BY <2>2, <2>3, <2>4, <3>1, <3>2
    <3> QED
      BY <2>0, <3>1, <3>3, <3>4
  <2>5. CASE x \notin S
    <3>1. Retain(Append(v, x), S) = Retain(v, S)
      BY <2>1, <2>5
    <3>2. Len(Retain(v, S)) <= Len(Append(v, x))
      BY <2>0, <2>2, SMTT(40)
    <3>3. Elements(Retain(Append(v, x), S)) = Elements(Append(v, x)) \intersect S
      BY <2>2, <2>3, <2>5, <3>1
    <3> QED
      BY <2>0, <3>1, <3>2, <3>3
  <2> QED
    BY <2>4, <2>5
<1> HIDE DEF X
<1>3. Seq(T) \subseteq X
  BY <1>1, <1>2, InductionOnSeq
<1>4. s \in X
  BY <1>3
<1> QED
  BY <1>4, RetainType DEF X

\* When what is kept is followed only by what is kept, Retain cuts off the
\* front of the sequence.
LEMMA RetainSuffix ==
  ASSUME NEW T, NEW S, NEW s \in Seq(T),
         \A i, j \in 1..Len(s) : i < j /\ s[i] \in S => s[j] \in S
  PROVE  \E k \in 0..Len(s) : Retain(s, S) = SubSeq(s, k + 1, Len(s))
<1> DEFINE Up(v) == \A i, j \in 1..Len(v) : i < j /\ v[i] \in S => v[j] \in S
           Cut(v) == \E k \in 0..Len(v) : Retain(v, S) = SubSeq(v, k + 1, Len(v))
           X == {v \in Seq(T) : Up(v) => Cut(v)}
<1>1. <<>> \in X
  <2>1. Retain(<<>>, S) = <<>>
    BY RetainType
  <2>2. SubSeq(<<>>, 0 + 1, Len(<<>>)) = <<>> /\ 0 \in 0..Len(<<>>) /\ <<>> \in Seq(T)
    BY SMTT(40)
  <2>3. Cut(<<>>)
    BY <2>1, <2>2
  <2> QED
    BY <2>2, <2>3
<1>2. ASSUME NEW v \in Seq(T), NEW x \in T, v \in X PROVE Append(v, x) \in X
  <2> DEFINE u == Append(v, x)
             n == Len(v)
  <2>0. u \in Seq(T)
    BY SMTT(40)
  <2> HIDE DEF Up, Cut
  <2> SUFFICES ASSUME Up(u) PROVE Cut(u)
    BY <2>0
  <2> USE DEF Up, Cut
  <2>1. /\ u \in Seq(T) /\ Len(u) = n + 1 /\ n \in Nat
        /\ u[n + 1] = x /\ \A i \in 1..n : u[i] = v[i]
    BY SMTT(40)
  <2>2. Retain(u, S) = IF x \in S THEN Append(Retain(v, S), x) ELSE Retain(v, S)
    BY RetainAppend, SMTT(40)
  <2> HIDE DEF u
  <2>3. Up(v)
    <3>1. 1..n \subseteq 1..Len(u)
      BY <2>1, SMTT(40)
    <3> QED
      BY <2>1, <3>1
  <2>4. PICK k \in 0..n : Retain(v, S) = SubSeq(v, k + 1, n)
    BY <1>2, <2>3
  <2>5. CASE x \in S
    <3> DEFINE a == Append(SubSeq(v, k + 1, n), x)
               b == SubSeq(u, k + 1, n + 1)
    <3>1. a \in Seq(T) /\ Len(a) = n - k + 1 /\ b \in Seq(T) /\ Len(b) = n - k + 1
      BY <2>1, SMTT(40)
    <3>2. ASSUME NEW i \in 1..(n - k + 1) PROVE a[i] = b[i]
      <4>1. b[i] = u[k + i]
        BY <2>1, SMTT(40)
      <4>2. CASE i <= n - k
        <5>1. a[i] = v[k + i] /\ k + i \in 1..n
          BY <2>1, <4>2, SMTT(40)
        <5> QED
          BY <2>1, <4>1, <5>1
      <4>3. CASE i = n - k + 1
        <5>1. a[i] = x /\ k + i = n + 1
          BY <2>1, <4>3, SMTT(40)
        <5> QED
          BY <2>1, <4>1, <5>1
      <4>4. i <= n - k \/ i = n - k + 1
        BY <2>1, SMTT(40)
      <4> HIDE DEF a, b
      <4> QED
        BY <4>2, <4>3, <4>4
    <3>a. Retain(u, S) = a
      BY <2>2, <2>4, <2>5
    <3>b. b = SubSeq(u, k + 1, Len(u)) /\ k \in 0..Len(u)
      BY <2>1, SMTT(40)
    <3> HIDE DEF a, b
    <3>3. a = b
      BY <3>1, <3>2, SeqEqual
    <3>4. Retain(u, S) = SubSeq(u, k + 1, Len(u)) /\ k \in 0..Len(u)
      BY <3>3, <3>a, <3>b
    <3> QED
      BY <3>4
  <2>6. CASE x \notin S
    <3>1. \A i \in 1..n : v[i] \notin S
      BY <2>1, <2>6, SMTT(40)
    <3>2. Elements(Retain(v, S)) = Elements(v) \intersect S /\ Retain(v, S) \in Seq(T)
      BY RetainElements
    <3>3. ASSUME NEW r \in Seq(T) PROVE \A i \in 1..Len(r) : r[i] \in Elements(r)
      BY SMTT(40) DEF Elements
    <3>5. Elements(v) \intersect S = {}
      BY <3>1, SMTT(40) DEF Elements
    <3>6. Len(Retain(v, S)) = 0
      BY <3>2, <3>3, <3>5, SMTT(40)
    <3>7. Retain(v, S) = <<>>
      BY <3>2, <3>6, SMTT(40)
    <3>4. SubSeq(u, (n + 1) + 1, n + 1) = <<>> /\ n + 1 \in 0..Len(u)
      BY <2>1, SMTT(40)
    <3> QED
      BY <2>1, <2>2, <2>6, <3>4, <3>7
  <2> QED
    BY <2>5, <2>6
<1> HIDE DEF X
<1>3. Seq(T) \subseteq X
  BY <1>1, <1>2, InductionOnSeq
<1>4. s \in X
  BY <1>3
<1> QED
  BY <1>4 DEF X

\* What is left of a sequence without its first k elements.
LEMMA SuffixElements ==
  ASSUME NEW T, NEW s \in Seq(T), NEW k \in 0..Len(s)
  PROVE  LET u == SubSeq(s, k + 1, Len(s))
         IN  /\ u \in Seq(T) /\ Len(u) = Len(s) - k
             /\ \A i \in 1..Len(u) : k + i \in 1..Len(s) /\ u[i] = s[k + i]
<1> DEFINE u == SubSeq(s, k + 1, Len(s))
<1>1. Len(s) \in Nat /\ k \in Nat /\ k <= Len(s)
  BY SMTT(40)
<1>2. \A i \in (k + 1)..Len(s) : s[i] \in T
  BY <1>1, SMTT(40)
<1>3. /\ u \in Seq(T)
      /\ Len(u) = IF k + 1 <= Len(s) THEN Len(s) - (k + 1) + 1 ELSE 0
      /\ \A i \in 1..(Len(s) - (k + 1) + 1) : u[i] = s[k + 1 + i - 1]
  BY <1>1, <1>2, SubSeqProperties, SMTT(40)
<1> HIDE DEF u
<1>4. Len(u) = Len(s) - k
  BY <1>1, <1>3, SMTT(40)
<1>5. ASSUME NEW i \in 1..Len(u) PROVE k + i \in 1..Len(s) /\ u[i] = s[k + i]
  <2>1. i \in 1..(Len(s) - (k + 1) + 1) /\ k + 1 + i - 1 = k + i /\ k + i \in 1..Len(s)
    BY <1>1, <1>4, SMTT(40)
  <2> QED
    BY <1>3, <2>1
<1>6. /\ u \in Seq(T) /\ Len(u) = Len(s) - k
      /\ \A i \in 1..Len(u) : k + i \in 1..Len(s) /\ u[i] = s[k + i]
  BY <1>3, <1>4, <1>5
<1> QED
  BY <1>6 DEF u

\* The elements of the two halves of a sequence, and of a concatenation.
LEMMA ElementsConcat ==
  ASSUME NEW T, NEW s \in Seq(T), NEW u \in Seq(T)
  PROVE  Elements(s \o u) = Elements(s) \union Elements(u)
<1> DEFINE m == Len(s)
           n == Len(u)
<1>1. m \in Nat /\ n \in Nat /\ DOMAIN s = 1..m /\ DOMAIN u = 1..n
  BY SMTT(40)
<1>2. /\ s \o u \in Seq(T) /\ Len(s \o u) = m + n
      /\ \A i \in 1..(m + n) : (s \o u)[i] = IF i <= m THEN s[i] ELSE u[i - m]
  BY ConcatProperties
<1>3. DOMAIN (s \o u) = 1..(m + n)
  BY <1>1, <1>2, SMTT(40)
<1> HIDE DEF m, n
<1>4. ASSUME NEW i \in 1..(m + n) PROVE (s \o u)[i] \in Elements(s) \union Elements(u)
  <2>1. CASE i <= m
    <3>1. i \in DOMAIN s /\ (s \o u)[i] = s[i]
      BY <1>1, <1>2, <2>1, SMTT(40)
    <3> QED
      BY <3>1 DEF Elements
  <2>2. CASE ~(i <= m)
    <3>1. i - m \in DOMAIN u /\ (s \o u)[i] = u[i - m]
      BY <1>1, <1>2, <2>2, SMTT(40)
    <3> QED
      BY <3>1 DEF Elements
  <2> QED
    BY <2>1, <2>2
<1>5. ASSUME NEW i \in 1..m PROVE s[i] \in Elements(s \o u)
  <2>1. i \in 1..(m + n) /\ i <= m
    BY <1>1, SMTT(40)
  <2>2. i \in DOMAIN (s \o u) /\ (s \o u)[i] = s[i]
    BY <1>2, <1>3, <2>1
  <2> QED
    BY <2>2 DEF Elements
<1>6. ASSUME NEW i \in 1..n PROVE u[i] \in Elements(s \o u)
  <2>1. m + i \in 1..(m + n) /\ ~(m + i <= m) /\ (m + i) - m = i
    BY <1>1, SMTT(40)
  <2>2. m + i \in DOMAIN (s \o u) /\ (s \o u)[m + i] = u[i]
    BY <1>2, <1>3, <2>1
  <2> QED
    BY <2>2 DEF Elements
<1> QED
  BY <1>1, <1>3, <1>4, <1>5, <1>6 DEF Elements

\* Cutting a sequence after its k-th element divides its elements.
LEMMA ElementsCut ==
  ASSUME NEW T, NEW s \in Seq(T), NEW k \in 0..Len(s)
  PROVE  /\ SubSeq(s, 1, k) \in Seq(T) /\ SubSeq(s, k + 1, Len(s)) \in Seq(T)
         /\ Elements(s) = Elements(SubSeq(s, 1, k)) \union Elements(SubSeq(s, k + 1, Len(s)))
<1> DEFINE u == SubSeq(s, 1, k)
           v == SubSeq(s, k + 1, Len(s))
           n == Len(s)
<1>1. n \in Nat /\ k \in Nat /\ k <= n /\ DOMAIN s = 1..n
  BY SMTT(40)
<1>2. \A i \in 1..k : s[i] \in T
  BY SMTT(40)
<1>3. /\ u \in Seq(T) /\ Len(u) = IF 1 <= k THEN k - 1 + 1 ELSE 0
      /\ \A i \in 1..(k - 1 + 1) : u[i] = s[1 + i - 1]
  BY <1>1, <1>2, SubSeqProperties, SMTT(40)
<1>4. /\ v \in Seq(T) /\ Len(v) = n - k
      /\ \A i \in 1..Len(v) : k + i \in 1..n /\ v[i] = s[k + i]
  BY SuffixElements
<1> HIDE DEF u, v, n
<1>5. Len(u) = k /\ \A i \in 1..k : u[i] = s[i]
  <2>1. Len(u) = k /\ k - 1 + 1 = k
    BY <1>1, <1>3, SMTT(40)
  <2>2. \A i \in 1..k : 1 + i - 1 = i
    BY <1>1, SMTT(40)
  <2> QED
    BY <1>3, <2>1, <2>2
<1>6. DOMAIN u = 1..k /\ DOMAIN v = 1..(n - k)
  BY <1>1, <1>3, <1>4, <1>5, SMTT(40)
<1>7. ASSUME NEW i \in 1..n PROVE s[i] \in Elements(u) \union Elements(v)
  <2>1. CASE i <= k
    <3>1. i \in 1..k
      BY <2>1, <1>1, SMTT(40)
    <3> QED
      BY <1>5, <1>6, <3>1 DEF Elements
  <2>2. CASE ~(i <= k)
    <3>1. i - k \in 1..(n - k) /\ k + (i - k) = i
      BY <2>2, <1>1, SMTT(40)
    <3> QED
      BY <1>4, <1>6, <3>1 DEF Elements
  <2> QED
    BY <2>1, <2>2
<1>8. \A i \in 1..k : i \in 1..n
  BY <1>1, SMTT(40)
<1>9. Elements(u) \subseteq Elements(s) /\ Elements(v) \subseteq Elements(s)
  <2>1. \A i \in DOMAIN u : i \in DOMAIN s /\ u[i] = s[i]
    BY <1>1, <1>5, <1>6, <1>8
  <2>2. \A i \in DOMAIN v : k + i \in DOMAIN s /\ v[i] = s[k + i]
    BY <1>1, <1>4, <1>6
  <2>3. Elements(u) \subseteq Elements(s)
    BY <2>1 DEF Elements
  <2>4. Elements(v) \subseteq Elements(s)
    BY <2>2 DEF Elements
  <2> QED
    BY <2>3, <2>4
<1>10. Elements(s) = Elements(u) \union Elements(v)
  BY <1>1, <1>7, <1>9 DEF Elements
<1> QED
  BY <1>3, <1>4, <1>10 DEF u, v, n

\* The elements of a sequence that is not empty are its head and its tail's.
LEMMA ElementsTail ==
  ASSUME NEW T, NEW s \in Seq(T), s # <<>>
  PROVE  /\ Head(s) \in T /\ Tail(s) \in Seq(T) /\ Len(Tail(s)) = Len(s) - 1
         /\ Head(s) = s[1] /\ \A i \in 1..(Len(s) - 1) : Tail(s)[i] = s[i + 1]
         /\ Elements(s) = {Head(s)} \union Elements(Tail(s))
<1> DEFINE n == Len(s)
<1>1. n \in Nat /\ n >= 1 /\ DOMAIN s = 1..n
  BY SMTT(40)
<1>2. /\ Head(s) \in T /\ Tail(s) \in Seq(T) /\ Len(Tail(s)) = n - 1
      /\ Head(s) = s[1] /\ \A i \in 1..(n - 1) : Tail(s)[i] = s[i + 1]
  BY SMTT(40)
<1>3. DOMAIN Tail(s) = 1..(n - 1)
  BY <1>1, <1>2, SMTT(40)
<1> HIDE DEF n
<1>4. ASSUME NEW i \in 1..n PROVE s[i] \in {Head(s)} \union Elements(Tail(s))
  <2>1. CASE i = 1
    BY <1>2, <2>1
  <2>2. CASE i # 1
    <3>1. i - 1 \in 1..(n - 1) /\ (i - 1) + 1 = i
      BY <1>1, <2>2, SMTT(40)
    <3> QED
      BY <1>2, <1>3, <3>1, SMTT(40) DEF Elements
  <2> QED
    BY <2>1, <2>2
<1>5. \A i \in 1..(n - 1) : i + 1 \in 1..n
  BY <1>1, SMTT(40)
<1>6. Elements(Tail(s)) \subseteq Elements(s) /\ Head(s) \in Elements(s)
  BY <1>1, <1>2, <1>3, <1>5, SMTT(40) DEF Elements
<1>7. Elements(s) = {Head(s)} \union Elements(Tail(s))
  BY <1>1, <1>4, <1>6 DEF Elements
<1> QED
  BY <1>2, <1>7 DEF n
================================================================================
