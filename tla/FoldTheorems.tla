---------------------------- MODULE FoldTheorems ----------------------------
(***************************************************************************)
(* What the fold of a sequence from the left is, for any operator: the      *)
(* base for the empty sequence, and one application more for one element    *)
(* more.  The community modules define a fold by the choice of a function   *)
(* on the subsets of the sequence's domain; that there is one is shown by   *)
(* induction over the numbers, which are well founded.  A module that       *)
(* folds with an operator of its own takes these theorems from an instance. *)
(***************************************************************************)
EXTENDS Integers, SequencesExt, WellFoundedInduction, NaturalsInduction, TLAPS

CONSTANT op(_, _) \* the operator that is folded

Fold(base, s) == FoldLeft(op, base, s)

\* Induction, as a fact about a set: a set that holds 0 and every successor holds
\* every number.
LEMMA NatSet ==
  ASSUME NEW S, 0 \in S, \A k \in Nat : k \in S => k + 1 \in S
  PROVE  \A n \in Nat : n \in S
<1> DEFINE Less == {x \in Nat \X Nat : x[1] < x[2]}
           B == {n \in Nat : n \notin S}
<1>1. IsWellFoundedOn(Less, Nat)
  <2>1. OpToRel(<, Nat) = Less BY DEF OpToRel
  <2> QED BY <2>1, NatLessThanWellFounded
<1> SUFFICES ASSUME B # {} PROVE FALSE
  OBVIOUS
<1>2. PICK m \in B : \A k \in B : <<k, m>> \notin Less BY <1>1, WFMin
<1>3. m \in Nat /\ m # 0 /\ m - 1 \in Nat OBVIOUS
<1>4. m - 1 \notin B
  <2>1. <<m - 1, m>> \in Less BY <1>3
  <2> QED BY <1>2, <2>1
<1>5. m - 1 \in S /\ (m - 1) + 1 = m BY <1>3, <1>4
<1> QED BY <1>2, <1>3, <1>5

\* The largest number of a set that holds the upper end of its range.
LEMMA MaxIs ==
  ASSUME NEW n \in Nat, NEW S \in SUBSET (1..n), n \in S
  PROVE  Max(S) = n
<1>1. \A y \in S : n >= y OBVIOUS
<1>2. \A x \in S : (\A y \in S : x >= y) => x = n OBVIOUS
<1> QED BY <1>1, <1>2, Zenon DEF Max

\* h is the function on subsets that the fold chooses.
FoldStep(h, S, base, s) == IF S = {} THEN base ELSE op(h[S \ {Max(S)}], s[Max(S)])
Iter(h, n, base, s) == h = [S \in SUBSET (1..n) |-> FoldStep(h, S, base, s)]

\* There is such a function for every length.
LEMMA IterExists ==
  ASSUME NEW n \in Nat, NEW base, NEW s
  PROVE  \E h : Iter(h, n, base, s)
<1> DEFINE N == {k \in Nat : \E h : Iter(h, k, base, s)}
<1>1. 0 \in N
  <2> DEFINE h == [S \in SUBSET (1..0) |-> base]
  <2>1. \A S \in SUBSET (1..0) : FoldStep(h, S, base, s) = base BY DEF FoldStep
  <2>2. Iter(h, 0, base, s) BY <2>1 DEF Iter
  <2> QED BY <2>2
<1>2. ASSUME NEW k \in Nat, k \in N PROVE k + 1 \in N
  <2>1. PICK h : Iter(h, k, base, s) BY <1>2
  <2> DEFINE g == [S \in SUBSET (1..k+1) |-> IF k + 1 \in S THEN op(h[S \ {k+1}], s[k+1]) ELSE h[S]]
  <2>2. ASSUME NEW S \in SUBSET (1..k+1) PROVE g[S] = FoldStep(g, S, base, s)
    <3>1. CASE k + 1 \in S
      <4>1. Max(S) = k + 1 BY <3>1, MaxIs
      <4>2. S \ {k+1} \in SUBSET (1..k+1) /\ k+1 \notin S \ {k+1} BY <3>1
      <4>3. g[S \ {k+1}] = h[S \ {k+1}] BY <4>2
      <4>4. g[S] = op(h[S \ {k+1}], s[k+1]) BY <3>1
      <4>5. S # {} BY <3>1
      <4> HIDE DEF g
      <4> QED BY <4>1, <4>3, <4>4, <4>5 DEF FoldStep
    <3>2. CASE k + 1 \notin S
      <4>1. S \in SUBSET (1..k) BY <3>2
      <4>2. g[S] = h[S] BY <3>2
      <4>3. h[S] = FoldStep(h, S, base, s) BY <2>1, <4>1 DEF Iter
      <4>4. S \ {Max(S)} \in SUBSET (1..k+1) /\ k + 1 \notin S \ {Max(S)} BY <3>2
      <4>5. g[S \ {Max(S)}] = h[S \ {Max(S)}] BY <4>4
      <4> HIDE DEF g
      <4> QED BY <4>2, <4>3, <4>5 DEF FoldStep
    <3> QED BY <3>1, <3>2
  <2>3. g = [S \in SUBSET (1..k+1) |-> g[S]] OBVIOUS
  <2>4. Iter(g, k + 1, base, s)
    <3> HIDE DEF g
    <3> QED BY <2>2, <2>3 DEF Iter
  <2> QED BY <2>4
<1>3. \A k \in Nat : k \in N
  <2> HIDE DEF N
  <2> QED BY <1>1, <1>2, NatSet
<1> QED BY <1>3

TheIter(n, base, s) == CHOOSE h : Iter(h, n, base, s)

\* The fold is its value for the whole domain.
LEMMA FoldIs ==
  ASSUME NEW n \in Nat, NEW base, NEW s, DOMAIN s = 1..n
  PROVE  Fold(base, s) = TheIter(n, base, s)[1..n]
BY DEF Fold, FoldLeft, MapThenFoldSet, TheIter, Iter, FoldStep

\* What is chosen is one.
LEMMA TheIterIs ==
  ASSUME NEW n \in Nat, NEW base, NEW s
  PROVE  Iter(TheIter(n, base, s), n, base, s)
BY IterExists DEF TheIter

\* Two of them agree where the sequences do.
LEMMA IterUnique ==
  ASSUME NEW n \in Nat, NEW m \in Nat, n <= m, NEW base, NEW s, NEW t,
         \A i \in 1..n : s[i] = t[i],
         NEW g, Iter(g, n, base, s), NEW h, Iter(h, m, base, t)
  PROVE  \A S \in SUBSET (1..n) : g[S] = h[S]
<1> DEFINE N == {k \in Nat : k <= n => \A S \in SUBSET (1..k) : g[S] = h[S]}
<1>1. 0 \in N
  <2>1. \A S \in SUBSET (1..0) : S = {} OBVIOUS
  <2>2. g[{}] = base /\ h[{}] = base BY DEF Iter, FoldStep
  <2> QED BY <2>1, <2>2
<1>2. ASSUME NEW k \in Nat, k \in N PROVE k + 1 \in N
  <2> SUFFICES ASSUME k + 1 <= n, NEW S \in SUBSET (1..k+1) PROVE g[S] = h[S]
    OBVIOUS
  <2>1. S \in SUBSET (1..n) /\ S \in SUBSET (1..m) OBVIOUS
  <2>2. CASE k + 1 \in S
    <3>1. Max(S) = k + 1 BY <2>2, MaxIs
    <3>2. S \ {k+1} \in SUBSET (1..k) OBVIOUS
    <3>3. g[S \ {k+1}] = h[S \ {k+1}] BY <1>2, <3>2
    <3>4. g[S] = op(g[S \ {k+1}], s[k+1]) BY <2>1, <2>2, <3>1 DEF Iter, FoldStep
    <3>5. h[S] = op(h[S \ {k+1}], t[k+1]) BY <2>1, <2>2, <3>1 DEF Iter, FoldStep
    <3>6. s[k+1] = t[k+1] OBVIOUS
    <3> QED BY <3>3, <3>4, <3>5, <3>6
  <2>3. CASE k + 1 \notin S
    <3>1. S \in SUBSET (1..k) BY <2>3
    <3> QED BY <1>2, <3>1
  <2> QED BY <2>2, <2>3
<1>3. n \in N
  <2> HIDE DEF N
  <2> QED BY <1>1, <1>2, NatSet
<1> QED BY <1>3

\* The fold of the empty sequence is its base.
THEOREM FoldEmpty ==
  ASSUME NEW base, NEW s, DOMAIN s = {}
  PROVE  Fold(base, s) = base
<1>1. 1..0 = {} OBVIOUS
<1>2. Fold(base, s) = TheIter(0, base, s)[1..0] BY <1>1, FoldIs
<1>3. Iter(TheIter(0, base, s), 0, base, s) BY TheIterIs
<1>4. TheIter(0, base, s)[{}] = base BY <1>3 DEF Iter, FoldStep
<1> QED BY <1>1, <1>2, <1>4

\* The fold of a sequence with one element more is one application more.
THEOREM FoldOn ==
  ASSUME NEW base, NEW n \in Nat, NEW s, DOMAIN s = 1..n,
         NEW t, DOMAIN t = 1..n+1, \A i \in 1..n : s[i] = t[i]
  PROVE  Fold(base, t) = op(Fold(base, s), t[n+1])
<1> DEFINE g == TheIter(n, base, s)
           h == TheIter(n + 1, base, t)
<1>1. Iter(g, n, base, s) /\ Iter(h, n + 1, base, t) BY TheIterIs
<1>2. Fold(base, s) = g[1..n] BY FoldIs
<1>3. Fold(base, t) = h[1..n+1] BY FoldIs
<1> HIDE DEF g, h
<1>4. n + 1 \in 1..n+1 /\ (1..n+1) \ {n+1} = 1..n OBVIOUS
<1>5. Max(1..n+1) = n + 1 BY MaxIs, <1>4
<1>6. h[1..n+1] = op(h[1..n], t[n+1])
  <2>1. h[1..n+1] = FoldStep(h, 1..n+1, base, t) BY <1>1 DEF Iter
  <2> QED BY <2>1, <1>4, <1>5 DEF FoldStep
<1>7. g[1..n] = h[1..n]
  <2> DEFINE m == n + 1
  <2>1. n <= m /\ m \in Nat /\ Iter(h, m, base, t) /\ 1..n \in SUBSET (1..n) BY <1>1
  <2> HIDE DEF m
  <2>2. \A S \in SUBSET (1..n) : g[S] = h[S]
    BY <1>1, <2>1, IterUnique
  <2> QED BY <2>1, <2>2
<1> QED BY <1>2, <1>3, <1>6, <1>7
=============================================================================
