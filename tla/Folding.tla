------------------------------ MODULE Folding ------------------------------
(***************************************************************************)
(* What FoldLeft computes, for one operator: the recursive function in its *)
(* definition exists, and taken along a sequence it goes position by       *)
(* position.  INSTANCE gives op the operator a specification folds with.   *)
(***************************************************************************)
EXTENDS LeastNumber, Sequences, SequencesExt

CONSTANT op(_, _)

Folded(base, s) == FoldLeft(op, base, s)

\* One round of the recursion in FoldLeft's definition.
Round(g, base, s, S) == IF S = {} THEN base ELSE op(g[S \ {Max(S)}], s[Max(S)])

IsIter(g, base, s, n) == g = [S \in SUBSET (1..n) |-> Round(g, base, s, S)]

Iter(base, s) == CHOOSE g : g = [S \in SUBSET DOMAIN s |-> Round(g, base, s, S)]

\* The values a fold goes through, from the empty sequence to s.
Steps(h, base, s) ==
    /\ h[0] = base
    /\ \A k \in 1..Len(s) : h[k] = op(h[k - 1], s[k])

LEMMA FoldedIsIter ==
    ASSUME NEW base, NEW s
    PROVE  Folded(base, s) = Iter(base, s)[DOMAIN s]
BY Zenon DEF Folded, FoldLeft, MapThenFoldSet, Iter, Round

LEMMA MaxIsLast ==
    ASSUME NEW k \in Nat, NEW S \in SUBSET (1..k + 1), k + 1 \in S
    PROVE  Max(S) = k + 1
<1>1. \A y \in S : k + 1 >= y
  BY SMT
<1>2. Max(S) \in S /\ \A y \in S : Max(S) >= y
  BY Zenon, <1>1 DEF Max
<1>3. Max(S) \in 1..k + 1 /\ Max(S) >= k + 1
  BY Zenon, <1>2
<1> HIDE DEF Max
<1> QED BY SMT, <1>3

\* The function FoldLeft is defined with exists, for intervals of any length.
LEMMA IterExists ==
    ASSUME NEW base, NEW s
    PROVE  \A n \in Nat : \E g : IsIter(g, base, s, n)
<1> DEFINE Good(n) == \E g : IsIter(g, base, s, n)
           Bad     == {n \in Nat : ~Good(n)}
<1>1. Good(0)
  <2> DEFINE g == [S \in SUBSET (1..0) |-> base]
  <2>1. \A S \in SUBSET (1..0) : Round(g, base, s, S) = base
    BY SMT DEF Round
  <2>2. IsIter(g, base, s, 0)
    BY Zenon, <2>1 DEF IsIter
  <2> QED BY Zenon, <2>2
<1>2. ASSUME NEW n \in Nat, Good(n)
      PROVE  Good(n + 1)
  <2>1. PICK g : g = [S \in SUBSET (1..n) |-> Round(g, base, s, S)]
    BY Zenon, <1>2 DEF IsIter
  <2> DEFINE h == [S \in SUBSET (1..n + 1) |->
                     IF n + 1 \in S THEN op(g[S \ {n + 1}], s[n + 1]) ELSE g[S]]
  <2>2. \A S \in SUBSET (1..n) : S \in SUBSET (1..n + 1) /\ n + 1 \notin S
    BY SMT
  <2>3. \A S \in SUBSET (1..n) : h[S] = g[S]
    BY Zenon, <2>2
  <2>4. ASSUME NEW S \in SUBSET (1..n + 1)
        PROVE  h[S] = Round(h, base, s, S)
    <3>1. CASE n + 1 \in S
      <4>1. Max(S) = n + 1
        BY Zenon, <3>1, MaxIsLast
      <4>2. S \ {n + 1} \in SUBSET (1..n)
        BY SMT
      <4> QED BY Zenon, <2>3, <3>1, <4>1, <4>2 DEF Round
    <3>2. CASE n + 1 \notin S
      <4>1. S \in SUBSET (1..n)
        BY SMT, <3>2
      <4>2. h[S] = Round(g, base, s, S)
        BY Zenon, <2>1, <2>3, <4>1
      <4>3. S # {} => S \ {Max(S)} \in SUBSET (1..n)
        BY Zenon, <4>1
      <4> QED BY Zenon, <2>3, <4>2, <4>3 DEF Round
    <3> QED BY Zenon, <3>1, <3>2
  <2>5. IsIter(h, base, s, n + 1)
    BY Zenon, <2>4 DEF IsIter
  <2> QED BY Zenon, <2>5
<1> HIDE DEF Good
<1>3. Bad = {}
  <2> SUFFICES ASSUME Bad # {} PROVE FALSE
    BY Zenon
  <2>1. PICK m \in Bad : \A k \in Bad : m <= k
    BY Zenon, LeastNatural
  <2>2. CASE m = 0
    BY Zenon, <1>1, <2>2
  <2>3. CASE m # 0
    <3>1. m - 1 \in Nat /\ (m - 1) + 1 = m /\ ~(m <= m - 1)
      BY SMT, <2>3
    <3>2. Good(m - 1)
      BY Zenon, <2>1, <3>1
    <3> QED BY Zenon, <1>2, <3>1, <3>2
  <2> QED BY Zenon, <2>2, <2>3
<1> QED BY Zenon, <1>3 DEF Good

\* A fold goes along its sequence step by step.
LEMMA FoldSteps ==
    ASSUME NEW T, NEW s \in Seq(T), NEW base
    PROVE  \E h : Steps(h, base, s) /\ Folded(base, s) = h[Len(s)]
<1> DEFINE g == Iter(base, s)
           h == [k \in 0..Len(s) |-> g[1..k]]
<1>1. DOMAIN s = 1..Len(s) /\ Len(s) \in Nat
  BY SMT
<1>2. g = [S \in SUBSET (1..Len(s)) |-> Round(g, base, s, S)]
  <2>1. \E f : IsIter(f, base, s, Len(s))
    BY Zenon, <1>1, IterExists
  <2>2. \E f : f = [S \in SUBSET DOMAIN s |-> Round(f, base, s, S)]
    BY Zenon, <1>1, <2>1 DEF IsIter
  <2>3. g = [S \in SUBSET DOMAIN s |-> Round(g, base, s, S)]
    BY Zenon, <2>2 DEF Iter
  <2> QED BY Zenon, <1>1, <2>3
<1> HIDE DEF g
<1>3. h[0] = base
  <2>1. 1..0 = {} /\ {} \in SUBSET (1..Len(s)) /\ 0 \in 0..Len(s)
    BY SMT, <1>1
  <2>2. g[{}] = base
    BY Zenon, <1>2, <2>1 DEF Round
  <2> QED BY Zenon, <2>1, <2>2
<1>4. ASSUME NEW k \in 1..Len(s)
      PROVE  h[k] = op(h[k - 1], s[k])
  <2>1. /\ k \in 0..Len(s) /\ k - 1 \in 0..Len(s) /\ 1..k \subseteq 1..Len(s)
        /\ 1..k # {} /\ k \in 1..k /\ k - 1 \in Nat /\ (k - 1) + 1 = k
    <3> HIDE DEF h
    <3>1. k \in Nat /\ k >= 1 /\ k <= Len(s)
      BY SMT, <1>1
    <3>2. 1..k \subseteq 1..Len(s)
      BY SMT, <1>1, <3>1
    <3>3. k \in 1..k
      BY SMT, <3>1
    <3>4. k \in 0..Len(s) /\ k - 1 \in 0..Len(s) /\ k - 1 \in Nat /\ (k - 1) + 1 = k
      BY SMT, <1>1, <3>1
    <3> QED BY Zenon, <3>2, <3>3, <3>4
  <2>2. (1..k) \ {k} = 1..k - 1
    BY SMT, <1>1, <2>1
  <2>3. Max(1..k) = k
    BY Zenon, <2>1, MaxIsLast
  <2>4. g[1..k] = op(g[1..k - 1], s[k])
    BY Zenon, <1>2, <2>1, <2>3, <2>2 DEF Round
  <2> QED BY Zenon, <2>1, <2>4
<1>5. Folded(base, s) = h[Len(s)]
  <2>1. Len(s) \in 0..Len(s)
    BY SMT, <1>1
  <2> QED BY Zenon, <1>1, <2>1, FoldedIsIter DEF g
<1> QED BY Zenon, <1>3, <1>4, <1>5 DEF Steps

\* And there is only one way to go.
Agree(s, t, n) == \A k \in 1..n : s[k] = t[k]

LEMMA StepsAgree ==
    ASSUME NEW base, NEW s, NEW t, NEW g, NEW h, NEW n \in Nat,
           Len(s) \in Nat, Len(t) \in Nat, n <= Len(s), n <= Len(t),
           Agree(s, t, n), Steps(g, base, s), Steps(h, base, t)
    PROVE  g[n] = h[n]
<1> DEFINE Bad == {k \in Nat : k <= n /\ g[k] # h[k]}
<1>1. Bad = {}
  <2> SUFFICES ASSUME Bad # {} PROVE FALSE
    BY Zenon
  <2>1. PICK m \in Bad : \A k \in Bad : m <= k
    BY Zenon, LeastNatural
  <2>2. CASE m = 0
    BY Zenon, <2>2 DEF Steps
  <2>3. CASE m # 0
    <3>1. /\ m - 1 \in Nat /\ m - 1 <= n /\ ~(m <= m - 1)
          /\ m \in 1..n /\ m \in 1..Len(s) /\ m \in 1..Len(t)
      BY SMT, <2>3
    <3>2. g[m - 1] = h[m - 1]
      BY Zenon, <2>1, <3>1
    <3>3. g[m] = op(g[m - 1], s[m]) /\ h[m] = op(h[m - 1], t[m]) /\ s[m] = t[m]
      BY Zenon, <3>1 DEF Steps, Agree
    <3> QED BY Zenon, <3>2, <3>3
  <2> QED BY Zenon, <2>2, <2>3
<1> QED BY SMT, <1>1

LEMMA FoldEmpty == ASSUME NEW base PROVE Folded(base, << >>) = base
<1>1. << >> \in Seq({}) /\ Len(<< >>) = 0
  BY SMT
<1>2. PICK h : Steps(h, base, << >>) /\ Folded(base, << >>) = h[Len(<< >>)]
  BY Zenon, <1>1, FoldSteps
<1> QED BY Zenon, <1>1, <1>2 DEF Steps

\* The usual equation.
LEMMA FoldAppend ==
    ASSUME NEW T, NEW s \in Seq(T), NEW x \in T, NEW base
    PROVE  Folded(base, Append(s, x)) = op(Folded(base, s), x)
<1> DEFINE t == Append(s, x)
<1>1. /\ t \in Seq(T) /\ Len(s) \in Nat /\ Len(t) = Len(s) + 1 /\ t[Len(s) + 1] = x
      /\ Agree(s, t, Len(s))
  BY SMT DEF Agree
<1> HIDE DEF t
<1>2. PICK g : Steps(g, base, s) /\ Folded(base, s) = g[Len(s)]
  BY Zenon, FoldSteps
<1>3. PICK h : Steps(h, base, t) /\ Folded(base, t) = h[Len(t)]
  BY Zenon, <1>1, FoldSteps
<1>4. /\ Len(s) <= Len(s) /\ Len(s) <= Len(t) /\ Len(t) \in Nat
      /\ Len(s) + 1 \in 1..Len(t) /\ (Len(s) + 1) - 1 = Len(s)
  BY SMT, <1>1
<1>5. g[Len(s)] = h[Len(s)]
  BY SMT, <1>1, <1>2, <1>3, <1>4, StepsAgree
<1>6. h[Len(s) + 1] = op(h[Len(s)], x)
  BY Zenon, <1>1, <1>3, <1>4 DEF Steps
<1> QED BY Zenon, <1>1, <1>2, <1>3, <1>5, <1>6 DEF t
=============================================================================
