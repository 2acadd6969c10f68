------------------------------ MODULE FoldProofs ------------------------------
(***************************************************************************)
(* Induction over numbers, sequences and finite sets, and what the folds   *)
(* and sums of the community modules compute.  The induction theorems of   *)
(* the library take a predicate as a parameter, which the provers cannot   *)
(* instantiate; here the parameter is the set of the values that satisfy   *)
(* it.  A fold is that of the operator Op, for which a module that uses    *)
(* these facts substitutes its own.                                        *)
(***************************************************************************)
EXTENDS Integers, Sequences, SequencesExt, FiniteSetTheorems, SequenceTheorems, TLAPS

CONSTANT Op(_, _)

\* A set of natural numbers has a smallest element.
LEMMA Smallest ==
  ASSUME NEW T, T \subseteq Nat, T # {}
  PROVE  \E m \in T : \A n \in T : m <= n
PROOF
<1>1. PICK m \in T : \A n \in T : <<n, m>> \notin OpToRel(<, Nat)
  BY NatLessThanWellFounded, WFMin
<1>2. \A n \in T : ~(n < m)
  BY <1>1 DEF OpToRel
<1>3. QED BY <1>2

\* Counting up to a bound.
LEMMA Counting ==
  ASSUME NEW N \in Nat, NEW T, 0 \in T, \A n \in 0 .. N - 1 : n \in T => n + 1 \in T
  PROVE  \A n \in 0 .. N : n \in T
PROOF
<1> DEFINE Left == {n \in 0 .. N : n \notin T}
<1> SUFFICES ASSUME Left # {} PROVE FALSE
  OBVIOUS
<1>1. PICK m \in Left : \A n \in Left : m <= n
  <2> HIDE DEF Left
  <2>1. Left \subseteq Nat
    BY DEF Left
  <2>2. QED BY <2>1, Smallest
<1>2. m # 0 /\ m - 1 \in 0 .. N - 1 /\ m - 1 \notin Left
  BY <1>1
<1>3. m - 1 \in T
  BY <1>2
<1>4. (m - 1) + 1 \in T
  BY <1>2, <1>3
<1>5. QED BY <1>1, <1>4

\* Induction over sequences, element by element.
LEMMA SequenceInduction ==
  ASSUME NEW S, NEW T, << >> \in T,
         \A seq \in Seq(S), e \in S : seq \in T => Append(seq, e) \in T
  PROVE  Seq(S) \subseteq T
PROOF
<1> SUFFICES ASSUME NEW seq \in Seq(S) PROVE seq \in T
  OBVIOUS
<1> DEFINE Part(n) == SubSeq(seq, 1, n)
           U       == {n \in 0 .. Len(seq) : Part(n) \in T}
<1>1. Len(seq) \in Nat /\ DOMAIN seq = 1 .. Len(seq)
  BY LenProperties
<1>2. Part(0) = << >> /\ Part(Len(seq)) = seq
  OBVIOUS
<1>3. 0 \in U
  <2> HIDE DEF Part
  <2>1. QED BY <1>1, <1>2
<1>4. ASSUME NEW n \in 0 .. Len(seq) - 1, n \in U
      PROVE  n + 1 \in U
  <2>1. Part(n) \in Seq(S) /\ seq[n + 1] \in S
    BY <1>1
  <2>2. Part(n + 1) = Append(Part(n), seq[n + 1])
    BY <1>1
  <2> HIDE DEF Part
  <2>3. Part(n) \in T
    BY <1>4
  <2>4. Append(Part(n), seq[n + 1]) \in T
    BY <2>1, <2>3
  <2>5. n + 1 \in 0 .. Len(seq)
    BY <1>1
  <2>6. QED BY <2>2, <2>4, <2>5
<1>5. Len(seq) \in U
  <2> HIDE DEF U
  <2>1. \A n \in 0 .. Len(seq) : n \in U
    BY <1>1, <1>3, <1>4, Counting
  <2>2. QED BY <1>1, <2>1
<1>6. QED BY <1>2, <1>5

\* Induction over a finite set, element by element.
LEMMA SetInduction ==
  ASSUME NEW S, IsFiniteSet(S), NEW T, {} \in T,
         \A s \in SUBSET S, x \in S : s \in T /\ x \notin s => s \cup {x} \in T
  PROVE  S \in T
PROOF
<1> DEFINE U == {n \in Nat : \E s \in SUBSET S : Cardinality(s) = n /\ s \notin T}
<1> SUFFICES ASSUME S \notin T PROVE FALSE
  OBVIOUS
<1>1. Cardinality(S) \in U
  BY FS_CardinalityType
<1>2. PICK m \in U : \A n \in U : m <= n
  <2> HIDE DEF U
  <2>1. U \subseteq Nat
    BY DEF U
  <2>2. QED BY <1>1, <2>1, Smallest
<1>3. PICK s \in SUBSET S : Cardinality(s) = m /\ s \notin T
  OBVIOUS
<1>4. PICK x : x \in s
  BY <1>3
<1>5. IsFiniteSet(s) /\ IsFiniteSet(s \ {x}) /\ Cardinality(s \ {x}) = m - 1
  BY <1>3, <1>4, FS_Subset, FS_RemoveElement
<1>6. m - 1 \in Nat
  BY <1>5, FS_CardinalityType
<1>7. s \ {x} \in T
  BY <1>2, <1>5, <1>6
<1>8. (s \ {x}) \cup {x} \in T
  BY <1>4, <1>7
<1>9. QED BY <1>3, <1>4, <1>8
-----------------------------------------------------------------------------
\* The maximum is what it is called, for a set of numbers that has a bound.
LEMMA MaxIs ==
  ASSUME NEW s, NEW n \in s, \A x \in s : x \in Int /\ x <= n
  PROVE  Max(s) = n
PROOF
<1> DEFINE P(m) == m \in s /\ \A y \in s : m >= y
<1>1. P(n)
  OBVIOUS
<1>2. Max(s) = CHOOSE m : P(m)
  BY Zenon DEF Max
<1>3. \A m : P(m) => m = n
  OBVIOUS
<1> HIDE DEF P
<1>4. P(CHOOSE m : P(m))
  BY <1>1, Zenon
<1>5. QED BY <1>2, <1>3, <1>4

\* A set of numbers below a bound has a greatest.
LEMMA HasMax ==
  ASSUME NEW n \in Nat, NEW s \in SUBSET (1 .. n), s # {}
  PROVE  Max(s) \in s /\ \A x \in s : x <= Max(s)
PROOF
<1> DEFINE T == {k \in Nat : \A x \in s : x <= k}
<1>1. n \in T
  OBVIOUS
<1>2. PICK m \in T : \A k \in T : m <= k
  <2> HIDE DEF T
  <2>1. T \subseteq Nat
    BY DEF T
  <2>2. QED BY <1>1, <2>1, Smallest
<1>3. m \in s
  <2> SUFFICES ASSUME m \notin s PROVE FALSE
    OBVIOUS
  <2>1. PICK y : y \in s
    OBVIOUS
  <2>2. m - 1 \in T
    BY <2>1
  <2>3. QED BY <1>2, <2>2
<1>4. \A x \in s : x \in Int /\ x <= m
  OBVIOUS
<1>5. Max(s) = m
  BY <1>3, <1>4, MaxIs
<1>6. QED BY <1>3, <1>4, <1>5
-----------------------------------------------------------------------------
\* g is the function the fold of the first n elements of seq recurses over.
Folds(g, base, seq, n) ==
  g = [s \in SUBSET (1 .. n) |->
         IF s = {} THEN base ELSE Op(g[s \ {Max(s)}], seq[Max(s)])]

\* There is one.
LEMMA FoldsExist ==
  ASSUME NEW base, NEW seq, NEW n \in Nat
  PROVE  \E g : Folds(g, base, seq, n)
PROOF
<1> DEFINE T == {k \in 0 .. n : \E g : Folds(g, base, seq, k)}
<1>1. 0 \in T
  <2> DEFINE g == [s \in SUBSET (1 .. 0) |-> base]
  <2>1. \A s \in SUBSET (1 .. 0) : s = {}
    OBVIOUS
  <2>2. Folds(g, base, seq, 0)
    BY <2>1 DEF Folds
  <2>3. QED BY <2>2
<1>2. ASSUME NEW k \in 0 .. n - 1, k \in T
      PROVE  k + 1 \in T
  <2>1. PICK f : Folds(f, base, seq, k)
    BY <1>2
  <2> DEFINE m == k + 1
             g == [s \in SUBSET (1 .. m) |->
                     IF m \in s THEN Op(f[s \ {m}], seq[m]) ELSE f[s]]
  <2>2. ASSUME NEW s \in SUBSET (1 .. m)
        PROVE  g[s] = IF s = {} THEN base ELSE Op(g[s \ {Max(s)}], seq[Max(s)])
    <3>1. CASE m \in s
      <4>1. \A x \in s : x \in Int /\ x <= m
        OBVIOUS
      <4>2. Max(s) = m
        BY <3>1, <4>1, MaxIs
      <4>3. g[s \ {m}] = f[s \ {m}]
        OBVIOUS
      <4>4. QED BY <3>1, <4>2, <4>3
    <3>2. CASE m \notin s
      <4>1. s \in SUBSET (1 .. k)
        BY <3>2
      <4>2. f[s] = IF s = {} THEN base ELSE Op(f[s \ {Max(s)}], seq[Max(s)])
        BY <2>1, <4>1 DEF Folds
      <4>3. g[s] = f[s] /\ g[s \ {Max(s)}] = f[s \ {Max(s)}]
        BY <3>2
      <4>4. QED BY <4>2, <4>3
    <3>3. QED BY <3>1, <3>2
  <2>3. Folds(g, base, seq, m)
    BY <2>2 DEF Folds
  <2>4. QED BY <2>3
<1>3. n \in T
  <2> HIDE DEF T
  <2>1. \A k \in 0 .. n : k \in T
    BY <1>1, <1>2, Counting
  <2>2. QED BY <2>1
<1>4. QED BY <1>3

\* It takes the elements in their order.
InOrder(g, base, seq, n) ==
  /\ g[1 .. 0] = base
  /\ \A k \in 0 .. n - 1 : g[1 .. k + 1] = Op(g[1 .. k], seq[k + 1])

\* Both facts follow from the equation the fold recurses by.
LEMMA FoldsStep ==
  ASSUME NEW base, NEW seq, NEW g, NEW n \in Nat, Folds(g, base, seq, n)
  PROVE  InOrder(g, base, seq, n)
PROOF
<1>1. g[1 .. 0] = base
  BY DEF Folds
<1>2. ASSUME NEW k \in 0 .. n - 1
      PROVE  g[1 .. k + 1] = Op(g[1 .. k], seq[k + 1])
  <2> DEFINE s == 1 .. k + 1
  <2>1. k + 1 \in s /\ \A x \in s : x \in Int /\ x <= k + 1
    OBVIOUS
  <2> HIDE DEF s
  <2>2. Max(s) = k + 1
    BY <2>1, MaxIs
  <2> USE DEF s
  <2>3. (1 .. k + 1) \ {k + 1} = 1 .. k
    OBVIOUS
  <2>4. 1 .. k + 1 \in SUBSET (1 .. n) /\ 1 .. k + 1 # {}
    OBVIOUS
  <2>5. QED BY <2>2, <2>3, <2>4 DEF Folds
<1>3. QED BY <1>1, <1>2 DEF InOrder

\* It does not depend on the elements that come after.
LEMMA FoldsAgree ==
  ASSUME NEW base, NEW seq, NEW more, NEW n \in Nat, NEW m \in Nat, n <= m,
         \A i \in 1 .. n : seq[i] = more[i],
         NEW g, Folds(g, base, seq, n), NEW h, Folds(h, base, more, m)
  PROVE  g[1 .. n] = h[1 .. n]
PROOF
<1> DEFINE T == {k \in 0 .. n : g[1 .. k] = h[1 .. k]}
<1>1. InOrder(g, base, seq, n) /\ InOrder(h, base, more, m)
  BY FoldsStep
<1>2. \A k \in 0 .. m - 1 : h[1 .. k + 1] = Op(h[1 .. k], more[k + 1])
  BY <1>1 DEF InOrder
<1>3. 0 \in T
  BY <1>1 DEF InOrder
<1>4. ASSUME NEW k \in 0 .. n - 1, k \in T
      PROVE  k + 1 \in T
  <2>1. g[1 .. k + 1] = Op(g[1 .. k], seq[k + 1])
    BY <1>1 DEF InOrder
  <2>2. k \in 0 .. m - 1 /\ k + 1 \in 1 .. n
    OBVIOUS
  <2>3. h[1 .. k + 1] = Op(h[1 .. k], more[k + 1])
    BY <1>2, <2>2
  <2>4. g[1 .. k] = h[1 .. k] /\ seq[k + 1] = more[k + 1]
    BY <1>4, <2>2
  <2>5. QED BY <2>1, <2>2, <2>3, <2>4
<1>5. \A k \in 0 .. n : k \in T
  <2> HIDE DEF T
  <2>1. QED BY <1>3, <1>4, Counting
<1>6. QED BY <1>5

\* The fold of a sequence is its value on all the indices.
Folded(base, seq) == FoldLeft(Op, base, seq)

\* Such a function exists, so the CHOOSE in the fold finds one.
LEMMA FoldIsFolds ==
  ASSUME NEW base, NEW S, NEW seq \in Seq(S)
  PROVE  \E g : Folds(g, base, seq, Len(seq)) /\ Folded(base, seq) = g[1 .. Len(seq)]
PROOF
<1> DEFINE g == CHOOSE g : Folds(g, base, seq, Len(seq))
<1>1. DOMAIN seq = 1 .. Len(seq) /\ Len(seq) \in Nat
  BY LenProperties
<1>2. Folds(g, base, seq, Len(seq))
  BY <1>1, FoldsExist
<1>3. Folded(base, seq) = g[1 .. Len(seq)]
  BY <1>1 DEF Folded, FoldLeft, MapThenFoldSet, Folds
<1>4. QED BY <1>2, <1>3

\* The fold of no elements, and of one more.
LEMMA FoldEmpty ==
  ASSUME NEW base
  PROVE  Folded(base, << >>) = base
PROOF
<1>1. PICK g : Folds(g, base, << >>, 0) /\ Folded(base, << >>) = g[1 .. 0]
  BY FoldIsFolds, << >> \in Seq({}), Len(<< >>) = 0
<1>2. InOrder(g, base, << >>, 0)
  BY <1>1, FoldsStep
<1>3. QED BY <1>1, <1>2 DEF InOrder

\* One more element is one more application of Op, whatever Op is.
LEMMA FoldAppend ==
  ASSUME NEW base, NEW S, NEW seq \in Seq(S), NEW e \in S
  PROVE  Folded(base, Append(seq, e)) = Op(Folded(base, seq), e)
PROOF
<1> DEFINE n    == Len(seq)
           more == Append(seq, e)
<1>1. more \in Seq(S) /\ Len(more) = n + 1 /\ n \in Nat
  OBVIOUS
<1>2. more[n + 1] = e /\ \A i \in 1 .. n : seq[i] = more[i]
  OBVIOUS
<1> HIDE DEF more, n
<1>3. PICK g : Folds(g, base, seq, n) /\ Folded(base, seq) = g[1 .. n]
  BY FoldIsFolds DEF n
<1>4. PICK h : Folds(h, base, more, n + 1) /\ Folded(base, more) = h[1 .. n + 1]
  BY <1>1, FoldIsFolds
<1>5. h[1 .. n + 1] = Op(h[1 .. n], more[n + 1])
  <2>1. InOrder(h, base, more, n + 1)
    BY <1>1, <1>4, FoldsStep
  <2>2. QED BY <1>1, <2>1 DEF InOrder
<1>6. g[1 .. n] = h[1 .. n]
  BY <1>1, <1>2, <1>3, <1>4, FoldsAgree
<1>7. QED BY <1>2, <1>3, <1>4, <1>5, <1>6 DEF more
-----------------------------------------------------------------------------
\* g is the function the sum of fun over the set S recurses over.
Chosen(s) == CHOOSE x \in s : TRUE
Summing(g, fun, S) ==
  g = [s \in SUBSET S |-> IF s = {} THEN 0 ELSE fun[Chosen(s)] + g[s \ {Chosen(s)}]]

\* The sum is its value on the whole set.
SumOf(fun, S) == SumFunctionOnSet(fun, S)
\* It recurses over the subsets of S.
LEMMA SumOfIs ==
  ASSUME NEW fun, NEW S
  PROVE  SumOf(fun, S) = (CHOOSE g : Summing(g, fun, S))[S]
  BY DEF SumOf, SumFunctionOnSet, FoldFunctionOnSet, MapThenFoldSet, Summing, Chosen

\* A subset of a finite set loses its chosen element.
LEMMA ChosenLess ==
  ASSUME NEW S, IsFiniteSet(S), NEW s \in SUBSET S, s # {}
  PROVE  /\ Chosen(s) \in s /\ s \ {Chosen(s)} \in SUBSET S
         /\ Cardinality(s) \in Nat \ {0} /\ Cardinality(s \ {Chosen(s)}) = Cardinality(s) - 1
PROOF
<1>1. Chosen(s) \in s
  BY DEF Chosen
<1>2. IsFiniteSet(s)
  BY FS_Subset
<1>3. Cardinality(s) \in Nat /\ Cardinality(s) # 0
  BY <1>2, FS_CardinalityType, FS_EmptySet
<1>4. Cardinality(s \ {Chosen(s)}) = Cardinality(s) - 1
  BY <1>1, <1>2, FS_RemoveElement
<1>5. QED BY <1>1, <1>3, <1>4

\* Induction over the subsets of a finite set: what holds of a set without its
\* chosen element holds of the set.
LEMMA ChosenInduction ==
  ASSUME NEW S, IsFiniteSet(S), NEW T, {} \in T,
         \A s \in SUBSET S : s # {} /\ s \ {Chosen(s)} \in T => s \in T
  PROVE  SUBSET S \subseteq T
PROOF
<1> DEFINE U == {n \in Nat : \E s \in SUBSET S : Cardinality(s) = n /\ s \notin T}
<1> SUFFICES ASSUME NEW r \in SUBSET S, r \notin T PROVE FALSE
  OBVIOUS
<1>1. Cardinality(r) \in U
  BY ChosenLess
<1>2. PICK m \in U : \A n \in U : m <= n
  <2> HIDE DEF U
  <2>1. U \subseteq Nat
    BY DEF U
  <2>2. QED BY <1>1, <2>1, Smallest
<1>3. PICK s \in SUBSET S : Cardinality(s) = m /\ s \notin T
  OBVIOUS
<1>4. s # {}
  BY <1>3
<1>5. s \ {Chosen(s)} \in SUBSET S /\ m \in Nat \ {0} /\ Cardinality(s \ {Chosen(s)}) = m - 1
  BY <1>3, <1>4, ChosenLess
<1>6. m - 1 \notin U
  <2> HIDE DEF U
  <2>1. QED BY <1>2, <1>5
<1>7. s \ {Chosen(s)} \in T
  BY <1>5, <1>6
<1>8. QED BY <1>3, <1>4, <1>7

\* There is such a function.
LEMMA SummingExists ==
  ASSUME NEW S, IsFiniteSet(S), NEW fun
  PROVE  \E g : Summing(g, fun, S)
PROOF
<1> DEFINE Small(n)    == {s \in SUBSET S : Cardinality(s) <= n}
           Value(g, s) == IF s = {} THEN 0 ELSE fun[Chosen(s)] + g[s \ {Chosen(s)}]
           T           == {n \in 0 .. Cardinality(S) : \E g : g = [s \in Small(n) |-> Value(g, s)]}
<1>1. Cardinality(S) \in Nat
  BY FS_CardinalityType
<1>2. 0 \in T
  <2> DEFINE g == [s \in Small(0) |-> 0]
  <2>1. ASSUME NEW s \in Small(0), s # {} PROVE FALSE
    <3>1. Cardinality(s) \in Nat \ {0}
      BY <2>1, ChosenLess
    <3>2. QED BY <2>1, <3>1
  <2>2. g = [s \in Small(0) |-> Value(g, s)]
    BY <2>1
  <2>3. 0 \in 0 .. Cardinality(S)
    BY <1>1
  <2> HIDE DEF g, Value, Small
  <2>4. QED BY <2>2, <2>3
<1>3. ASSUME NEW n \in 0 .. Cardinality(S) - 1, n \in T
      PROVE  n + 1 \in T
  <2>1. PICK f : f = [s \in Small(n) |-> Value(f, s)]
    BY <1>3
  <2> DEFINE g == [s \in Small(n + 1) |-> Value(f, s)]
  <2>2. ASSUME NEW s \in Small(n + 1) PROVE Value(f, s) = Value(g, s)
    <3>1. CASE s = {}
      BY <3>1
    <3>2. CASE s # {}
      <4>1. PICK r : r = s \ {Chosen(s)}
        OBVIOUS
      <4>2. r \in Small(n) /\ r \in Small(n + 1)
        BY <3>2, <4>1, ChosenLess
      <4>3. f[r] = Value(f, r)
        BY <2>1, <4>2
      <4>4. g[r] = Value(f, r)
        BY <4>2
      <4>5. QED BY <3>2, <4>1, <4>3, <4>4
    <3>3. QED BY <3>1, <3>2
  <2>3. g = [s \in Small(n + 1) |-> Value(g, s)]
    BY <2>2
  <2>4. n + 1 \in 0 .. Cardinality(S)
    BY <1>1
  <2> HIDE DEF g, Value, Small
  <2>5. QED BY <2>3, <2>4
<1>4. Cardinality(S) \in T
  <2> HIDE DEF T
  <2>1. \A n \in 0 .. Cardinality(S) : n \in T
    BY <1>1, <1>2, <1>3, Counting
  <2>2. QED BY <1>1, <2>1
<1>5. Small(Cardinality(S)) = SUBSET S
  BY FS_Subset
<1>6. QED BY <1>4, <1>5 DEF Summing

\* The recursion, at each subset.
LEMMA SummingSteps ==
  ASSUME NEW S, IsFiniteSet(S), NEW fun, NEW g, Summing(g, fun, S), NEW s \in SUBSET S
  PROVE  g[s] = IF s = {} THEN 0 ELSE fun[Chosen(s)] + g[s \ {Chosen(s)}]
  BY DEF Summing

\* Whatever set it was built for, the function sums a set in one way.
LEMMA SummingAgrees ==
  ASSUME NEW S, IsFiniteSet(S), NEW fun, NEW g, Summing(g, fun, S),
         NEW R \in SUBSET S, NEW h, Summing(h, fun, R)
  PROVE  h[R] = g[R]
PROOF
<1> DEFINE T == {s \in SUBSET R : h[s] = g[s]}
<1>1. IsFiniteSet(R)
  BY FS_Subset
<1>2. h[{}] = 0 /\ g[{}] = 0
  <2>1. {} \in SUBSET R /\ {} \in SUBSET S
    OBVIOUS
  <2>2. QED BY <1>1, <2>1, SummingSteps
<1>3. ASSUME NEW s \in SUBSET R, s # {}, s \ {Chosen(s)} \in T
      PROVE  s \in T
  <2>1. h[s] = fun[Chosen(s)] + h[s \ {Chosen(s)}]
    BY <1>1, <1>3, SummingSteps
  <2>2. s \in SUBSET S
    OBVIOUS
  <2>3. g[s] = fun[Chosen(s)] + g[s \ {Chosen(s)}]
    BY <1>3, <2>2, SummingSteps
  <2>4. QED BY <1>3, <2>1, <2>3
<1>4. {} \in T
  BY <1>2
<1>5. SUBSET R \subseteq T
  <2> HIDE DEF T
  <2>1. QED BY <1>1, <1>3, <1>4, ChosenInduction
<1>6. QED BY <1>5

\* The sum over the empty set, and over a set with its chosen element.
LEMMA SumOfStep ==
  ASSUME NEW S, IsFiniteSet(S), NEW fun
  PROVE  SumOf(fun, S) = IF S = {} THEN 0 ELSE fun[Chosen(S)] + SumOf(fun, S \ {Chosen(S)})
PROOF
<1>1. PICK g : g = CHOOSE f : Summing(f, fun, S)
  OBVIOUS
<1>2. Summing(g, fun, S)
  BY <1>1, SummingExists, Zenon
<1>3. SumOf(fun, S) = g[S]
  BY <1>1, SumOfIs
<1>4. g[S] = IF S = {} THEN 0 ELSE fun[Chosen(S)] + g[S \ {Chosen(S)}]
  BY <1>2, SummingSteps
<1>5. CASE S # {}
  <2>1. PICK R : R = S \ {Chosen(S)}
    OBVIOUS
  <2>2. R \in SUBSET S /\ IsFiniteSet(R)
    BY <2>1, FS_Subset
  <2>3. PICK h : h = CHOOSE f : Summing(f, fun, R)
    OBVIOUS
  <2>4. Summing(h, fun, R)
    BY <2>2, <2>3, SummingExists, Zenon
  <2>5. SumOf(fun, R) = h[R]
    BY <2>3, SumOfIs
  <2>6. h[R] = g[R]
    BY <1>2, <2>2, <2>4, SummingAgrees
  <2>7. QED BY <1>3, <1>4, <1>5, <2>1, <2>5, <2>6
<1>6. QED BY <1>3, <1>4, <1>5

\* A sum of numbers between lo and hi is between as many times lo and hi.
LEMMA SumBounds ==
  ASSUME NEW S, IsFiniteSet(S), NEW fun, NEW lo \in Int, NEW hi \in Int,
         \A s \in S : fun[s] \in lo .. hi
  PROVE  SumOf(fun, S) \in lo * Cardinality(S) .. hi * Cardinality(S)
PROOF
<1> DEFINE Within(s) == SumOf(fun, s) \in lo * Cardinality(s) .. hi * Cardinality(s)
           T         == {s \in SUBSET S : Within(s)}
<1>1. {} \in T
  <2>1. IsFiniteSet({}) /\ Cardinality({}) = 0
    BY FS_EmptySet
  <2>2. SumOf(fun, {}) = 0
    BY <2>1, SumOfStep
  <2>3. lo * 0 = 0 /\ hi * 0 = 0
    OBVIOUS
  <2>4. QED BY <2>1, <2>2, <2>3
<1>2. ASSUME NEW s \in SUBSET S, s # {}, s \ {Chosen(s)} \in T
      PROVE  s \in T
  <2>1. PICK r : r = s \ {Chosen(s)}
    OBVIOUS
  <2>2. IsFiniteSet(s)
    BY FS_Subset
  <2>3. SumOf(fun, s) = fun[Chosen(s)] + SumOf(fun, r)
    BY <1>2, <2>1, <2>2, SumOfStep
  <2>4. fun[Chosen(s)] \in lo .. hi
    BY <1>2, ChosenLess
  <2>5. Within(r)
    BY <1>2, <2>1
  <2>6. Cardinality(s) \in Nat \ {0} /\ Cardinality(r) = Cardinality(s) - 1
    BY <1>2, <2>1, ChosenLess
  <2>7. PICK c \in Nat, k \in Nat : c = Cardinality(s) /\ k = Cardinality(r) /\ k = c - 1
    BY <2>6
  <2>8. lo * c = lo * k + lo /\ hi * c = hi * k + hi
    BY <2>7
  <2>9. lo * c \in Int /\ lo * k \in Int /\ hi * c \in Int /\ hi * k \in Int
    OBVIOUS
  <2>10. QED BY <2>3, <2>4, <2>5, <2>7, <2>8, <2>9
<1>3. SUBSET S \subseteq T
  <2> HIDE DEF T
  <2>1. QED BY <1>1, <1>2, ChosenInduction
<1>4. QED BY <1>3

\* Integers add up to an integer.
LEMMA SumType ==
  ASSUME NEW S, IsFiniteSet(S), NEW fun, \A s \in S : fun[s] \in Int
  PROVE  SumOf(fun, S) \in Int
PROOF
<1> DEFINE T == {s \in SUBSET S : SumOf(fun, s) \in Int}
<1>1. {} \in T
  <2>1. IsFiniteSet({})
    BY FS_EmptySet
  <2>2. QED BY <2>1, SumOfStep
<1>2. ASSUME NEW s \in SUBSET S, s # {}, s \ {Chosen(s)} \in T
      PROVE  s \in T
  <2>1. IsFiniteSet(s)
    BY FS_Subset
  <2>2. SumOf(fun, s) = fun[Chosen(s)] + SumOf(fun, s \ {Chosen(s)})
    BY <1>2, <2>1, SumOfStep
  <2>3. fun[Chosen(s)] \in Int
    BY <1>2, ChosenLess
  <2>4. QED BY <1>2, <2>2, <2>3
<1>3. SUBSET S \subseteq T
  <2> HIDE DEF T
  <2>1. QED BY <1>1, <1>2, ChosenInduction
<1>4. QED BY <1>3

\* The same values give the same sum.
LEMMA SumSame ==
  ASSUME NEW S, IsFiniteSet(S), NEW fun, NEW gun, \A s \in S : fun[s] = gun[s]
  PROVE  SumOf(fun, S) = SumOf(gun, S)
PROOF
<1> DEFINE T == {s \in SUBSET S : SumOf(fun, s) = SumOf(gun, s)}
<1>1. {} \in T
  <2>1. IsFiniteSet({})
    BY FS_EmptySet
  <2>2. QED BY <2>1, SumOfStep
<1>2. ASSUME NEW s \in SUBSET S, s # {}, s \ {Chosen(s)} \in T
      PROVE  s \in T
  <2>1. IsFiniteSet(s)
    BY FS_Subset
  <2>2. /\ SumOf(fun, s) = fun[Chosen(s)] + SumOf(fun, s \ {Chosen(s)})
        /\ SumOf(gun, s) = gun[Chosen(s)] + SumOf(gun, s \ {Chosen(s)})
    BY <1>2, <2>1, SumOfStep
  <2>3. fun[Chosen(s)] = gun[Chosen(s)]
    BY <1>2, ChosenLess
  <2>4. QED BY <1>2, <2>2, <2>3
<1>3. SUBSET S \subseteq T
  <2> HIDE DEF T
  <2>1. QED BY <1>1, <1>2, ChosenInduction
<1>4. QED BY <1>3

\* Any element may be taken out first.
LEMMA SumPick ==
  ASSUME NEW S, IsFiniteSet(S), NEW fun, \A s \in S : fun[s] \in Int, NEW x \in S
  PROVE  SumOf(fun, S) = fun[x] + SumOf(fun, S \ {x})
PROOF
<1> DEFINE Splits(s) == \A y \in s : SumOf(fun, s) = fun[y] + SumOf(fun, s \ {y})
           T         == {n \in 0 .. Cardinality(S) :
                           \A s \in SUBSET S : Cardinality(s) = n => Splits(s)}
<1>1. Cardinality(S) \in Nat
  BY FS_CardinalityType
<1>2. 0 \in T
  <2>1. ASSUME NEW s \in SUBSET S, Cardinality(s) = 0, NEW y \in s PROVE FALSE
    BY <2>1, ChosenLess
  <2>2. QED BY <1>1, <2>1
<1>3. ASSUME NEW n \in 0 .. Cardinality(S) - 1, n \in T
      PROVE  n + 1 \in T
  <2>1. ASSUME NEW s \in SUBSET S, Cardinality(s) = n + 1, NEW y \in s
        PROVE  SumOf(fun, s) = fun[y] + SumOf(fun, s \ {y})
    <3>1. PICK c, r, q, t : c = Chosen(s) /\ r = s \ {c} /\ q = s \ {y} /\ t = r \ {y}
      OBVIOUS
    <3>2. c \in s /\ IsFiniteSet(s) /\ r \in SUBSET S /\ q \in SUBSET S /\ t \in SUBSET S
      BY <3>1, ChosenLess, FS_Subset
    <3>3. SumOf(fun, s) = fun[c] + SumOf(fun, r)
      BY <3>1, <3>2, SumOfStep
    <3>4. CASE y = c
      BY <3>1, <3>3, <3>4
    <3>5. CASE y # c
      <4>1. Cardinality(r) = n /\ Cardinality(q) = n
        <5>1. /\ Cardinality(s \ {c}) = Cardinality(s) - 1
              /\ Cardinality(s \ {y}) = Cardinality(s) - 1
          BY <3>2, FS_RemoveElement
        <5>2. QED BY <2>1, <3>1, <5>1
      <4>2. Splits(r) /\ Splits(q)
        BY <1>3, <3>2, <4>1
      <4>3. y \in r /\ c \in q /\ q \ {c} = t
        BY <3>1, <3>2, <3>5
      <4>4. SumOf(fun, r) = fun[y] + SumOf(fun, t) /\ SumOf(fun, q) = fun[c] + SumOf(fun, t)
        BY <3>1, <4>2, <4>3
      <4>5. fun[y] \in Int /\ fun[c] \in Int
        BY <3>2
      <4>6. IsFiniteSet(t) /\ \A e \in t : fun[e] \in Int
        BY <3>2, FS_Subset
      <4>7. SumOf(fun, t) \in Int
        BY <4>6, SumType
      <4>8. QED BY <3>1, <3>3, <4>4, <4>5, <4>7
    <3>6. QED BY <3>4, <3>5
  <2>2. n + 1 \in 0 .. Cardinality(S)
    BY <1>1
  <2>3. QED BY <2>1, <2>2
<1>4. \A n \in 0 .. Cardinality(S) : n \in T
  <2> HIDE DEF T
  <2>1. QED BY <1>1, <1>2, <1>3, Counting
<1>5. Splits(S)
  <2>1. Cardinality(S) \in T
    BY <1>1, <1>4
  <2>2. QED BY <2>1
<1>6. QED BY <1>5

\* One more element.
LEMMA SumAdd ==
  ASSUME NEW S, IsFiniteSet(S), NEW fun, \A s \in S : fun[s] \in Int,
         NEW x, x \notin S, fun[x] \in Int
  PROVE  SumOf(fun, S \cup {x}) = SumOf(fun, S) + fun[x]
PROOF
<1>1. PICK R : R = S \cup {x}
  OBVIOUS
<1>2. IsFiniteSet(R) /\ x \in R /\ R \ {x} = S /\ \A s \in R : fun[s] \in Int
  BY <1>1, FS_AddElement
<1>3. SumOf(fun, R) = fun[x] + SumOf(fun, S)
  BY <1>2, SumPick
<1>4. SumOf(fun, S) \in Int
  BY SumType
<1>5. QED BY <1>1, <1>3, <1>4

\* Zeros add nothing.
LEMMA SumZero ==
  ASSUME NEW S, IsFiniteSet(S), NEW fun, \A s \in S : fun[s] = 0
  PROVE  SumOf(fun, S) = 0
PROOF
<1>1. PICK z \in Int : z = 0
  OBVIOUS
<1>2. \A s \in S : fun[s] \in z .. z
  BY <1>1
<1>3. SumOf(fun, S) \in z * Cardinality(S) .. z * Cardinality(S)
  BY <1>2, SumBounds
<1>4. Cardinality(S) \in Nat
  BY FS_CardinalityType
<1>5. QED BY <1>1, <1>3, <1>4
=============================================================================
