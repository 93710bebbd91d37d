------------------------------- MODULE FiniteSums -------------------------------
(***************************************************************************)
(* Sums over finite sets: what the SQL sums of the contest tables, written *)
(* with MapThenSumSet, come to when one summand is added, changed or       *)
(* removed.                                                                *)
(*                                                                         *)
(* The proofs are by induction over the size of a set, as the absence of a *)
(* smallest counterexample (LeastNumber).                                  *)
(***************************************************************************)
EXTENDS Integers, FiniteSets, FiniteSetsExt, FiniteSetTheorems, TLAPS

\* A set of numbers that is not empty has a least element.
LEMMA LeastNumber ==
    ASSUME NEW T, T \subseteq Nat, T # {}
    PROVE  \E n \in T : \A m \in T : n <= m
<1>1. IsWellFoundedOn(OpToRel(<, Nat), Nat)
    BY NatLessThanWellFounded
<1> DEFINE R == OpToRel(<, Nat)
<1>2. \E n \in T : \A m \in T : ~(<<m, n>> \in R)
    <2> HIDE DEF R
    <2>1. QED
        BY <1>1, WFMin DEF R
<1>3. \A m, n \in Nat : m < n => <<m, n>> \in R
    BY DEF OpToRel
<1> HIDE DEF R
<1>4. PICK n \in T : \A m \in T : ~(<<m, n>> \in R)
    BY <1>2
<1>5. ASSUME NEW m \in T
      PROVE  n <= m
    <2>1. m \in Nat /\ n \in Nat /\ ~(<<m, n>> \in R)
        BY <1>4
    <2>2. ~(m < n)
        BY <1>3, <2>1
    <2>3. QED
        BY <2>1, <2>2
<1>6. QED
    BY <1>5

\* What one unfolding of a sum over s looks up in g.
Pick(s) == CHOOSE x \in s : TRUE

Sums(w, g, D) ==
    g = [s \in D |-> IF s = {} THEN 0 ELSE w[Pick(s)] + g[s \ {Pick(s)}]]

SumOver(w, S) == (CHOOSE g : Sums(w, g, SUBSET S))[S]

LEMMA Picked ==
    ASSUME NEW S, IsFiniteSet(S), S # {}
    PROVE  /\ Pick(S) \in S /\ IsFiniteSet(S \ {Pick(S)})
           /\ Cardinality(S) \in Nat \ {0}
           /\ Cardinality(S \ {Pick(S)}) = Cardinality(S) - 1
<1>1. Pick(S) \in S
    BY DEF Pick
<1>2. QED
    BY <1>1, FS_RemoveElement, FS_CardinalityType, FS_EmptySet

LEMMA SumsExist ==
    ASSUME NEW S, IsFiniteSet(S), NEW w
    PROVE  \E g : Sums(w, g, SUBSET S)
<1> DEFINE Upto(n) == {s \in SUBSET S : Cardinality(s) <= n}
           T == {n \in Nat : ~ \E g : Sums(w, g, Upto(n))}
<1>1. \A s \in SUBSET S : IsFiniteSet(s) /\ Cardinality(s) \in Nat
    BY FS_Subset, FS_CardinalityType
<1>2. ASSUME NEW n \in T, \A m \in T : n <= m
      PROVE  FALSE
    <2>1. CASE n = 0
        <3> DEFINE g == [s \in Upto(0) |-> 0]
        <3>1. \A s \in Upto(0) : s = {}
            BY <1>1, FS_EmptySet
        <3>2. Sums(w, g, Upto(0))
            BY <3>1 DEF Sums
        <3>3. QED
            BY <2>1, <3>2
    <2>2. CASE n # 0
        <3>1. n - 1 \in Nat /\ n - 1 \notin T
            BY <1>2, <2>2, SMTT(20)
        <3>2. PICK g : Sums(w, g, Upto(n - 1))
            BY <3>1
        <3> DEFINE h == [s \in Upto(n) |-> IF s = {} THEN 0
                                           ELSE w[Pick(s)] + g[s \ {Pick(s)}]]
        <3>3. ASSUME NEW s \in Upto(n - 1)
              PROVE  s \in Upto(n) /\ h[s] = g[s]
            <4>1. s \in Upto(n)
                BY <1>1
            <4>2. g[s] = IF s = {} THEN 0 ELSE w[Pick(s)] + g[s \ {Pick(s)}]
                BY <3>2 DEF Sums
            <4>3. h[s] = IF s = {} THEN 0 ELSE w[Pick(s)] + g[s \ {Pick(s)}]
                BY <4>1
            <4>4. QED
                BY <4>1, <4>2, <4>3
        <3>4. ASSUME NEW s \in Upto(n), s # {}
              PROVE  s \ {Pick(s)} \in Upto(n - 1)
            <4>1. IsFiniteSet(s) /\ Cardinality(s) \in Nat /\ Cardinality(s) <= n
                BY <1>1
            <4>2. Cardinality(s \ {Pick(s)}) = Cardinality(s) - 1
                BY <3>4, <4>1, Picked
            <4>3. QED
                BY <4>1, <4>2
        <3>5. h = [s \in Upto(n) |-> IF s = {} THEN 0 ELSE w[Pick(s)] + h[s \ {Pick(s)}]]
            <4>1. \A s \in Upto(n) : s # {} => h[s \ {Pick(s)}] = g[s \ {Pick(s)}]
                BY <3>3, <3>4
            <4> HIDE DEF Upto
            <4>2. QED
                BY <4>1
        <3>6. Sums(w, h, Upto(n))
            BY <3>5 DEF Sums
        <3>7. QED
            BY <3>6
    <2>3. QED
        BY <2>1, <2>2
<1>3. T = {}
    BY <1>2, LeastNumber
<1>4. Cardinality(S) \in Nat
    BY <1>1
<1>5. PICK g : Sums(w, g, Upto(Cardinality(S)))
    BY <1>3, <1>4
<1>6. Upto(Cardinality(S)) = SUBSET S
    BY FS_Subset
<1>7. QED
    BY <1>5, <1>6

LEMMA SumsAgree ==
    ASSUME NEW A, NEW B, NEW w, NEW v, NEW g, NEW h,
           Sums(w, g, SUBSET A), Sums(v, h, SUBSET B),
           NEW S, IsFiniteSet(S), S \subseteq A, S \subseteq B,
           \A x \in S : w[x] = v[x]
    PROVE  g[S] = h[S]
<1> DEFINE T == {n \in Nat : \E s \in SUBSET S : Cardinality(s) = n /\ g[s] # h[s]}
<1>1. \A s \in SUBSET S : IsFiniteSet(s) /\ Cardinality(s) \in Nat
    BY FS_Subset, FS_CardinalityType
<1>2. ASSUME NEW n \in T, \A m \in T : n <= m
      PROVE  FALSE
    <2>1. PICK s \in SUBSET S : Cardinality(s) = n /\ g[s] # h[s]
        OBVIOUS
    <2>2. s # {}
        BY <2>1 DEF Sums
    <2>3. /\ Pick(s) \in s /\ s \ {Pick(s)} \in SUBSET S
          /\ Cardinality(s \ {Pick(s)}) = n - 1 /\ n - 1 \in Nat
        BY <1>1, <2>1, <2>2, Picked
    <2>4. g[s \ {Pick(s)}] = h[s \ {Pick(s)}]
        <3>1. n - 1 \notin T
            BY <1>2, <2>3
        <3>2. QED
            BY <2>3, <3>1
    <2>5. g[s] = w[Pick(s)] + g[s \ {Pick(s)}] /\ h[s] = v[Pick(s)] + h[s \ {Pick(s)}]
        BY <2>2 DEF Sums
    <2>6. w[Pick(s)] = v[Pick(s)]
        BY <2>3
    <2>7. QED
        BY <2>1, <2>4, <2>5, <2>6
<1>3. T = {}
    BY <1>2, LeastNumber
<1>4. QED
    BY <1>1, <1>3

LEMMA SumDefined ==
    ASSUME NEW S, IsFiniteSet(S), NEW w
    PROVE  \E g : Sums(w, g, SUBSET S) /\ SumOver(w, S) = g[S]
BY SumsExist DEF SumOver

\* A sum looks at nothing but the summands.
LEMMA SumCongruent ==
    ASSUME NEW S, IsFiniteSet(S), NEW w, NEW v, \A x \in S : w[x] = v[x]
    PROVE  SumOver(w, S) = SumOver(v, S)
<1>1. PICK g : Sums(w, g, SUBSET S) /\ SumOver(w, S) = g[S]
    BY SumDefined
<1>2. PICK h : Sums(v, h, SUBSET S) /\ SumOver(v, S) = h[S]
    BY SumDefined
<1>3. g[S] = h[S]
    BY <1>1, <1>2, SumsAgree
<1>4. QED
    BY <1>1, <1>2, <1>3

LEMMA SumEmpty ==
    ASSUME NEW w
    PROVE  SumOver(w, {}) = 0
<1>1. PICK g : Sums(w, g, SUBSET {}) /\ SumOver(w, {}) = g[{}]
    BY SumDefined, FS_EmptySet
<1>2. QED
    BY <1>1 DEF Sums

LEMMA SumUnfold ==
    ASSUME NEW S, IsFiniteSet(S), NEW w, S # {}
    PROVE  SumOver(w, S) = w[Pick(S)] + SumOver(w, S \ {Pick(S)})
<1> DEFINE R == S \ {Pick(S)}
<1>1. PICK g : Sums(w, g, SUBSET S) /\ SumOver(w, S) = g[S]
    BY SumDefined
<1>2. IsFiniteSet(R) /\ R \subseteq S
    BY Picked
<1>3. PICK h : Sums(w, h, SUBSET R) /\ SumOver(w, R) = h[R]
    BY <1>2, SumDefined
<1> HIDE DEF R
<1>4. g[R] = h[R]
    <2>1. R \subseteq R /\ \A x \in R : w[x] = w[x]
        OBVIOUS
    <2>2. QED
        BY <1>1, <1>2, <1>3, <2>1, SumsAgree
<1> USE DEF R
<1>5. g[S] = w[Pick(S)] + g[R]
    BY <1>1 DEF Sums
<1>6. QED
    BY <1>1, <1>3, <1>4, <1>5

\* A sum of natural numbers is one, and the order of summation does not matter.
LEMMA SumAddAll ==
    ASSUME NEW U, IsFiniteSet(U), NEW w, \A x \in U : w[x] \in Nat
    PROVE  \A S \in SUBSET U :
              /\ SumOver(w, S) \in Nat
              /\ \A a \in U \ S : SumOver(w, S \cup {a}) = SumOver(w, S) + w[a]
<1> DEFINE Good(S) ==
              /\ SumOver(w, S) \in Nat
              /\ \A a \in U \ S : SumOver(w, S \cup {a}) = SumOver(w, S) + w[a]
           T == {n \in Nat : \E S \in SUBSET U : Cardinality(S) = n /\ ~Good(S)}
<1>1. \A S \in SUBSET U : IsFiniteSet(S) /\ Cardinality(S) \in Nat
    BY FS_Subset, FS_CardinalityType
<1>2. ASSUME NEW n \in T, \A m \in T : n <= m
      PROVE  FALSE
    <2>1. PICK S \in SUBSET U : Cardinality(S) = n /\ ~Good(S)
        OBVIOUS
    <2>2. ASSUME NEW R \in SUBSET U, Cardinality(R) < n
          PROVE  Good(R)
        <3>1. Cardinality(R) \in Nat /\ Cardinality(R) \notin T
            BY <1>1, <1>2, <2>2
        <3>2. QED
            BY <3>1
    <2> HIDE DEF T
    <2>3. SumOver(w, S) \in Nat
        <3>1. CASE S = {}
            BY <3>1, SumEmpty
        <3>2. CASE S # {}
            <4>1. /\ Pick(S) \in S /\ S \ {Pick(S)} \in SUBSET U
                  /\ Cardinality(S \ {Pick(S)}) < n
                BY <1>1, <2>1, <3>2, Picked
            <4>2. SumOver(w, S \ {Pick(S)}) \in Nat
                BY <2>2, <4>1
            <4>3. w[Pick(S)] \in Nat
                BY <4>1
            <4>4. SumOver(w, S) = w[Pick(S)] + SumOver(w, S \ {Pick(S)})
                BY <1>1, <3>2, SumUnfold
            <4>5. QED
                BY <4>2, <4>3, <4>4
        <3>3. QED
            BY <3>1, <3>2
    <2>4. ASSUME NEW a \in U \ S
          PROVE  SumOver(w, S \cup {a}) = SumOver(w, S) + w[a]
        <3> DEFINE V == S \cup {a}
                   c == Pick(V)
        <3>1. IsFiniteSet(V) /\ V # {} /\ V \in SUBSET U
            BY <1>1
        <3>2. c \in V
            BY <3>1, Picked
        <3>3. SumOver(w, V) = w[c] + SumOver(w, V \ {c})
            BY <3>1, SumUnfold
        <3> HIDE DEF c
        <3>4. CASE c = a
            <4>1. V \ {c} = S /\ w[c] = w[a] /\ w[a] \in Nat
                BY <3>4
            <4>2. SumOver(w, V) = w[a] + SumOver(w, S)
                BY <3>3, <4>1
            <4> HIDE DEF V
            <4>3. SumOver(w, V) = SumOver(w, S) + w[a]
                BY <2>3, <4>1, <4>2
            <4>4. QED
                BY <4>3 DEF V
        <3>5. CASE c # a
            <4> DEFINE R == S \ {c}
            <4>1. c \in S /\ R \in SUBSET U /\ V \ {c} = R \cup {a} /\ R \cup {c} = S
                BY <3>2, <3>5
            <4>2. Cardinality(R) < n
                BY <1>1, <2>1, <4>1, FS_RemoveElement
            <4>3. Good(R)
                BY <2>2, <4>1, <4>2
            <4>4. SumOver(w, R \cup {a}) = SumOver(w, R) + w[a]
                BY <4>3
            <4>5. SumOver(w, S) = SumOver(w, R) + w[c]
                BY <4>1, <4>3
            <4>6. SumOver(w, R) \in Nat /\ w[a] \in Nat /\ w[c] \in Nat
                BY <4>1, <4>3
            <4>7. SumOver(w, V) = w[c] + (SumOver(w, R) + w[a])
                BY <3>3, <4>1, <4>4
            <4> HIDE DEF R, V
            <4>8. SumOver(w, V) = SumOver(w, S) + w[a]
                BY <4>5, <4>6, <4>7
            <4>9. QED
                BY <4>8 DEF V
        <3>6. QED
            BY <3>4, <3>5
    <2>5. QED
        BY <2>1, <2>3, <2>4
<1>3. T = {}
    BY <1>2, LeastNumber
<1>4. QED
    BY <1>1, <1>3

LEMMA SumAdd ==
    ASSUME NEW S, IsFiniteSet(S), NEW w, NEW a, a \notin S,
           \A x \in S \cup {a} : w[x] \in Nat
    PROVE  SumOver(w, S \cup {a}) = SumOver(w, S) + w[a]
<1>1. IsFiniteSet(S \cup {a})
    BY FS_AddElement
<1>2. QED
    BY <1>1, SumAddAll

LEMMA SumType ==
    ASSUME NEW S, IsFiniteSet(S), NEW w, \A x \in S : w[x] \in Nat
    PROVE  SumOver(w, S) \in Nat
BY SumAddAll

\* A part comes to no more than the whole.
LEMMA SumPart ==
    ASSUME NEW S, IsFiniteSet(S), NEW w, \A x \in S : w[x] \in Nat, NEW P \in SUBSET S
    PROVE  SumOver(w, P) <= SumOver(w, S)
<1> DEFINE T == {n \in Nat : \E R \in SUBSET S :
                    P \subseteq R /\ Cardinality(R) = n /\ ~(SumOver(w, P) <= SumOver(w, R))}
<1>1. \A R \in SUBSET S : IsFiniteSet(R) /\ Cardinality(R) \in Nat /\ SumOver(w, R) \in Nat
    BY FS_Subset, FS_CardinalityType, SumType
<1>2. ASSUME NEW n \in T, \A m \in T : n <= m
      PROVE  FALSE
    <2>1. PICK R \in SUBSET S :
              P \subseteq R /\ Cardinality(R) = n /\ ~(SumOver(w, P) <= SumOver(w, R))
        OBVIOUS
    <2>2. P # R
        BY <1>1, <2>1
    <2>3. PICK a \in R : a \notin P
        BY <2>1, <2>2
    <2> DEFINE Q == R \ {a}
    <2>4. /\ Q \in SUBSET S /\ P \subseteq Q /\ Q \cup {a} = R /\ a \notin Q
          /\ IsFiniteSet(Q) /\ Cardinality(Q) = n - 1 /\ n - 1 \in Nat
        <3>1. Q \in SUBSET S /\ P \subseteq Q /\ Q \cup {a} = R /\ a \notin Q
            BY <2>1, <2>3
        <3>2. IsFiniteSet(R) /\ Cardinality(R) = n /\ n \in Nat
            BY <1>1, <2>1
        <3>3. IsFiniteSet(Q) /\ Cardinality(Q) = n - 1
            BY <2>3, <3>2, FS_RemoveElement
        <3>4. Cardinality(Q) \in Nat
            BY <3>3, FS_CardinalityType
        <3>5. QED
            BY <3>1, <3>3, <3>4
    <2>5. n - 1 \notin T
        BY <1>2, <2>4
    <2>6. SumOver(w, P) <= SumOver(w, Q)
        BY <2>4, <2>5
    <2> HIDE DEF Q, T
    <2>7. SumOver(w, R) = SumOver(w, Q) + w[a] /\ w[a] \in Nat
        BY <2>3, <2>4, SumAdd
    <2>8. QED
        BY <1>1, <2>1, <2>4, <2>6, <2>7
<1>3. T = {}
    BY <1>2, LeastNumber
<1>4. QED
    BY <1>1, <1>3

-----------------------------------------------------------------------------
(* MapThenSumSet, Min and Max.                                             *)

LEMMA SumMapped ==
    ASSUME NEW S, NEW w
    PROVE  MapThenSumSet(LAMBDA x : w[x], S) = SumOver(w, S)
BY DEF MapThenSumSet, MapThenFoldSet, SumOver, Sums, Pick

\* The same with the points of records.
LEMMA SumOfPoints ==
    ASSUME NEW S
    PROVE  MapThenSumSet(LAMBDA x : x.points, S) = SumOver([x \in S |-> x.points], S)
BY DEF MapThenSumSet, MapThenFoldSet, SumOver, Sums, Pick

\* The smallest of three.
LEMMA MinOfThree ==
    ASSUME NEW a \in Int, NEW b \in Int, NEW c \in Int
    PROVE  /\ Min({a, b, c}) \in {a, b, c}
           /\ Min({a, b, c}) <= a /\ Min({a, b, c}) <= b /\ Min({a, b, c}) <= c
<1>1. \E x \in {a, b, c} : \A y \in {a, b, c} : x <= y
    OBVIOUS
<1>2. QED
    BY <1>1 DEF Min

\* Clamped at zero.
LEMMA MaxOfZero ==
    ASSUME NEW a \in Int
    PROVE  Max({0, a}) = IF a >= 0 THEN a ELSE 0
<1>1. \E x \in {0, a} : \A y \in {0, a} : x >= y
    OBVIOUS
<1>2. Max({0, a}) \in {0, a} /\ \A y \in {0, a} : Max({0, a}) >= y
    BY <1>1 DEF Max
<1>3. QED
    BY <1>2

=============================================================================
