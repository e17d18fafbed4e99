---------------------------- MODULE FoldTheorems ----------------------------
(***************************************************************************)
(* Folds over sequences from the left and over the values of functions on  *)
(* finite sets, and induction over sequences and finite sets.  All are     *)
(* stated for an operator that is a parameter of this module: a module     *)
(* with a proof about a fold instantiates this one with the operator it    *)
(* folds and the predicate it shows, and cites the instance.               *)
(***************************************************************************)
EXTENDS Integers, SequencesExt, FiniteSetTheorems, WellFoundedInduction, TLAPS

CONSTANTS
    Op(_, _),  \* what is folded
    P(_)       \* what is shown of every sequence, or of every finite set

Fold(base, s) == FoldLeft(Op, base, s)

\* A set of numbers that is not empty has a least one.
LEMMA LeastElement ==
    ASSUME NEW S \in SUBSET Nat, S # {}
    PROVE  \E m \in S : \A k \in S : m <= k
<1> DEFINE R == {p \in Nat \X Nat : p[1] < p[2]}
<1>1. IsWellFoundedOn(R, Nat)
  BY NatLessThanWellFounded DEF OpToRel
<1>2. \A k, m \in Nat : <<k, m>> \in R <=> k < m
  OBVIOUS
<1> HIDE DEF R
<1>3. PICK m \in S : \A k \in S : <<k, m>> \notin R
  BY <1>1, WFMin
<1>4. \A k \in S : k \in Nat /\ m \in Nat /\ ~(k < m)
  BY <1>2, <1>3
<1>5. \A k \in S : m <= k
  BY <1>4
<1> QED
  BY <1>5

\* What a fold takes first from the places 1..m + 1.
LEMMA MaxOfSegment == \A m \in Nat : \A t \in SUBSET (1..m + 1) : m + 1 \in t => Max(t) = m + 1
<1> SUFFICES ASSUME NEW m \in Nat, NEW t \in SUBSET (1..m + 1), m + 1 \in t
    PROVE Max(t) = m + 1
  OBVIOUS
<1>1. \A y \in t : m + 1 >= y
  OBVIOUS
<1>2. \A x \in t : (\A y \in t : x >= y) => x = m + 1
  BY <1>1
<1> QED
  BY <1>1, <1>2 DEF Max

\* What the recursive function of a fold from the left equals.
Body(f, t, base, s) == IF t = {} THEN base ELSE Op(f[t \ {Max(t)}], s[Max(t)])

\* The recursive function in the definition of a fold exists.
LEMMA IterExists ==
    ASSUME NEW base, NEW s, NEW n \in Nat
    PROVE  \E f : f = [t \in SUBSET (1..n) |-> Body(f, t, base, s)]
<1> DEFINE E(m) == \E f : f = [t \in SUBSET (1..m) |-> Body(f, t, base, s)]
<1>1. E(0)
  <2> DEFINE f == [t \in SUBSET (1..0) |-> base]
  <2>1. \A t \in SUBSET (1..0) : Body(f, t, base, s) = base
    BY DEF Body
  <2> QED
    BY <2>1
<1>2. ASSUME NEW m \in Nat, E(m) PROVE E(m + 1)
  <2>1. PICK f : f = [t \in SUBSET (1..m) |-> Body(f, t, base, s)]
    BY <1>2
  <2> DEFINE g == [t \in SUBSET (1..m + 1) |->
                      IF m + 1 \in t THEN Op(f[t \ {m + 1}], s[m + 1]) ELSE f[t]]
  <2>2. ASSUME NEW t \in SUBSET (1..m + 1) PROVE g[t] = Body(g, t, base, s)
    <3>1. CASE m + 1 \in t
      <4>1. Max(t) = m + 1 /\ t # {}
        BY <3>1, MaxOfSegment
      <4>2. t \ {m + 1} \in SUBSET (1..m + 1) /\ m + 1 \notin t \ {m + 1}
        OBVIOUS
      <4>3. g[t \ {m + 1}] = f[t \ {m + 1}]
        BY <4>2
      <4>4. g[t] = Op(f[t \ {m + 1}], s[m + 1])
        BY <3>1
      <4> QED
        BY <4>1, <4>3, <4>4 DEF Body
    <3>2. CASE m + 1 \notin t
      <4>1. t \in SUBSET (1..m)
        BY <3>2
      <4>2. t \ {Max(t)} \in SUBSET (1..m + 1) /\ m + 1 \notin t \ {Max(t)}
        BY <3>2
      <4>3. g[t \ {Max(t)}] = f[t \ {Max(t)}]
        BY <4>2
      <4>4. g[t] = f[t]
        BY <3>2
      <4>5. f[t] = Body(f, t, base, s)
        BY <2>1, <4>1
      <4> QED
        BY <4>3, <4>4, <4>5 DEF Body
    <3> QED
      BY <3>1, <3>2
  <2>3. g = [t \in SUBSET (1..m + 1) |-> g[t]]
    OBVIOUS
  <2>4. g = [t \in SUBSET (1..m + 1) |-> Body(g, t, base, s)]
    BY <2>2, <2>3
  <2> HIDE DEF g
  <2> QED
    BY <2>4
<1> HIDE DEF E
<1>3. {m \in Nat : ~E(m)} = {}
  <2> DEFINE S == {m \in Nat : ~E(m)}
  <2> SUFFICES ASSUME S # {} PROVE FALSE
    OBVIOUS
  <2>1. PICK m \in S : \A k \in S : m <= k
    BY LeastElement
  <2>2. m \in Nat /\ ~E(m) /\ m # 0
    BY <1>1
  <2>3. m - 1 \in Nat /\ ~(m <= m - 1) /\ (m - 1) + 1 = m
    BY <2>2
  <2>4. E(m - 1)
    BY <2>1, <2>3
  <2> QED
    BY <1>2, <2>2, <2>3, <2>4
<1>4. E(n)
  BY <1>3
<1> QED
  BY <1>4 DEF E

\* f[i] is the fold of the first i elements.
Steps(f, base, s, n) == f[0] = base /\ \A i \in 1..n : f[i] = Op(f[i - 1], s[i])

\* A fold goes through the sequence from the left.
LEMMA FoldSteps ==
    ASSUME NEW S, NEW s \in Seq(S), NEW base
    PROVE  \E f : Steps(f, base, s, Len(s)) /\ Fold(base, s) = f[Len(s)]
<1> DEFINE n == Len(s)
<1>1. n \in Nat /\ DOMAIN s = 1..n
  OBVIOUS
<1> DEFINE iter == CHOOSE f : f = [t \in SUBSET (1..n) |-> Body(f, t, base, s)]
<1>2. Fold(base, s) = iter[1..n]
  BY <1>1 DEF Fold, FoldLeft, MapThenFoldSet, Body
<1>3. iter = [t \in SUBSET (1..n) |-> Body(iter, t, base, s)]
  BY <1>1, IterExists
<1> HIDE DEF iter, n
<1> DEFINE f == [i \in 0..n |-> iter[1..i]]
<1>4. f[0] = base
  <2>1. 1..0 = {} /\ f[0] = iter[{}]
    BY <1>1
  <2> QED
   BY <2>1, <1>3 DEF Body
<1>5. Fold(base, s) = f[n]
  BY <1>1, <1>2
<1>6. ASSUME NEW i \in 1..n PROVE f[i] = Op(f[i - 1], s[i])
  <2>1. i - 1 \in 0..n /\ i \in 0..n /\ (i - 1) + 1 = i /\ i - 1 \in Nat
    BY <1>1
  <2>2. 1..i \in SUBSET (1..n) /\ 1..i # {} /\ (1..i) \ {i} = 1..(i - 1)
    BY <1>1
  <2>3. Max(1..i) = i
    <3>1. 1..i \in SUBSET (1..((i - 1) + 1)) /\ i \in 1..i
      BY <2>1
    <3> QED
      BY <2>1, <3>1, MaxOfSegment
  <2>4. iter[1..i] = Op(iter[1..(i - 1)], s[i])
    BY <1>3, <2>2, <2>3 DEF Body
  <2> QED
    BY <2>1, <2>4
<1>7. Steps(f, base, s, n)
  BY <1>4, <1>6 DEF Steps
<1> HIDE DEF f
<1> QED
  BY <1>5, <1>7 DEF n
\* Two functions that take the same steps from the same value are equal.
LEMMA SameSteps ==
    ASSUME NEW n \in Nat, NEW f, NEW g, NEW s, NEW base,
           Steps(f, base, s, n), Steps(g, base, s, n)
    PROVE  f[n] = g[n]
<1> DEFINE S == {i \in 0..n : f[i] # g[i]}
<1>1. SUFFICES ASSUME S # {} PROVE FALSE
  BY DEF Steps
<1>2. S \in SUBSET Nat
  OBVIOUS
<1>3. PICK i \in S : \A k \in S : i <= k
  BY <1>1, <1>2, LeastElement
<1>4. i \in 1..n /\ f[i] # g[i]
  BY <1>3 DEF Steps
<1>5. i - 1 \in 0..n /\ ~(i <= i - 1)
  BY <1>4
<1>6. f[i - 1] = g[i - 1]
  BY <1>3, <1>5
<1> QED
  BY <1>4, <1>6 DEF Steps

\* The fold of nothing.
THEOREM FoldEmpty == \A base : Fold(base, << >>) = base
<1> SUFFICES ASSUME NEW base PROVE Fold(base, << >>) = base
  OBVIOUS
<1>1. << >> \in Seq({}) /\ Len(<< >>) = 0
  OBVIOUS
<1>2. PICK f : Steps(f, base, << >>, Len(<< >>)) /\ Fold(base, << >>) = f[Len(<< >>)]
  BY <1>1, FoldSteps
<1> QED
  BY <1>1, <1>2 DEF Steps

\* The fold of a sequence with one element more (std::vector, for each).
THEOREM FoldAppend ==
    ASSUME NEW S, NEW s \in Seq(S), NEW x \in S, NEW base
    PROVE  Fold(base, Append(s, x)) = Op(Fold(base, s), x)
<1> DEFINE t == Append(s, x)
           n == Len(s)
<1>1. /\ t \in Seq(S) /\ Len(t) = n + 1 /\ n \in Nat /\ t[n + 1] = x
      /\ \A i \in 1..n : t[i] = s[i]
  OBVIOUS
<1>2. PICK f : Steps(f, base, s, n) /\ Fold(base, s) = f[n]
  BY FoldSteps
<1> HIDE DEF t
<1>3. PICK g : Steps(g, base, t, Len(t)) /\ Fold(base, t) = g[Len(t)]
  BY <1>1, FoldSteps
<1> HIDE DEF n
<1>4. Steps(g, base, s, n)
  BY <1>1, <1>3 DEF Steps
<1>5. f[n] = g[n]
  BY <1>1, <1>2, <1>4, SameSteps
<1>6. n + 1 \in 1..Len(t) /\ (n + 1) - 1 = n
  BY <1>1
<1>7. g[n + 1] = Op(g[n], t[n + 1])
  BY <1>3, <1>6 DEF Steps
<1> QED
  BY <1>1, <1>2, <1>3, <1>5, <1>7 DEF t

\* What holds of the empty sequence, and of a sequence with one element more
\* when it holds of the sequence, holds of every sequence.
THEOREM SeqInduction ==
    ASSUME NEW S, P(<< >>), \A s \in Seq(S), x \in S : P(s) => P(Append(s, x))
    PROVE  \A s \in Seq(S) : P(s)
<1> DEFINE W == {n \in Nat : \E s \in Seq(S) : Len(s) = n /\ ~P(s)}
<1>1. SUFFICES ASSUME W # {} PROVE FALSE
  OBVIOUS
<1>2. PICK n \in W : \A k \in W : n <= k
  BY <1>1, LeastElement
<1>3. PICK s \in Seq(S) : Len(s) = n /\ ~P(s)
  OBVIOUS
<1>4. s # << >> /\ n \in Nat
  BY <1>3
<1> DEFINE t == SubSeq(s, 1, n - 1)
<1>5. n > 0 
  BY <1>3, <1>4
<1>6. t \in Seq(S) /\ Len(t) = n - 1 /\ s[n] \in S /\ n - 1 \in Nat
  BY <1>3, <1>4, <1>5
<1>7. s = Append(t, s[n])
  BY <1>3, <1>4, <1>5, <1>6
<1> HIDE DEF t
<1>8. ~P(t)
  BY <1>3, <1>6, <1>7
<1>9. n - 1 \in W
  BY <1>6, <1>8
<1> QED
  BY <1>2, <1>5, <1>9

\* A sequence is empty or one element longer than another.
LEMMA SeqSplits ==
    ASSUME NEW S, NEW s \in Seq(S)
    PROVE  s = << >> \/ \E t \in Seq(S), x \in S : s = Append(t, x) /\ Len(t) = Len(s) - 1
<1>1. SUFFICES ASSUME s # << >>
               PROVE \E t \in Seq(S), x \in S : s = Append(t, x) /\ Len(t) = Len(s) - 1
  OBVIOUS
<1>0. PICK n \in Nat : n = Len(s)
  OBVIOUS
<1> DEFINE t == SubSeq(s, 1, n - 1)
<1>2. n \in Nat /\ n > 0
  BY <1>0, <1>1
<1>3. t \in Seq(S) /\ Len(t) = n - 1 /\ s[n] \in S
  BY <1>0, <1>2
<1>4. s = Append(t, s[n])
  BY <1>0, <1>2, <1>3
<1> HIDE DEF t
<1> QED
  BY <1>0, <1>3, <1>4

\* What every application of the operator keeps, the fold keeps.
THEOREM FoldKeeps ==
    ASSUME NEW S, \A a : \A x \in S : P(a) => P(Op(a, x))
    PROVE  \A s \in Seq(S) : \A a : P(a) => P(Fold(a, s))
<1> DEFINE W == {n \in Nat : \E s \in Seq(S) : Len(s) = n /\ \E a : P(a) /\ ~P(Fold(a, s))}
<1>1. W = {}
  <2>1. SUFFICES ASSUME W # {} PROVE FALSE
    OBVIOUS
  <2>2. PICK n \in W : \A k \in W : n <= k
    BY <2>1, LeastElement
  <2>3. PICK s \in Seq(S) : Len(s) = n /\ \E a : P(a) /\ ~P(Fold(a, s))
    OBVIOUS
  <2>4. PICK a : P(a) /\ ~P(Fold(a, s))
    BY <2>3
  <2>5. s # << >>
    BY <2>3, FoldEmpty
  <2>6. PICK t \in Seq(S), x \in S : s = Append(t, x) /\ Len(t) = Len(s) - 1
    BY <2>5, SeqSplits
  <2>7. ~P(Fold(a, t))
    BY <2>4, <2>6, FoldAppend
  <2>8. Len(t) \in W /\ Len(t) < n
    BY <2>3, <2>4, <2>6, <2>7
  <2> QED
    BY <2>2, <2>8
<1>2. ASSUME NEW s \in Seq(S), NEW a, P(a), ~P(Fold(a, s)) PROVE FALSE
  <2>1. Len(s) \in W
    BY <1>2
  <2> QED
    BY <1>1, <2>1
<1> QED
  BY <1>2
-----------------------------------------------------------------------------
(* Functions on finite sets *)

\* What holds of the empty set, and of a finite set with one element more when
\* it holds of the set, holds of every finite set.
THEOREM SetInduction ==
    ASSUME P({}), \A T, x : IsFiniteSet(T) /\ P(T) /\ x \notin T => P(T \union {x})
    PROVE  \A S : IsFiniteSet(S) => P(S)
<1> DEFINE W == {n \in Nat : \E S : IsFiniteSet(S) /\ Cardinality(S) = n /\ ~P(S)}
<1>1. W = {}
  <2>1. SUFFICES ASSUME W # {} PROVE FALSE
    OBVIOUS
  <2>2. PICK n \in W : \A k \in W : n <= k
    BY <2>1, LeastElement
  <2>3. PICK S : IsFiniteSet(S) /\ Cardinality(S) = n /\ ~P(S)
    OBVIOUS
  <2>4. PICK x : x \in S
    BY <2>3
  <2>5. IsFiniteSet(S \ {x}) /\ Cardinality(S \ {x}) = n - 1 /\ n - 1 \in Nat
    <3>1. n \in Nat /\ n = Cardinality(S)
      BY <2>3
    <3>2. n # 0
      BY <2>3, <2>4, <3>1, FS_EmptySet
    <3>3. IsFiniteSet(S \ {x}) /\ Cardinality(S \ {x}) = Cardinality(S) - 1
      BY <2>3, <2>4, FS_RemoveElement
    <3> QED
      BY <3>1, <3>2, <3>3
  <2>6. ~P(S \ {x})
    <3>1. S = (S \ {x}) \union {x} /\ x \notin S \ {x}
      BY <2>4
    <3> QED
      BY <2>3, <2>5, <3>1
  <2>7. n - 1 \in W /\ ~(n <= n - 1)
    BY <2>5, <2>6
  <2> QED
    BY <2>2, <2>7
<1>2. ASSUME NEW S, IsFiniteSet(S), ~P(S) PROVE FALSE
  <2>1. Cardinality(S) \in W
    BY <1>2, FS_CardinalityType
  <2> QED
    BY <1>1, <2>1
<1> QED
  BY <1>2

\* The fold of the values of a function, in whatever order.
Folded(base, f) == FoldFunction(Op, base, f)

OneOf(s) == CHOOSE x \in s : TRUE

\* What the recursive function of such a fold equals.
SetBody(g, s, base, f) == IF s = {} THEN base ELSE Op(f[OneOf(s)], g[s \ {OneOf(s)}])

IsIter(g, S, base, f) == g = [s \in SUBSET S |-> SetBody(g, s, base, f)]

\* The recursive function in the definition of the fold exists.
LEMMA SetIterExists ==
    ASSUME NEW base, NEW f, NEW S, IsFiniteSet(S)
    PROVE  \E g : IsIter(g, S, base, f)
<1> DEFINE Small(m) == {s \in SUBSET S : Cardinality(s) <= m}
           E(m) == \E g : g = [s \in Small(m) |-> SetBody(g, s, base, f)]
<1>0. \A s \in SUBSET S : /\ IsFiniteSet(s) /\ Cardinality(s) \in Nat
                          /\ Cardinality(s) <= Cardinality(S)
                          /\ Cardinality(s) = 0 <=> s = {}
  BY FS_Subset, FS_CardinalityType, FS_EmptySet
<1>a. ASSUME NEW s \in SUBSET S, s # {}
      PROVE  /\ OneOf(s) \in s /\ s \ {OneOf(s)} \in SUBSET S
             /\ Cardinality(s \ {OneOf(s)}) = Cardinality(s) - 1
  <2>1. OneOf(s) \in s
    BY <1>a DEF OneOf
  <2> QED
    BY <2>1, <1>0, FS_RemoveElement
<1>1. E(0)
  <2> DEFINE g == [s \in Small(0) |-> base]
  <2>1. \A s \in Small(0) : s = {}
    BY <1>0
  <2>2. \A s \in Small(0) : SetBody(g, s, base, f) = base
    BY <2>1 DEF SetBody
  <2>3. g = [s \in Small(0) |-> SetBody(g, s, base, f)]
    BY <2>2
  <2> QED
    BY <2>3
<1>2. ASSUME NEW m \in Nat, E(m) PROVE E(m + 1)
  <2>1. PICK g : g = [s \in Small(m) |-> SetBody(g, s, base, f)]
    BY <1>2
  <2> DEFINE h == [s \in Small(m + 1) |->
                     IF s \in Small(m) THEN g[s] ELSE Op(f[OneOf(s)], g[s \ {OneOf(s)}])]
  <2>2. ASSUME NEW s \in Small(m + 1) PROVE h[s] = SetBody(h, s, base, f)
    <3>0. s \in SUBSET S /\ Cardinality(s) <= m + 1
      OBVIOUS
    <3>1. CASE s = {}
      <4>1. s \in Small(m)
        BY <3>0, <3>1, <1>0
      <4>2. h[s] = g[s] /\ g[s] = SetBody(g, s, base, f)
        BY <2>1, <4>1
      <4> QED
        BY <3>1, <4>2 DEF SetBody
    <3>2. CASE s # {}
      <4> DEFINE r == s \ {OneOf(s)}
      <4>1. r \in SUBSET S /\ Cardinality(r) = Cardinality(s) - 1
        BY <3>0, <3>2, <1>a
      <4>2. r \in Small(m) /\ r \in Small(m + 1)
        BY <3>0, <4>1, <1>0
      <4>3. h[r] = g[r]
        BY <4>2
      <4>4. h[s] = Op(f[OneOf(s)], g[r])
        <5>1. CASE s \in Small(m)
          <6>1. h[s] = g[s] /\ g[s] = SetBody(g, s, base, f)
            BY <2>1, <5>1
          <6> QED
            BY <3>2, <6>1 DEF SetBody
        <5>2. CASE s \notin Small(m)
          BY <5>2
        <5> QED
          BY <5>1, <5>2
      <4> QED
        BY <3>2, <4>3, <4>4 DEF SetBody
    <3> QED
      BY <3>1, <3>2
  <2>3. h = [s \in Small(m + 1) |-> h[s]]
    OBVIOUS
  <2> HIDE DEF h
  <2>4. h = [s \in Small(m + 1) |-> SetBody(h, s, base, f)]
    BY <2>2, <2>3
  <2> QED
    BY <2>4
<1>3. {m \in Nat : ~E(m)} = {}
  <2> HIDE DEF E
  <2> DEFINE B == {m \in Nat : ~E(m)}
  <2> SUFFICES ASSUME B # {} PROVE FALSE
    OBVIOUS
  <2>1. PICK m \in B : \A k \in B : m <= k
    BY LeastElement
  <2>2. m \in Nat /\ ~E(m) /\ m # 0
    BY <1>1
  <2>3. m - 1 \in Nat /\ ~(m <= m - 1) /\ (m - 1) + 1 = m
    BY <2>2
  <2>4. E(m - 1)
    BY <2>1, <2>3
  <2> QED
    BY <1>2, <2>2, <2>3, <2>4
<1>4. Cardinality(S) \in Nat /\ Small(Cardinality(S)) = SUBSET S
  BY <1>0
<1>5. E(Cardinality(S))
  <2> HIDE DEF E
  <2> QED
    BY <1>3, <1>4
<1> QED
  BY <1>4, <1>5 DEF IsIter

LEMMA FoldedIter ==
    ASSUME NEW base, NEW f, IsFiniteSet(DOMAIN f)
    PROVE  \E g : IsIter(g, DOMAIN f, base, f) /\ Folded(base, f) = g[DOMAIN f]
<1> DEFINE g == CHOOSE g : g = [s \in SUBSET (DOMAIN f) |-> SetBody(g, s, base, f)]
<1>1. Folded(base, f) = g[DOMAIN f]
  BY DEF Folded, FoldFunction, FoldFunctionOnSet, MapThenFoldSet, SetBody, OneOf
<1>2. IsIter(g, DOMAIN f, base, f)
  BY SetIterExists DEF IsIter
<1> QED
  BY <1>1, <1>2

\* The operator takes values of V in any order.
AnyOrder(V) ==
    /\ \A a, b \in V : Op(a, b) \in V
    /\ \A a, b, c \in V : Op(a, Op(b, c)) = Op(b, Op(a, c))

LEMMA IterTakes ==
    ASSUME NEW V, AnyOrder(V), NEW base \in V, NEW f, NEW S, IsFiniteSet(S),
           \A x \in S : f[x] \in V, NEW g, IsIter(g, S, base, f)
    PROVE  \A s \in SUBSET S : g[s] \in V /\ \A y \in s : g[s] = Op(f[y], g[s \ {y}])
<1> DEFINE Good(s) == g[s] \in V /\ \A y \in s : g[s] = Op(f[y], g[s \ {y}])
           W == {n \in Nat : \E s \in SUBSET S : Cardinality(s) = n /\ ~Good(s)}
<1>0. \A s \in SUBSET S : IsFiniteSet(s) /\ Cardinality(s) \in Nat
  BY FS_Subset, FS_CardinalityType
<1>a. ASSUME NEW s \in SUBSET S, NEW y \in s
      PROVE  s \ {y} \in SUBSET S /\ Cardinality(s \ {y}) < Cardinality(s)
  <2>1. s \ {y} \in SUBSET S
    OBVIOUS
  <2>2. Cardinality(s \ {y}) = Cardinality(s) - 1
    BY <1>0, FS_RemoveElement
  <2> QED
    BY <1>0, <2>1, <2>2
<1>b. \A s \in SUBSET S : g[s] = SetBody(g, s, base, f)
  BY DEF IsIter
<1>1. W = {}
  <2>1. SUFFICES ASSUME W # {} PROVE FALSE
    OBVIOUS
  <2>2. PICK n \in W : \A k \in W : n <= k
    BY <2>1, LeastElement
  <2>3. PICK s \in SUBSET S : Cardinality(s) = n /\ ~Good(s)
    OBVIOUS
  <2>4. \A r \in SUBSET S : Cardinality(r) < n => Good(r)
    BY <2>2, <1>0
  <2> HIDE DEF W
  <2>5. s # {}
    BY <1>b, <2>3 DEF SetBody
  <2> DEFINE x == OneOf(s)
             r == s \ {x}
  <2>6. x \in s
    BY <2>5 DEF OneOf
  <2>7. g[s] = Op(f[x], g[r])
    BY <1>b, <2>5 DEF SetBody
  <2> HIDE DEF x
  <2>8. r \in SUBSET S /\ Good(r)
    BY <1>a, <2>3, <2>4, <2>6
  <2>9. f[x] \in V
    BY <2>6
  <2>10. g[s] \in V
    BY <2>7, <2>8, <2>9 DEF AnyOrder
  <2>11. ASSUME NEW y \in s PROVE g[s] = Op(f[y], g[s \ {y}])
    <3>1. CASE y = x
      BY <2>7, <3>1
    <3>2. CASE y # x
      <4> DEFINE q == s \ {y}
                 p == r \ {y}
      <4>1. y \in r /\ x \in q /\ p = q \ {x}
        BY <2>6, <3>2
      <4>2. q \in SUBSET S /\ Good(q)
        BY <1>a, <2>3, <2>4
      <4>3. p \in SUBSET S /\ Good(p)
        <5>1. p \in SUBSET S /\ Cardinality(p) < Cardinality(r) /\ Cardinality(r) < n
          BY <1>a, <2>3, <2>6, <2>8, <4>1
        <5>2. Cardinality(p) \in Nat /\ Cardinality(r) \in Nat /\ n \in Nat
          BY <1>0, <2>3, <2>8, <5>1
        <5>3. Cardinality(p) < n
          BY <5>1, <5>2
        <5> QED
          BY <2>4, <5>1, <5>3
      <4>4. g[r] = Op(f[y], g[p])
        BY <2>8, <4>1
      <4>5. g[q] = Op(f[x], g[p])
        BY <4>1, <4>2
      <4>6. f[y] \in V /\ g[p] \in V
        BY <4>3
      <4> HIDE DEF p, q, r
      <4>7. Op(f[x], Op(f[y], g[p])) = Op(f[y], Op(f[x], g[p]))
        BY <2>9, <4>6 DEF AnyOrder
      <4>8. g[s] = Op(f[y], g[q])
        BY <2>7, <4>4, <4>5, <4>7
      <4> QED
        BY <4>8 DEF q
    <3> QED
      BY <3>1, <3>2
  <2> QED
    BY <2>3, <2>10, <2>11
<1> HIDE DEF Good
<1>2. ASSUME NEW s \in SUBSET S PROVE Good(s)
  BY <1>0, <1>1
<1> QED
  BY <1>2 DEF Good

LEMMA IterSame ==
    ASSUME NEW base, NEW f, NEW e, NEW S, NEW T, IsFiniteSet(S), IsFiniteSet(T),
           NEW s \in SUBSET S, s \in SUBSET T, \A x \in s : f[x] = e[x],
           NEW g, IsIter(g, S, base, f), NEW h, IsIter(h, T, base, e)
    PROVE  g[s] = h[s]
<1> DEFINE W == {n \in Nat : \E r \in SUBSET s : Cardinality(r) = n /\ g[r] # h[r]}
<1>0. \A r \in SUBSET s : IsFiniteSet(r) /\ Cardinality(r) \in Nat
  BY FS_Subset, FS_CardinalityType
<1>b. /\ \A r \in SUBSET s : g[r] = SetBody(g, r, base, f)
      /\ \A r \in SUBSET s : h[r] = SetBody(h, r, base, e)
  BY DEF IsIter
<1>1. W = {}
  <2>1. SUFFICES ASSUME W # {} PROVE FALSE
    OBVIOUS
  <2>2. PICK n \in W : \A k \in W : n <= k
    BY <2>1, LeastElement
  <2>3. PICK r \in SUBSET s : Cardinality(r) = n /\ g[r] # h[r]
    OBVIOUS
  <2>4. r # {}
    BY <1>b, <2>3 DEF SetBody
  <2> DEFINE x == OneOf(r)
             q == r \ {x}
  <2>5. x \in r /\ q \in SUBSET s
    BY <2>4 DEF OneOf
  <2>6. Cardinality(q) = n - 1
    BY <1>0, <2>3, <2>5, FS_RemoveElement
  <2>7. Cardinality(q) \in Nat /\ ~(n <= Cardinality(q))
    BY <1>0, <2>3, <2>5, <2>6
  <2>8. g[q] = h[q]
    BY <2>2, <2>5, <2>7
  <2>9. g[r] = Op(f[x], g[q]) /\ h[r] = Op(e[x], h[q])
    BY <1>b, <2>4 DEF SetBody
  <2> QED
    BY <2>3, <2>5, <2>8, <2>9
<1> QED
  BY <1>0, <1>1

\* A fold of a function on the empty set.
THEOREM FoldedNone == \A base, f : DOMAIN f = {} => Folded(base, f) = base
<1> SUFFICES ASSUME NEW base, NEW f, DOMAIN f = {} PROVE Folded(base, f) = base
  OBVIOUS
<1>1. PICK g : IsIter(g, DOMAIN f, base, f) /\ Folded(base, f) = g[DOMAIN f]
  BY FoldedIter, FS_EmptySet
<1> QED
  BY <1>1 DEF IsIter, SetBody

\* What is left of a function without one of its arguments.
Without(f, y) == [x \in DOMAIN f \ {y} |-> f[x]]

\* A fold takes the values of a function in any order, and is one of the values
\* the operator is closed on.
THEOREM FoldedTake ==
    ASSUME NEW V, AnyOrder(V), NEW base \in V, NEW f, IsFiniteSet(DOMAIN f),
           \A x \in DOMAIN f : f[x] \in V
    PROVE  /\ Folded(base, f) \in V
           /\ \A y \in DOMAIN f : Folded(base, f) = Op(f[y], Folded(base, Without(f, y)))
<1>1. PICK g : IsIter(g, DOMAIN f, base, f) /\ Folded(base, f) = g[DOMAIN f]
  BY FoldedIter
<1>2. g[DOMAIN f] \in V /\ \A y \in DOMAIN f : g[DOMAIN f] = Op(f[y], g[DOMAIN f \ {y}])
  <2>1. \A s \in SUBSET DOMAIN f : g[s] \in V /\ \A y \in s : g[s] = Op(f[y], g[s \ {y}])
    BY <1>1, IterTakes
  <2> QED
    BY <2>1
<1>3. ASSUME NEW y \in DOMAIN f
      PROVE  Folded(base, f) = Op(f[y], Folded(base, Without(f, y)))
  <2> DEFINE e == Without(f, y)
  <2>1. DOMAIN e = DOMAIN f \ {y} /\ \A x \in DOMAIN e : f[x] = e[x]
    BY DEF Without
  <2> HIDE DEF e
  <2>2. IsFiniteSet(DOMAIN e) /\ DOMAIN e \in SUBSET DOMAIN f
    BY <2>1, FS_Subset
  <2>3. PICK h : IsIter(h, DOMAIN e, base, e) /\ Folded(base, e) = h[DOMAIN e]
    BY <2>2, FoldedIter
  <2>4. g[DOMAIN e] = h[DOMAIN e]
    BY <1>1, <2>1, <2>2, <2>3, IterSame
  <2>5. Folded(base, f) = Op(f[y], Folded(base, e))
    BY <1>1, <1>2, <2>1, <2>3, <2>4
  <2> QED
    BY <2>5 DEF e
<1> QED
  BY <1>1, <1>2, <1>3

\* Two functions together.
Both(f, e) == [x \in DOMAIN f \union DOMAIN e |-> IF x \in DOMAIN f THEN f[x] ELSE e[x]]

\* An operator that may be grouped either way, from a base that adds nothing.
Groups(V, base) ==
    /\ \A a \in V : Op(base, a) = a
    /\ \A a, b, c \in V : Op(Op(a, b), c) = Op(a, Op(b, c))

\* The fold of two functions together is that of the one and that of the other.
THEOREM FoldedBoth ==
    ASSUME NEW V, AnyOrder(V), NEW base \in V, Groups(V, base),
           NEW e, IsFiniteSet(DOMAIN e), e = [x \in DOMAIN e |-> e[x]],
           \A x \in DOMAIN e : e[x] \in V
    PROVE  \A f : IsFiniteSet(DOMAIN f) /\ (\A x \in DOMAIN f : f[x] \in V)
                  /\ DOMAIN f \cap DOMAIN e = {}
                  => Folded(base, Both(f, e)) = Op(Folded(base, f), Folded(base, e))
<1> DEFINE Fits(f) == /\ IsFiniteSet(DOMAIN f) /\ \A x \in DOMAIN f : f[x] \in V
                      /\ DOMAIN f \cap DOMAIN e = {}
           Adds(f) == Folded(base, Both(f, e)) = Op(Folded(base, f), Folded(base, e))
           W == {n \in Nat : \E f : Fits(f) /\ Cardinality(DOMAIN f) = n /\ ~Adds(f)}
<1>0. \A f : Fits(f) => Cardinality(DOMAIN f) \in Nat
  BY FS_CardinalityType
<1>e. Folded(base, e) \in V
  BY FoldedTake
<1>1. W = {}
  <2>1. SUFFICES ASSUME W # {} PROVE FALSE
    OBVIOUS
  <2>2. PICK n \in W : \A k \in W : n <= k
    BY <2>1, LeastElement
  <2>3. PICK f : Fits(f) /\ Cardinality(DOMAIN f) = n /\ ~Adds(f)
    OBVIOUS
  <2>4. n \in Nat
    OBVIOUS
  <2>5. \A r : Fits(r) /\ Cardinality(DOMAIN r) < n => Adds(r)
    BY <1>0, <2>2, <2>4
  <2> HIDE DEF W
  <2>6. DOMAIN f # {}
    <3>1. SUFFICES ASSUME DOMAIN f = {} PROVE Adds(f)
      BY <2>3
    <3>2. DOMAIN f \union DOMAIN e = DOMAIN e
      BY <3>1
    <3>3. \A x \in DOMAIN e : x \notin DOMAIN f
      BY <3>1
    <3>4. Both(f, e) = [x \in DOMAIN e |-> e[x]]
      BY <3>2, <3>3 DEF Both
    <3>5. Folded(base, f) = base
      BY <3>1, FoldedNone
    <3> QED
      BY <1>e, <3>4, <3>5 DEF Groups
  <2>7. PICK y : y \in DOMAIN f
    BY <2>6
  <2> DEFINE r == Without(f, y)
             j == Both(f, e)
  <2>8. DOMAIN r = DOMAIN f \ {y} /\ \A x \in DOMAIN r : r[x] = f[x]
    BY DEF Without
  <2>9. Fits(r) /\ Cardinality(DOMAIN r) < n
    <3>1. IsFiniteSet(DOMAIN r) /\ Cardinality(DOMAIN r) = n - 1
      BY <2>3, <2>7, <2>8, FS_RemoveElement
    <3>2. \A x \in DOMAIN r : r[x] \in V
      BY <2>3, <2>8
    <3>3. DOMAIN r \cap DOMAIN e = {}
      BY <2>3, <2>8
    <3> HIDE DEF r
    <3> QED
      BY <2>4, <3>1, <3>2, <3>3
  <2>10. Adds(r)
    BY <2>5, <2>9
  <2>11. Without(j, y) = Both(r, e)
    <3>1. DOMAIN j = DOMAIN f \union DOMAIN e
      BY DEF Both
    <3>2. y \notin DOMAIN e
      BY <2>3, <2>7
    <3>3. DOMAIN j \ {y} = DOMAIN r \union DOMAIN e
      BY <2>7, <2>8, <3>1, <3>2
    <3>4. \A x \in DOMAIN r \union DOMAIN e :
            j[x] = IF x \in DOMAIN r THEN r[x] ELSE e[x]
      <4> SUFFICES ASSUME NEW x \in DOMAIN r \union DOMAIN e
                   PROVE  j[x] = IF x \in DOMAIN r THEN r[x] ELSE e[x]
        OBVIOUS
      <4>1. j[x] = IF x \in DOMAIN f THEN f[x] ELSE e[x]
        BY <3>1, <3>3 DEF Both
      <4>2. x # y
        BY <2>8, <3>2
      <4> HIDE DEF j, r
      <4> QED
        BY <2>8, <4>1, <4>2
    <3> HIDE DEF j, r
    <3> QED
      BY <3>3, <3>4 DEF Without, Both
  <2>12. IsFiniteSet(DOMAIN j) /\ (\A x \in DOMAIN j : j[x] \in V)
         /\ y \in DOMAIN j /\ j[y] = f[y]
    <3>1. DOMAIN j = DOMAIN f \union DOMAIN e
      BY DEF Both
    <3>2. IsFiniteSet(DOMAIN j)
      <4>1. IsFiniteSet(DOMAIN f) /\ IsFiniteSet(DOMAIN e)
        BY <2>3
      <4>2. IsFiniteSet(DOMAIN f \union DOMAIN e)
        BY <4>1, FS_Union
      <4> HIDE DEF j
      <4> QED
        BY <3>1, <4>2
    <3> QED
      BY <2>3, <2>7, <3>1, <3>2 DEF Both
  <2>13. Folded(base, j) = Op(f[y], Folded(base, Both(r, e)))
    <3> HIDE DEF j, r
    <3> QED
      BY <2>11, <2>12, FoldedTake
  <2>14. Folded(base, f) = Op(f[y], Folded(base, r))
    <3> QED
      BY <2>3, <2>7, FoldedTake
  <2>15. Folded(base, r) \in V /\ f[y] \in V
    <3>1. IsFiniteSet(DOMAIN r) /\ \A x \in DOMAIN r : r[x] \in V
      BY <2>9
    <3> HIDE DEF r
    <3> QED
      BY <2>3, <2>7, <3>1, FoldedTake
  <2>16. Folded(base, j) = Op(Op(f[y], Folded(base, r)), Folded(base, e))
    <3>1. Folded(base, Both(r, e)) = Op(Folded(base, r), Folded(base, e))
      BY <2>10
    <3> HIDE DEF j, r
    <3> QED
      BY <1>e, <2>13, <2>15, <3>1 DEF Groups
  <2> QED
    BY <2>3, <2>14, <2>16
<1>2. ASSUME NEW f, Fits(f) PROVE Adds(f)
  <2>1. Cardinality(DOMAIN f) \in Nat /\ Cardinality(DOMAIN f) \notin W
    BY <1>0, <1>1, <1>2
  <2> QED
    BY <1>2, <2>1
<1> QED
  BY <1>2
=============================================================================
