-------------------------- MODULE Minting_proofs --------------------------
(***************************************************************************)
(* No value out of nothing, for every set of transactions, every bound and *)
(* any number of threads.  A sum over the outputs and one over the flags   *)
(* are folds in any order (FoldTheorems); a transaction that passes leaves *)
(* what the coins, the bounties in escrow and its fee come to as it was,   *)
(* and only a coinbase adds to it.  That a transaction is plain, as the    *)
(* property asks, is what makes the 64 bits of its sums and the list of    *)
(* its inputs exact.                                                       *)
(***************************************************************************)
EXTENDS Ledger_proofs

-----------------------------------------------------------------------------
(* Sums over outpoints and flags, in any order *)

\* A function whose values add up.
Amounts(f) ==
    /\ IsFiniteSet(DOMAIN f)
    /\ f = [x \in DOMAIN f |-> f[x]]
    /\ \A x \in DOMAIN f : f[x] \in Nat

LEMMA TotalFolds == \A f : Total(f) = OfPlus!Folded(0, f)
BY DEF Total, OfPlus!Folded, FoldFunction, OfPlus!FoldFunction, FoldFunctionOnSet,
       OfPlus!FoldFunctionOnSet, MapThenFoldSet, OfPlus!MapThenFoldSet

LEMMA FiniteFolds == \A S : IsFiniteSet(S) <=> OfPlus!IsFiniteSet(S)
BY DEF IsFiniteSet, OfPlus!IsFiniteSet

LEMMA TotalNone == \A f : DOMAIN f = {} => Total(f) = 0
BY TotalFolds, OfPlus!FoldedNone

LEMMA TotalTake ==
    ASSUME NEW f, Amounts(f)
    PROVE  /\ Total(f) \in Nat
           /\ \A y \in DOMAIN f : Total(f) = f[y] + Total(OfPlus!Without(f, y))
<1> DEFINE N == Nat
<1>1. OfPlus!AnyOrder(N)
  BY DEF OfPlus!AnyOrder, Plus
<1>2. OfPlus!IsFiniteSet(DOMAIN f) /\ 0 \in N /\ \A x \in DOMAIN f : f[x] \in N
  BY FiniteFolds DEF Amounts
<1> HIDE DEF N
<1>3. /\ OfPlus!Folded(0, f) \in N
      /\ \A y \in DOMAIN f : OfPlus!Folded(0, f)
                              = Plus(f[y], OfPlus!Folded(0, OfPlus!Without(f, y)))
  BY <1>1, <1>2, OfPlus!FoldedTake
<1> QED
  BY <1>3, TotalFolds DEF Plus, N

\* A value more.
LEMMA TotalAdd ==
    ASSUME NEW f, NEW y \in DOMAIN f, NEW e, Amounts(e), f[y] \in Nat,
           y \notin DOMAIN e, f = [x \in DOMAIN f |-> f[x]],
           DOMAIN f = DOMAIN e \union {y}, \A x \in DOMAIN e : f[x] = e[x]
    PROVE  Amounts(f) /\ Total(f) = f[y] + Total(e)
<1>1. Amounts(f)
  BY FS_AddElement DEF Amounts
<1>2. OfPlus!Without(f, y) = e
  <2>1. DOMAIN f \ {y} = DOMAIN e
    OBVIOUS
  <2>2. [x \in DOMAIN f \ {y} |-> f[x]] = [x \in DOMAIN e |-> e[x]]
    BY <2>1
  <2> QED
    BY <2>2 DEF Amounts, OfPlus!Without
<1> QED
  BY <1>1, <1>2, TotalTake

\* The values of two functions together.
JoinsOn(D) ==
    \A u, v : Amounts(u) /\ Amounts(v) /\ DOMAIN v = D /\ DOMAIN u \cap D = {}
                => Amounts(Joined(u, v)) /\ Total(Joined(u, v)) = Total(u) + Total(v)

OfJoins == INSTANCE FoldTheorems WITH Op <- Plus, P <- JoinsOn

LEMMA TotalJoined ==
    ASSUME NEW u, NEW v, Amounts(u), Amounts(v), DOMAIN u \cap DOMAIN v = {}
    PROVE  Amounts(Joined(u, v)) /\ Total(Joined(u, v)) = Total(u) + Total(v)
<1>1. JoinsOn({})
  <2> SUFFICES ASSUME NEW a, NEW b, Amounts(a), Amounts(b), DOMAIN b = {}
               PROVE  Amounts(Joined(a, b)) /\ Total(Joined(a, b)) = Total(a) + Total(b)
    BY DEF JoinsOn
  <2>1. Joined(a, b) = a
    <3>1. DOMAIN a \union DOMAIN b = DOMAIN a
      OBVIOUS
    <3>2. Joined(a, b) = [x \in DOMAIN a |-> a[x]]
      BY <3>1 DEF Joined
    <3> QED
      BY <3>2 DEF Amounts
  <2>2. Total(b) = 0 /\ Total(a) \in Nat
    BY TotalNone, TotalTake
  <2> QED
    BY <2>1, <2>2
<1>2. ASSUME NEW T, NEW y, IsFiniteSet(T), JoinsOn(T), y \notin T
      PROVE  JoinsOn(T \union {y})
  <2> SUFFICES ASSUME NEW a, NEW b, Amounts(a), Amounts(b), DOMAIN b = T \union {y},
                      DOMAIN a \cap (T \union {y}) = {}
               PROVE  Amounts(Joined(a, b)) /\ Total(Joined(a, b)) = Total(a) + Total(b)
    BY DEF JoinsOn
  <2> DEFINE e == [x \in T |-> b[x]]
             j == Joined(a, e)
             k == Joined(a, b)
  <2>1. Amounts(e) /\ DOMAIN e = T
    BY <1>2 DEF Amounts
  <2>2. Total(b) = b[y] + Total(e) /\ b[y] \in Nat
    <3>1. b = [x \in DOMAIN b |-> b[x]] /\ y \in DOMAIN b /\ b[y] \in Nat
      BY DEF Amounts
    <3>2. y \notin DOMAIN e /\ DOMAIN b = DOMAIN e \union {y} /\ \A x \in DOMAIN e : b[x] = e[x]
      BY <1>2, <2>1
    <3> HIDE DEF e
    <3> QED
      BY <2>1, <3>1, <3>2, TotalAdd
  <2>3. Amounts(j) /\ Total(j) = Total(a) + Total(e)
    <3>1. DOMAIN a \cap T = {}
      OBVIOUS
    <3> HIDE DEF e
    <3> QED
      BY <1>2, <2>1, <3>1 DEF JoinsOn
  <2>4. /\ k = [x \in DOMAIN k |-> k[x]] /\ DOMAIN k = DOMAIN j \union {y}
        /\ y \notin DOMAIN j /\ k[y] = b[y] /\ \A x \in DOMAIN j : k[x] = j[x]
    BY <1>2, <2>1 DEF Joined
  <2> HIDE DEF e, j, k
  <2>5. Amounts(k) /\ Total(k) = k[y] + Total(j)
    BY <2>2, <2>3, <2>4, TotalAdd
  <2>6. Total(a) \in Nat /\ Total(e) \in Nat
    BY <2>1, TotalTake
  <2> QED
    BY <2>2, <2>3, <2>4, <2>5, <2>6 DEF k
<1>3. \A T : IsFiniteSet(T) => JoinsOn(T)
  <2>1. \A T : IsFiniteSet(T) <=> OfJoins!IsFiniteSet(T)
    BY DEF IsFiniteSet, OfJoins!IsFiniteSet
  <2>2. \A T, y : OfJoins!IsFiniteSet(T) /\ JoinsOn(T) /\ y \notin T => JoinsOn(T \union {y})
    BY <1>2, <2>1
  <2>3. \A T : OfJoins!IsFiniteSet(T) => JoinsOn(T)
    BY <1>1, <2>2, OfJoins!SetInduction
  <2> QED
    BY <2>1, <2>3
<1> QED
  BY <1>3 DEF JoinsOn, Amounts

\* What is taken from a function and what is left of it.
LEMMA TotalSplit ==
    ASSUME NEW u, Amounts(u), NEW S \in SUBSET DOMAIN u
    PROVE  LET taken == Restrict(u, S)
               left == Restrict(u, DOMAIN u \ S)
           IN  /\ Amounts(taken) /\ Amounts(left)
               /\ Total(u) = Total(left) + Total(taken)
<1> DEFINE taken == Restrict(u, S)
           left == Restrict(u, DOMAIN u \ S)
<1>1. DOMAIN taken = S /\ DOMAIN left = DOMAIN u \ S
  BY DEF Restrict
<1>2. Amounts(taken) /\ Amounts(left)
  BY FS_Subset DEF Amounts, Restrict
<1>3. Joined(left, taken) = u
  <2>1. DOMAIN left \union DOMAIN taken = DOMAIN u
    BY <1>1
  <2>2. \A x \in DOMAIN u : (IF x \in DOMAIN left THEN left[x] ELSE taken[x]) = u[x]
    BY <1>1 DEF Restrict
  <2>3. Joined(left, taken) = [x \in DOMAIN u |-> u[x]]
    BY <2>1, <2>2 DEF Joined
  <2> QED
    BY <2>3 DEF Amounts
<1>4. DOMAIN left \cap DOMAIN taken = {}
  BY <1>1
<1> HIDE DEF taken, left
<1>5. Total(u) = Total(left) + Total(taken)
  BY <1>2, <1>3, <1>4, TotalJoined
<1> QED
  BY <1>2, <1>5 DEF taken, left

\* The amounts of a list of outputs, as the outpoints of a transaction.
Spread(t, s) == [o \in {<<t, n>> : n \in 1..Len(s)} |-> s[o[2]]]

SpreadSums(s) == \A t : Amounts(Spread(t, s)) /\ Total(Spread(t, s)) = Sum(s)

OfSpread == INSTANCE FoldTheorems WITH Op <- Plus, P <- SpreadSums

LEMMA SumNext == \A s \in Seq(Nat), x \in Nat : Sum(Append(s, x)) = Sum(s) + x
BY SumFolds, OfPlus!FoldAppend DEF Plus

LEMMA SumNone == Sum(<< >>) = 0
BY SumFolds, OfPlus!FoldEmpty

LEMMA TotalSpread ==
    ASSUME NEW s \in Seq(Nat), NEW t
    PROVE  Amounts(Spread(t, s)) /\ Total(Spread(t, s)) = Sum(s)
<1>1. SpreadSums(<< >>)
  <2> SUFFICES ASSUME NEW p
               PROVE  Amounts(Spread(p, << >>)) /\ Total(Spread(p, << >>)) = Sum(<< >>)
    BY DEF SpreadSums
  <2>1. DOMAIN Spread(p, << >>) = {}
    BY DEF Spread
  <2>2. Amounts(Spread(p, << >>))
    BY <2>1, FS_EmptySet DEF Amounts, Spread
  <2> QED
    BY <2>1, <2>2, SumNone, TotalNone
<1>2. ASSUME NEW q \in Seq(Nat), NEW x \in Nat, SpreadSums(q)
      PROVE  SpreadSums(Append(q, x))
  <2> SUFFICES ASSUME NEW p
               PROVE  /\ Amounts(Spread(p, Append(q, x)))
                      /\ Total(Spread(p, Append(q, x))) = Sum(Append(q, x))
    BY DEF SpreadSums
  <2> DEFINE f == Spread(p, Append(q, x))
             e == Spread(p, q)
             n == Len(q) + 1
             y == <<p, n>>
  <2>1. Amounts(e) /\ Total(e) = Sum(q)
    BY <1>2 DEF SpreadSums
  <2>2. /\ 1..Len(Append(q, x)) = 1..Len(q) \union {n} /\ n \notin 1..Len(q)
        /\ Append(q, x)[n] = x /\ \A i \in 1..Len(q) : Append(q, x)[i] = q[i]
    BY AppendPlaces
  <2>3. DOMAIN f = DOMAIN e \union {y} /\ y \notin DOMAIN e
    BY <2>2 DEF Spread
  <2>4. f[y] = x /\ \A o \in DOMAIN e : f[o] = e[o]
    BY <2>2, <2>3 DEF Spread
  <2>5. f = [o \in DOMAIN f |-> f[o]]
    BY DEF Spread
  <2> HIDE DEF f, e, y
  <2>6. Amounts(f) /\ Total(f) = f[y] + Total(e)
    BY <2>1, <2>3, <2>4, <2>5, TotalAdd
  <2>7. Sum(Append(q, x)) = Sum(q) + x /\ Sum(q) \in Nat
    BY SumNext, SumType
  <2> QED
    BY <2>1, <2>4, <2>6, <2>7 DEF f
<1>3. SpreadSums(s)
  <2> DEFINE N == Nat
  <2>1. s \in Seq(N) /\ \A q \in Seq(N), x \in N : SpreadSums(q) => SpreadSums(Append(q, x))
    BY <1>2
  <2> HIDE DEF N
  <2> QED
    BY <1>1, <2>1, OfSpread!SeqInduction
<1> QED
  BY <1>3 DEF SpreadSums

LEMMA TotalOuts ==
    ASSUME NEW t \in Txs
    PROVE  Amounts(Outs(t)) /\ Total(Outs(t)) = Sum(Def[t].outs) /\ Sum(Def[t].outs) \in Nat
<1>1. Def[t].outs \in Seq(Nat)
  BY TxAssumption
<1>2. Outs(t) = Spread(t, Def[t].outs)
  BY DEF Outs, Spread
<1> QED
  BY <1>1, <1>2, TotalSpread, SumType

\* What a list of different outpoints comes to.
Worth(q, v) == Sum([i \in 1..Len(q) |-> v[q[i]]])

ListSums(q) ==
    \A v : IsInjective(q) /\ (\A o \in ToSet(q) : v[o] \in Nat)
             => /\ Amounts(Restrict(v, ToSet(q)))
                /\ Total(Restrict(v, ToSet(q))) = Worth(q, v)

OfLists == INSTANCE FoldTheorems WITH Op <- Plus, P <- ListSums

LEMMA TotalList ==
    ASSUME NEW q \in Seq(Outpoints), IsInjective(q), NEW v, \A o \in ToSet(q) : v[o] \in Nat
    PROVE  Total(Restrict(v, ToSet(q))) = Worth(q, v)
<1>1. ListSums(<< >>)
  <2> SUFFICES ASSUME NEW w
               PROVE  /\ Amounts(Restrict(w, ToSet(<< >>)))
                      /\ Total(Restrict(w, ToSet(<< >>))) = Worth(<< >>, w)
    BY DEF ListSums
  <2>1. DOMAIN Restrict(w, ToSet(<< >>)) = {}
    BY DEF Restrict, ToSet
  <2>2. Amounts(Restrict(w, ToSet(<< >>)))
    BY <2>1, FS_EmptySet DEF Amounts, Restrict
  <2>3. [i \in 1..Len(<< >>) |-> w[<< >>[i]]] = << >>
    OBVIOUS
  <2> QED
    BY <2>1, <2>2, <2>3, SumNone, TotalNone DEF Worth
<1>2. ASSUME NEW s \in Seq(Outpoints), NEW o \in Outpoints, ListSums(s)
      PROVE  ListSums(Append(s, o))
  <2> SUFFICES ASSUME NEW w, IsInjective(Append(s, o)),
                      \A x \in ToSet(Append(s, o)) : w[x] \in Nat
               PROVE  /\ Amounts(Restrict(w, ToSet(Append(s, o))))
                      /\ Total(Restrict(w, ToSet(Append(s, o)))) = Worth(Append(s, o), w)
    BY DEF ListSums
  <2> DEFINE n == Len(s) + 1
             f == Restrict(w, ToSet(Append(s, o)))
             e == Restrict(w, ToSet(s))
             list(q0) == [i \in 1..Len(q0) |-> w[q0[i]]]
  <2>1. /\ Len(s) \in Nat /\ Len(Append(s, o)) = n
        /\ \A i \in 1..Len(s) : Append(s, o)[i] = s[i]
        /\ Append(s, o)[n] = o
        /\ 1..Len(Append(s, o)) = 1..Len(s) \union {n} /\ n \notin 1..Len(s)
        /\ ToSet(Append(s, o)) = ToSet(s) \union {o}
    BY AppendPlaces
  <2>2. DOMAIN s = 1..Len(s) /\ DOMAIN Append(s, o) = 1..Len(s) \union {n}
    BY <2>1
  <2>3. IsInjective(s)
    BY <2>1, <2>2 DEF IsInjective
  <2>4. o \notin ToSet(s)
    BY <2>1, <2>2 DEF IsInjective, ToSet
  <2>5. Amounts(e) /\ Total(e) = Worth(s, w)
    BY <1>2, <2>1, <2>3 DEF ListSums
  <2>6. /\ DOMAIN f = DOMAIN e \union {o} /\ o \notin DOMAIN e /\ f[o] = w[o]
        /\ w[o] \in Nat /\ \A x \in DOMAIN e : f[x] = e[x]
        /\ f = [x \in DOMAIN f |-> f[x]]
    BY <2>1, <2>4 DEF Restrict
  <2> HIDE DEF f, e
  <2>7. Amounts(f) /\ Total(f) = w[o] + Total(e)
    BY <2>5, <2>6, TotalAdd
  <2>8. list(s) \in Seq(Nat) /\ list(Append(s, o)) = Append(list(s), w[o])
    <3>1. \A i \in 1..Len(s) : w[s[i]] \in Nat
      BY <2>1, <2>2 DEF ToSet
    <3>2. list(s) \in Seq(Nat)
      BY <2>1, <3>1
    <3> QED
      BY <2>1, <2>6, <3>2
  <2>9. Worth(Append(s, o), w) = Worth(s, w) + w[o] /\ Worth(s, w) \in Nat
    <3> HIDE DEF list
    <3>1. /\ Sum(Append(list(s), w[o])) = Sum(list(s)) + w[o]
          /\ Sum(list(s)) \in Nat
      BY <2>6, <2>8, SumNext, SumType
    <3> QED
      BY <2>8, <3>1 DEF Worth, list
  <2> QED
    BY <2>5, <2>6, <2>7, <2>9 DEF f
<1>3. ListSums(q)
  <2> DEFINE N == Outpoints
  <2>1. q \in Seq(N) /\ \A s \in Seq(N), o \in N : ListSums(s) => ListSums(Append(s, o))
    BY <1>2
  <2> HIDE DEF N
  <2> QED
    BY <1>1, <2>1, OfLists!SeqInduction
<1> QED
  BY <1>3 DEF ListSums

\* What fits 64 bits is there as it is, and what does not is there as less.
LEMMA WrapType ==
    ASSUME NEW n \in Nat
    PROVE  /\ Wrap(n) \in Nat /\ Wrap(n) <= n
           /\ n <= UMax => Wrap(n) = n
<1>1. \A p, q \in Nat : q > 0 => p % q \in 0..(q - 1)
  OBVIOUS
<1>2. \A p, q \in Nat : q > 0 => p % q <= p
  OBVIOUS
<1>3. \A p, q \in Nat : q > p => p % q = p
  OBVIOUS
<1> DEFINE m == UMax + 1
<1>4. m \in Nat /\ m > 0 /\ (n <= UMax => m > n)
  BY UMaxAssumption
<1>5. Wrap(n) = n % m
  BY DEF Wrap
<1> HIDE DEF m
<1>6. n % m \in Nat /\ n % m <= n
  BY <1>1, <1>2, <1>4
<1>7. m > n => n % m = n
  BY <1>3, <1>4
<1> QED
  BY <1>4, <1>5, <1>6, <1>7

\* The fees of a block and of one transaction more.
LEMMA FeesNext ==
    ASSUME NEW q \in Seq(Txs), NEW t \in Txs
    PROVE  Fees(Append(q, t)) = Fees(q) + Def[t].fee /\ Fees(q) \in Nat /\ Def[t].fee \in Nat
<1> DEFINE fees(p) == [i \in 1..Len(p) |-> Def[p[i]].fee]
<1>1. fees(q) \in Seq(Nat) /\ Def[t].fee \in Nat /\ fees(Append(q, t)) \in Seq(Nat)
  BY TxAssumption
<1>2. /\ Len(Append(q, t)) = Len(q) + 1 /\ Append(q, t)[Len(q) + 1] = t
      /\ \A i \in 1..Len(q) : Append(q, t)[i] = q[i]
      /\ 1..Len(Append(q, t)) = 1..Len(q) \union {Len(q) + 1}
  BY AppendPlaces
<1>3. fees(Append(q, t)) = Append(fees(q), Def[t].fee)
  BY <1>1, <1>2
<1>4. Sum(Append(fees(q), Def[t].fee)) = Sum(fees(q)) + Def[t].fee /\ Sum(fees(q)) \in Nat
  <2> HIDE DEF fees
  <2> QED
    BY <1>1, SumNext, SumType
<1> QED
  BY <1>1, <1>3, <1>4 DEF Fees

LEMMA FeesNone == Fees(<< >>) = 0
<1>1. [i \in 1..Len(<< >>) |-> Def[<< >>[i]].fee] = << >>
  OBVIOUS
<1> QED
  BY <1>1, SumNone DEF Fees
-----------------------------------------------------------------------------
(* What a transaction does to the sum of the coins and the bounties *)

\* A set of transactions has finitely many outputs.
FiniteOutputs(S) == S \subseteq Txs => IsFiniteSet(Outputs(S))

OfOutputs == INSTANCE FoldTheorems WITH Op <- Plus, P <- FiniteOutputs

LEMMA OutputsFinite == \A S : S \subseteq Txs => IsFiniteSet(Outputs(S))
<1>1. FiniteOutputs({})
  BY FS_EmptySet DEF FiniteOutputs, Outputs
<1>2. ASSUME NEW T, NEW t, FiniteOutputs(T), T \union {t} \subseteq Txs
      PROVE  IsFiniteSet(Outputs(T \union {t}))
  <2>1. Outputs(T \union {t}) = Outputs(T) \union DOMAIN Outs(t)
    BY DEF Outputs
  <2>2. IsFiniteSet(DOMAIN Outs(t)) /\ IsFiniteSet(Outputs(T))
    BY <1>2, TotalOuts DEF Amounts, FiniteOutputs
  <2> QED
    BY <2>1, <2>2, FS_Union
<1>3. \A S : IsFiniteSet(S) <=> OfOutputs!IsFiniteSet(S)
  BY DEF IsFiniteSet, OfOutputs!IsFiniteSet
<1>4. \A T, t : OfOutputs!IsFiniteSet(T) /\ FiniteOutputs(T) /\ t \notin T
                 => FiniteOutputs(T \union {t})
  BY <1>2 DEF FiniteOutputs
<1>5. \A S : OfOutputs!IsFiniteSet(S) => FiniteOutputs(S)
  BY <1>1, <1>4, OfOutputs!SetInduction
<1> QED
  BY <1>3, <1>5, FS_Subset, TxAssumption DEF FiniteOutputs

\* The unspent outputs of a chain add up.
LEMMA StandsAmounts ==
    ASSUME NEW S, NEW n \in Nat, NEW u, Stands(n, S, u), Coinage(u)
    PROVE  Amounts(u)
<1>1. IsFiniteSet(Coins(n) \union Outputs(S))
  <2>1. IsFiniteSet(1..n)
    BY FS_Interval
  <2>2. IsFiniteSet(Coins(n))
    <3> DEFINE f == [h \in 1..n |-> Coin(h)]
    <3>1. f \in Surjection(1..n, Coins(n))
      BY DEF Surjection, Coins
    <3> HIDE DEF f
    <3> QED
      BY <2>1, <3>1, FS_Surjection
  <2>3. IsFiniteSet(Outputs(S))
    BY OutputsFinite DEF Stands
  <2> QED
    BY <2>2, <2>3, FS_Union
<1>2. IsFiniteSet(DOMAIN u)
  BY <1>1, FS_Subset DEF Stands
<1> QED
  BY <1>2 DEF Coinage, Amounts

\* A transaction that is applied takes its inputs and leaves its outputs.
LEMMA AppliedSum ==
    ASSUME NEW v, Amounts(v), NEW t \in Txs, CanApply(v, t)
    PROVE  /\ Amounts(Applied(v, t))
           /\ Total(Applied(v, t)) + Total(Restrict(v, Ins(t))) = Total(v) + Sum(Def[t].outs)
<1> DEFINE taken == Restrict(v, Ins(t))
           left == Restrict(v, DOMAIN v \ Ins(t))
<1>1. Ins(t) \in SUBSET DOMAIN v /\ DOMAIN Outs(t) \cap DOMAIN v = {}
  BY DEF CanApply
<1>2. Amounts(taken) /\ Amounts(left) /\ Total(v) = Total(left) + Total(taken)
  BY <1>1, TotalSplit
<1>3. Amounts(Outs(t)) /\ Total(Outs(t)) = Sum(Def[t].outs) /\ Sum(Def[t].outs) \in Nat
  BY TotalOuts
<1>4. DOMAIN left \cap DOMAIN Outs(t) = {}
  BY <1>1 DEF Restrict
<1>5. Applied(v, t) = Joined(left, Outs(t))
  BY DEF Applied
<1> HIDE DEF taken, left
<1>6. Amounts(Joined(left, Outs(t))) /\ Total(Joined(left, Outs(t))) = Total(left) + Total(Outs(t))
  BY <1>2, <1>3, <1>4, TotalJoined
<1>7. Total(left) \in Nat /\ Total(taken) \in Nat
  BY <1>2, TotalTake
<1> QED
  BY <1>2, <1>3, <1>5, <1>6, <1>7 DEF taken

\* The bounties in escrow.
Escrows(book) == [f \in DOMAIN book |-> book[f].escrow]

LEMMA LockedType ==
    ASSUME NEW book, IsBook(book)
    PROVE  Amounts(Escrows(book)) /\ Locked(book) = Total(Escrows(book)) /\ Locked(book) \in Nat
<1>1. Amounts(Escrows(book))
  BY DEF IsBook, IsFlag, Amounts, Escrows
<1>2. Locked(book) = Total(Escrows(book))
  BY DEF Locked, Escrows
<1> QED
  BY <1>1, <1>2, TotalTake

\* A new flag locks what its creator has to fund.
LEMMA CreateLocks ==
    ASSUME NEW book, IsBook(book), NEW t \in Txs, Def[t].kind = "create",
           Def[t].act.flag \notin DOMAIN book
    PROVE  Locked(AfterCreate(book, Def[t].act)) = Locked(book) + Lock(t) /\ Lock(t) \in Nat
<1> DEFINE act == Def[t].act
           new == AfterCreate(book, act)
           e == Escrows(book)
           f == Escrows(new)
<1>1. Lock(t) = EscrowLock(act.max, act.bounty) /\ Lock(t) \in Nat
  BY LockType, TxAssumption DEF Lock
<1>2. /\ DOMAIN new = DOMAIN book \union {act.flag}
      /\ new[act.flag] = NewFlag(act)
      /\ \A g \in DOMAIN book : new[g] = book[g]
  BY DEF AfterCreate
<1> HIDE DEF new
<1>3. /\ DOMAIN f = DOMAIN e \union {act.flag} /\ act.flag \notin DOMAIN e
      /\ f[act.flag] = Lock(t) /\ \A g \in DOMAIN e : f[g] = e[g]
      /\ f = [g \in DOMAIN f |-> f[g]]
  BY <1>1, <1>2 DEF Escrows, NewFlag
<1>4. Amounts(e) /\ Locked(book) = Total(e) /\ Locked(book) \in Nat
  BY LockedType
<1> HIDE DEF f, e, act
<1>5. Total(f) = f[act.flag] + Total(e)
  BY <1>1, <1>3, <1>4, TotalAdd
<1>6. Locked(new) = Total(f)
  BY DEF Locked, f, Escrows
<1> QED
  BY <1>1, <1>3, <1>4, <1>5, <1>6 DEF new, act

\* A first claim takes the bounty of its flag out of the escrow.
LEMMA ClaimUnlocks ==
    ASSUME NEW book, IsBook(book), NEW t \in Txs, Def[t].kind = "claim", NEW h,
           ClaimOk(book, Def[t].act, h), ~HasClaimed(book[Def[t].act.flag], Def[t].act.who)
    PROVE  /\ Locked(AfterClaim(book, Def[t].act)) + book[Def[t].act.flag].bounty = Locked(book)
           /\ Locked(AfterClaim(book, Def[t].act)) \in Nat
<1> DEFINE act == Def[t].act
           g == act.flag
           new == AfterClaim(book, act)
           e == Escrows(book)
           f == Escrows(new)
<1>1. g \in DOMAIN book /\ book[g].bounty <= book[g].escrow
  BY DEF ClaimOk, Payable
<1>2. DOMAIN new = DOMAIN book /\ \A k \in DOMAIN book : k # g => new[k] = book[k]
  BY DEF AfterClaim
<1>3. new[g].escrow = book[g].escrow - book[g].bounty
  <2>1. new[g] = [book[g] EXCEPT !.escrow = book[g].escrow - book[g].bounty,
                         !.claims = Append(@, [who |-> act.who, txid |-> act.txid])]
    BY <1>1 DEF AfterClaim
  <2>2. IsFlag(book[g])
    BY <1>1 DEF IsBook
  <2> DEFINE left == book[g].escrow - book[g].bounty
             list == Append(book[g].claims, [who |-> act.who, txid |-> act.txid])
  <2>3. new[g] = [book[g] EXCEPT !.escrow = left, !.claims = list]
    BY <2>1, <2>2 DEF IsFlag
  <2> HIDE DEF left, list, new
  <2>4. new[g].escrow = left
    BY <2>2, <2>3 DEF IsFlag
  <2> QED
    BY <2>4 DEF left
<1>4. IsBook(new)
  BY AfterClaimKeeps
<1>5. /\ Amounts(e) /\ Locked(book) = Total(e) /\ Locked(book) \in Nat
      /\ Amounts(f) /\ Locked(new) = Total(f) /\ Locked(new) \in Nat
  BY <1>4, LockedType
<1>6. OfPlus!Without(f, g) = OfPlus!Without(e, g)
  BY <1>2 DEF OfPlus!Without, Escrows
<1>7. g \in DOMAIN e /\ g \in DOMAIN f /\ e[g] = book[g].escrow /\ f[g] = new[g].escrow
  BY <1>1, <1>2 DEF Escrows
<1>8. book[g].escrow \in Nat /\ book[g].bounty \in Nat
  BY <1>1, TxAssumption DEF IsBook, IsFlag
<1> HIDE DEF e, f, new, act, g
<1>9. Total(e) = e[g] + Total(OfPlus!Without(e, g)) /\ Total(f) = f[g] + Total(OfPlus!Without(f, g))
  BY <1>5, <1>7, TotalTake
<1> DEFINE w == Total(OfPlus!Without(e, g))
<1>10. Total(e) = book[g].escrow + w /\ Total(f) = book[g].escrow - book[g].bounty + w
  BY <1>3, <1>6, <1>7, <1>9
<1>11. w \in Int
  <2>1. Amounts(OfPlus!Without(e, g))
    BY <1>5, FS_RemoveElement DEF Amounts, OfPlus!Without
  <2> QED
    BY <2>1, TotalTake
<1> HIDE DEF w
<1>12. Locked(new) + book[g].bounty = Locked(book)
  BY <1>5, <1>8, <1>10, <1>11
<1> QED
  BY <1>5, <1>12 DEF new, act, g

\* The flags and the claims of a book come from transactions of S.
Made(book, S) ==
    \A f \in DOMAIN book :
        /\ book[f].txid \in S
        /\ \A i \in 1..Len(book[f].claims) : book[f].claims[i].txid \in S

LEMMA MadeAfter ==
    ASSUME NEW book, IsBook(book), NEW S, Made(book, S), NEW t \in Txs, NEW h
    PROVE  Made(BookAfter(book, t, h), S \union {t})
<1> DEFINE act == Def[t].act
           g == act.flag
<1>1. Made(book, S \union {t})
  BY DEF Made
<1>2. CASE ~FlagOk(t, book, h) \/ Def[t].kind = "pay"
  <2>1. BookAfter(book, t, h) = book
    BY <1>2 DEF BookAfter
  <2> QED
    BY <1>1, <2>1
<1>3. CASE FlagOk(t, book, h) /\ Def[t].kind = "create"
  <2>1. BookAfter(book, t, h) = AfterCreate(book, act) /\ act.txid = t
    BY <1>3, TxAssumption DEF BookAfter
  <2>2. NewFlag(act).txid = t /\ NewFlag(act).claims = << >> /\ 1..Len(<< >>) = {}
    BY <2>1 DEF NewFlag
  <2> QED
    BY <1>1, <2>1, <2>2 DEF AfterCreate, Made
<1>4. CASE FlagOk(t, book, h) /\ Def[t].kind = "claim"
  <2>1. /\ BookAfter(book, t, h) = AfterClaim(book, act) /\ act.txid = t
        /\ ClaimOk(book, act, h)
    BY <1>4, TxAssumption DEF BookAfter, FlagOk
  <2>2. CASE HasClaimed(book[g], act.who)
    BY <1>1, <2>1, <2>2 DEF AfterClaim
  <2>3. CASE ~HasClaimed(book[g], act.who)
    <3> DEFINE new == AfterClaim(book, act)
               entry == [who |-> act.who, txid |-> t]
               left == book[g].escrow - book[g].bounty
               list == Append(book[g].claims, entry)
    <3>1. g \in DOMAIN book /\ IsFlag(book[g])
      BY <2>1 DEF ClaimOk, IsBook
    <3>2. DOMAIN new = DOMAIN book /\ \A k \in DOMAIN book : k # g => new[k] = book[k]
      BY <2>3 DEF AfterClaim
    <3>3. new[g] = [book[g] EXCEPT !.escrow = left, !.claims = list]
      BY <2>1, <2>3, <3>1 DEF AfterClaim, IsFlag
    <3>4. entry \in Entries /\ entry.txid = t /\ book[g].claims \in Seq(Entries)
      BY <3>1 DEF Entries, IsFlag
    <3>5. /\ 1..Len(list) = 1..Len(book[g].claims) \union {Len(book[g].claims) + 1}
          /\ list[Len(book[g].claims) + 1] = entry
          /\ \A i \in 1..Len(book[g].claims) : list[i] = book[g].claims[i]
      <4> DEFINE c == book[g].claims
      <4>1. c \in Seq(Entries)
        BY <3>4
      <4> HIDE DEF c, entry
      <4>2. /\ 1..Len(Append(c, entry)) = 1..Len(c) \union {Len(c) + 1}
            /\ Append(c, entry)[Len(c) + 1] = entry
            /\ \A i \in 1..Len(c) : Append(c, entry)[i] = c[i]
        BY <3>4, <4>1, AppendPlaces
      <4> QED
        BY <4>2 DEF c
    <3> HIDE DEF left, list, new
    <3>6. new[g].txid = book[g].txid /\ new[g].claims = list
      BY <3>1, <3>3 DEF IsFlag
    <3>7. \A i \in 1..Len(list) : list[i].txid \in S \union {t}
      BY <3>1, <3>4, <3>5 DEF Made
    <3>8. Made(new, S \union {t})
      BY <1>1, <3>2, <3>6, <3>7 DEF Made
    <3> QED
      BY <2>1, <3>8 DEF new
  <2> QED
    BY <2>2, <2>3
<1> QED
  BY <1>2, <1>3, <1>4, TxAssumption

\* The claims of a flag that a claim of S was recorded in.
LEMMA RecordedMade ==
    ASSUME NEW book, NEW S, Made(book, S), NEW f \in DOMAIN book, NEW who, NEW t,
           Recorded(book[f], who, t)
    PROVE  t \in S
<1>1. PICK i \in 1..Len(book[f].claims) : book[f].claims[i] = [who |-> who, txid |-> t]
  BY DEF Recorded
<1>2. book[f].claims[i].txid = t
  BY <1>1
<1> QED
  BY <1>1, <1>2 DEF Made

\* The amounts two functions give to what they share.
Agree(u, v) == \A o \in DOMAIN u \cap DOMAIN v : u[o] = v[o]

\* A flag pays the bounty its transaction names.
LEMMA FlagBounty ==
    ASSUME NEW x, IsFlag(x)
    PROVE  x.bounty = Def[x.txid].act.bounty
BY DEF IsFlag

\* A transaction that passed the rules pays what it makes, its fee and what its
\* flag locks out of what it spends and the bounty it wins.  book is the flag
\* book it was checked against, rebuilt the one of the replay: both have the
\* flags of the chain, so the bounty is the same in both.
LEMMA TxBalances ==
    ASSUME NEW n \in Nat, NEW S, NEW v, Stands(n, S, v), Coinage(v),
           NEW t \in Txs, t \notin S, CanApply(v, t), Plain(t),
           NEW have, Agree(have, v), NEW prior, NEW book, IsBook(book), Covers(book, S), NEW h,
           Admissible(t, have, prior, book, h),
           NEW rebuilt, IsBook(rebuilt), Made(rebuilt, S), NEW k, FlagOk(t, rebuilt, k)
    PROVE  Total(Applied(v, t)) + Locked(BookAfter(rebuilt, t, k)) + Def[t].fee
             <= Total(v) + Locked(rebuilt)
<1> DEFINE act == Def[t].act
           outs == Sum(Def[t].outs)
           ins == Total(Restrict(v, Ins(t)))
           fee == Def[t].fee
           after == Total(Applied(v, t))
           next == BookAfter(rebuilt, t, k)
<1>1. Amounts(v) /\ Total(v) \in Nat
  BY StandsAmounts, TotalTake
<1>2. after + ins = Total(v) + outs /\ after \in Nat
  BY <1>1, AppliedSum, TotalTake
<1>3. ins \in Nat /\ outs \in Nat /\ fee \in Nat
  <2>1. Ins(t) \in SUBSET DOMAIN v
    BY DEF CanApply
  <2>2. Amounts(Restrict(v, Ins(t)))
    BY <1>1, <2>1, TotalSplit, Zenon
  <2> QED
    BY <2>2, TotalTake, TotalOuts, TxAssumption
<1>4. Locked(rebuilt) \in Nat
  BY LockedType
<1>5. Funds(t, have) = ins
  <2>1. Ins(t) \subseteq DOMAIN have /\ Ins(t) \subseteq DOMAIN v
    BY DEF Admissible, Spendable, CanApply
  <2>2. Restrict(have, Ins(t)) = Restrict(v, Ins(t))
    BY <2>1 DEF Restrict, Agree
  <2>3. \A o \in Ins(t) : have[o] \in Nat
    BY <2>1 DEF Agree, Coinage
  <2>4. Def[t].ins \in Seq(Outpoints) /\ IsInjective(Def[t].ins)
    BY TxAssumption DEF Plain, Outpoints
  <2>5. Total(Restrict(have, Ins(t))) = Worth(Def[t].ins, have)
    BY <2>3, <2>4, TotalList DEF Ins
  <2> QED
    BY <2>2, <2>5 DEF Worth, Funds
<1>7. Lock(t) \in Nat /\ Need(t) = outs + fee + Lock(t)
  <2>1. Lock(t) \in Nat
    BY LockType, TxAssumption DEF Lock
  <2>2. outs + fee + Lock(t) \in Nat /\ outs + fee + Lock(t) <= UMax
    BY <1>3, <2>1 DEF Plain
  <2>3. Wrap(outs + fee + Lock(t)) = outs + fee + Lock(t)
    BY <2>2, WrapType
  <2> QED
    BY <2>1, <2>3 DEF Need
<1>6. Release(t, book) \in Nat => outs + fee + Lock(t) <= ins + Release(t, book)
  <2> SUFFICES ASSUME Release(t, book) \in Nat
               PROVE  outs + fee + Lock(t) <= ins + Release(t, book)
    OBVIOUS
  <2>1. Need(t) <= Wrap(ins + Release(t, book)) \/ Need(t) = Wrap(ins + Release(t, book))
    BY <1>5 DEF Admissible, Spendable
  <2>2. ins + Release(t, book) \in Nat
    BY <1>3
  <2> HIDE DEF outs, fee, ins
  <2>3. /\ Wrap(ins + Release(t, book)) \in Nat
        /\ Wrap(ins + Release(t, book)) <= ins + Release(t, book)
    BY <2>2, WrapType
  <2> QED
    BY <1>3, <1>7, <2>1, <2>2, <2>3
<1>8. FlagOk(t, book, h)
  BY DEF Admissible
<1> HIDE DEF outs, ins, fee, after
<1>9. CASE Def[t].kind = "pay"
  <2>1. Lock(t) = 0 /\ Release(t, book) = 0 /\ next = rebuilt
    BY <1>9 DEF Lock, Release, BookAfter
  <2>2. outs + fee <= ins
    BY <1>3, <1>6, <2>1
  <2> HIDE DEF next
  <2>3. after + Locked(next) + fee <= Total(v) + Locked(rebuilt)
    BY <1>1, <1>2, <1>3, <1>4, <2>1, <2>2
  <2> QED
    BY <2>3 DEF after, next, fee
<1>10. CASE Def[t].kind = "create"
  <2>1. act.flag \notin DOMAIN rebuilt
    <3>1. CreateOk(rebuilt, act) /\ act.txid = t
      BY <1>10, TxAssumption DEF FlagOk
    <3> QED
      BY <3>1 DEF CreateOk, Made
  <2>2. next = AfterCreate(rebuilt, act) /\ Release(t, book) = 0
    BY <1>10 DEF BookAfter, Release
  <2>3. Locked(AfterCreate(rebuilt, act)) = Locked(rebuilt) + Lock(t) /\ Lock(t) \in Nat
    BY <1>10, <2>1, CreateLocks
  <2>4. outs + fee + Lock(t) <= ins
    BY <1>3, <1>6, <2>2, <2>3
  <2> HIDE DEF next
  <2>5. after + Locked(next) + fee <= Total(v) + Locked(rebuilt)
    BY <1>1, <1>2, <1>3, <1>4, <2>2, <2>3, <2>4
  <2> QED
    BY <2>5 DEF after, next, fee
<1>11. CASE Def[t].kind = "claim"
  <2> DEFINE g == act.flag
             p == rebuilt[g].txid
             bounty == rebuilt[g].bounty
  <2>1. ClaimOk(rebuilt, act, k) /\ act.txid = t /\ g \in DOMAIN rebuilt
    BY <1>11, TxAssumption DEF FlagOk, ClaimOk
  <2>2. ~HasClaimed(rebuilt[g], act.who)
    BY <2>1, RecordedMade DEF ClaimOk
  <2>3. next = AfterClaim(rebuilt, act)
    BY <1>11 DEF BookAfter
  <2>4. Locked(AfterClaim(rebuilt, act)) + bounty = Locked(rebuilt) /\ Locked(AfterClaim(rebuilt, act)) \in Nat
    BY <1>11, <2>1, <2>2, ClaimUnlocks
  <2>5. /\ p \in S /\ p \in Txs /\ Def[p].kind = "create" /\ Def[p].act.flag = g
        /\ bounty = Def[p].act.bounty /\ bounty \in Nat
    BY <2>1, TxAssumption DEF IsBook, IsFlag, Made
  <2>6. g \in DOMAIN book /\ book[g].txid = p
    BY <2>5 DEF Covers, InBook
  <2>7. book[g].bounty = bounty
    <3>1. IsFlag(book[g])
      BY <2>6 DEF IsBook
    <3>2. book[g].bounty = Def[book[g].txid].act.bounty
      BY <3>1, FlagBounty
    <3> HIDE DEF bounty, p, g
    <3> QED
      BY <2>5, <2>6, <3>2
  <2>8. Release(t, book) = bounty /\ Lock(t) = 0
    BY <1>11, <2>6, <2>7 DEF Release, Lock
  <2> HIDE DEF next, bounty, p, g
  <2>9. bounty \in Nat /\ Locked(next) + bounty = Locked(rebuilt) /\ Locked(next) \in Nat
    BY <2>3, <2>4, <2>5
  <2>11. outs + fee <= ins + bounty
    BY <1>3, <1>6, <2>8, <2>9
  <2>10. after + Locked(next) + fee <= Total(v) + Locked(rebuilt)
    BY <1>1, <1>2, <1>3, <1>4, <2>9, <2>11
  <2> QED
    BY <2>10 DEF after, next, fee
<1> QED
  BY <1>9, <1>10, <1>11, TxAssumption
-----------------------------------------------------------------------------
(* What a block does to the sum of the coins and the bounties *)

\* The coins and the bounties of a replay whose flags come from S.
Rebuilt(a, S) == IsReplay(a) /\ IsBook(a.book) /\ Made(a.book, S)

Holdings(a) == Total(a.utxo) + Locked(a.book)

LEMMA ReplayTxRebuilt ==
    ASSUME NEW a, NEW S, Rebuilt(a, S), NEW t \in Txs
    PROVE  /\ Rebuilt(ReplayTx(a, t), S \union {t})
           /\ ReplayTx(a, t).utxo = Applied(a.utxo, t)
           /\ ReplayTx(a, t).book = BookAfter(a.book, t, a.h)
           /\ ReplayTx(a, t).ok => a.ok /\ CanApply(a.utxo, t) /\ FlagOk(t, a.book, a.h)
<1>1. /\ IsReplay(ReplayTx(a, t))
      /\ ReplayTx(a, t).utxo = Applied(a.utxo, t)
      /\ ReplayTx(a, t).book = BookAfter(a.book, t, a.h)
      /\ ReplayTx(a, t).ok => a.ok /\ CanApply(a.utxo, t) /\ FlagOk(t, a.book, a.h)
  BY DEF ReplayTx, IsReplay
<1>2. IsBook(BookAfter(a.book, t, a.h)) /\ Made(BookAfter(a.book, t, a.h), S \union {t})
  BY BookAfterKeeps, MadeAfter DEF Rebuilt
<1> QED
  BY <1>1, <1>2 DEF Rebuilt

\* What a transaction makes is new to the outputs a block is checked against.
LEMMA AgreeNext ==
    ASSUME NEW n \in Nat, n <= MaxHeight, NEW S, NEW v, Stands(n, S, v),
           NEW t \in Txs, t \notin S, CanApply(v, t),
           NEW have, Agree(have, v), DOMAIN have \subseteq Coins(n) \union Outputs(S)
    PROVE  Agree(Joined(have, Outs(t)), Applied(v, t))
<1>1. DOMAIN Outs(t) \cap (Coins(n) \union Outputs(S)) = {}
  BY OutsApart DEF Stands
<1>2. \A o \in DOMAIN Outs(t) : o \notin DOMAIN have /\ o \notin DOMAIN v
  BY <1>1 DEF Stands
<1>3. \A o \in DOMAIN Outs(t) : Joined(have, Outs(t))[o] = Outs(t)[o]
  BY <1>2 DEF Joined
<1>4. \A o \in DOMAIN Outs(t) : Applied(v, t)[o] = Outs(t)[o]
  BY <1>2 DEF Applied, Joined, Restrict
<1>5. \A o \in DOMAIN v \ Ins(t) : Applied(v, t)[o] = v[o]
  BY DEF Applied, Joined, Restrict
<1>6. \A o \in DOMAIN have : Joined(have, Outs(t))[o] = have[o]
  BY DEF Joined
<1>7. DOMAIN Applied(v, t) = (DOMAIN v \ Ins(t)) \union DOMAIN Outs(t)
  BY AppliedDomain
<1>8. DOMAIN Joined(have, Outs(t)) = DOMAIN have \union DOMAIN Outs(t)
  BY DEF Joined
<1> QED
  BY <1>2, <1>3, <1>4, <1>5, <1>6, <1>7, <1>8 DEF Agree

\* Where a block starts from: the coins and flags of the transactions S.
Starts(n, S, u, book, a) ==
    /\ n \in Nat /\ n <= MaxHeight
    /\ Stands(n, S, u) /\ Coinage(u)
    /\ IsBook(book) /\ Covers(book, S)
    /\ Rebuilt(a, S) /\ a.utxo = u

\* Where it has got to with the transactions q.
Balances(q, S, a, k, r) ==
    /\ Rebuilt(r, S \union ToSet(q))
    /\ Agree(k.have, r.utxo)
    /\ Holdings(r) + Fees(q) <= Holdings(a)

AllPlain(S) == \A t \in S : Plain(t)

\* It may be given the transactions q.
Runs(q, n, S, u, book, a) ==
    /\ Starts(n, S, u, book, a) /\ AllPlain(ToSet(q))
    /\ Checked(q, u, book, n).ok /\ Replaying(a, q).ok

BlockBalances(q) ==
    \A n, S, u, book, a :
        Runs(q, n, S, u, book, a)
            => Balances(q, S, a, Checked(q, u, book, n), Replaying(a, q))

OfBalances == INSTANCE FoldTheorems WITH Op <- Plus, P <- BlockBalances

\* Holdings are amounts.
LEMMA HoldingsType ==
    ASSUME NEW n \in Nat, NEW S, NEW a, Stands(n, S, a.utxo), Coinage(a.utxo), IsBook(a.book)
    PROVE  Total(a.utxo) \in Nat /\ Locked(a.book) \in Nat /\ Holdings(a) \in Nat
BY StandsAmounts, TotalTake, LockedType DEF Holdings

LEMMA NextBalances ==
    ASSUME NEW q \in Seq(Txs), NEW t \in Txs, NEW n, NEW S, NEW u, NEW book, NEW a,
           Starts(n, S, u, book, a), BlockBalances(q), AllPlain(ToSet(Append(q, t))),
           Checked(Append(q, t), u, book, n).ok, Replaying(a, Append(q, t)).ok
    PROVE  Balances(Append(q, t), S, a, Checked(Append(q, t), u, book, n),
                    Replaying(a, Append(q, t)))
<1> DEFINE k == Checked(q, u, book, n)
           r == Replaying(a, q)
           v == Spending(u, q)
           all == S \union ToSet(q)
           kk == CheckTx(k, t)
           rr == ReplayTx(r, t)
<1>1. Checked(Append(q, t), u, book, n) = kk /\ Replaying(a, Append(q, t)) = rr
  BY CheckedNext, ReplayingNext
<1>2. /\ n \in Nat /\ n <= MaxHeight /\ Stands(n, S, u) /\ Coinage(u)
      /\ IsBook(book) /\ Covers(book, S) /\ Rebuilt(a, S) /\ a.utxo = u
  BY DEF Starts
<1>3. IsReplay(r) /\ r.utxo = v
  BY <1>2, ReplayingType DEF Rebuilt
<1>4. rr.ok => r.ok
  BY Zenon DEF ReplayTx
<1>5. /\ kk.ok => k.ok /\ Admissible(t, k.have, k.prior, k.book, k.h)
      /\ kk.have = Joined(k.have, Outs(t))
  <2> HIDE DEF k
  <2> QED
    BY Zenon DEF CheckTx
<1>6. k.ok /\ r.ok /\ Admissible(t, k.have, k.prior, k.book, k.h)
  BY <1>1, <1>4, <1>5
<1>0. AllPlain(ToSet(q)) /\ Plain(t)
  BY AppendPlaces DEF AllPlain
<1>7. Balances(q, S, a, k, r)
  BY <1>0, <1>6 DEF BlockBalances, Runs
<1>8. Follows(q, S, n, u, v, k)
  BY <1>2, <1>6, BlockFollows
<1>9. IsBook(k.book) /\ Covers(k.book, all)
  BY <1>2, <1>6, BlockCovers
<1>10. Coinage(v)
  BY <1>2, SpendingType
<1>11. ToSet(Append(q, t)) = ToSet(q) \union {t}
  BY AppendPlaces
<1>12. Fees(Append(q, t)) = Fees(q) + Def[t].fee /\ Fees(q) \in Nat /\ Def[t].fee \in Nat
  BY FeesNext
<1> HIDE DEF k, r, v
<1>13. Stands(n, all, v) /\ DOMAIN k.have \ Inputs(ToSet(q)) \subseteq DOMAIN v
  BY <1>8 DEF Follows
<1>14. Rebuilt(r, all) /\ Agree(k.have, v) /\ Holdings(r) + Fees(q) <= Holdings(a)
  BY <1>3, <1>7 DEF Balances
<1> HIDE DEF all
<1>15. /\ Rebuilt(rr, all \union {t}) /\ rr.utxo = Applied(v, t)
       /\ rr.book = BookAfter(r.book, t, r.h)
       /\ CanApply(v, t) /\ FlagOk(t, r.book, r.h)
  <2>1. /\ Rebuilt(rr, all \union {t}) /\ rr.utxo = Applied(r.utxo, t)
        /\ rr.book = BookAfter(r.book, t, r.h)
        /\ rr.ok => CanApply(r.utxo, t) /\ FlagOk(t, r.book, r.h)
    BY <1>14, ReplayTxRebuilt
  <2>2. rr.ok
    BY <1>1
  <2> HIDE DEF rr
  <2> QED
    BY <1>3, <2>1, <2>2
<1>16. t \notin all /\ Stands(n, all \union {t}, Applied(v, t))
  <2>1. Ins(t) # {} /\ Ins(t) \subseteq DOMAIN v
    BY <1>6, <1>15 DEF Admissible, Spendable, CanApply
  <2> QED
    BY <1>2, <1>13, <2>1, SpendStands, Zenon
<1>17. DOMAIN k.have \subseteq Coins(n) \union Outputs(all)
  <2>1. \A p \in ToSet(q) : Ins(p) \subseteq Coins(n) \union Outputs(all)
    BY <1>13, Zenon DEF Stands, all
  <2>2. Inputs(ToSet(q)) \subseteq Coins(n) \union Outputs(all)
    BY <2>1 DEF Inputs
  <2> QED
    BY <1>13, <2>2 DEF Stands
<1>18. Agree(kk.have, rr.utxo)
  <2>1. Agree(Joined(k.have, Outs(t)), Applied(v, t))
    BY <1>2, <1>13, <1>14, <1>15, <1>16, <1>17, AgreeNext
  <2> QED
    BY <1>5, <1>15, <2>1
<1>19. Total(rr.utxo) + Locked(rr.book) + Def[t].fee <= Total(v) + Locked(r.book)
  <2>1. IsBook(r.book) /\ Made(r.book, all)
    BY <1>14 DEF Rebuilt
  <2>2. Total(Applied(v, t)) + Locked(BookAfter(r.book, t, r.h)) + Def[t].fee
          <= Total(v) + Locked(r.book)
    BY <1>0, <1>2, <1>6, <1>9, <1>10, <1>13, <1>14, <1>15, <1>16, <2>1, TxBalances
  <2> QED
    BY <1>15, <2>2
<1> HIDE DEF rr, kk
<1>20. Holdings(rr) + Fees(Append(q, t)) <= Holdings(a)
  <2>1. Total(v) \in Nat /\ Locked(r.book) \in Nat /\ Holdings(r) \in Nat
    BY <1>2, <1>3, <1>10, <1>13, <1>14, HoldingsType DEF Rebuilt
  <2>2. Total(rr.utxo) \in Nat /\ Locked(rr.book) \in Nat
    <3>1. Coinage(rr.utxo)
      BY <1>10, <1>15, AppliedType
    <3> QED
      BY <1>2, <1>15, <1>16, <3>1, HoldingsType DEF Rebuilt
  <2>3. Holdings(a) \in Nat
    BY <1>2, HoldingsType DEF Rebuilt
  <2>4. Holdings(r) = Total(v) + Locked(r.book) /\ Holdings(rr) = Total(rr.utxo) + Locked(rr.book)
    BY <1>3 DEF Holdings
  <2>5. Holdings(r) + Fees(q) <= Holdings(a)
    BY <1>14
  <2> DEFINE x == Total(rr.utxo)
             y == Locked(rr.book)
             f == Fees(q)
             g == Def[t].fee
  <2>6. x \in Nat /\ y \in Nat /\ f \in Nat /\ g \in Nat
    BY <1>12, <2>2
  <2>7. Holdings(rr) = x + y /\ x + y + g <= Holdings(r) /\ Fees(Append(q, t)) = f + g
        /\ Holdings(r) + f <= Holdings(a)
    BY <1>12, <1>19, <2>4, <2>5
  <2> HIDE DEF x, y, f, g
  <2> QED
    BY <2>1, <2>3, <2>6, <2>7
<1>21. S \union ToSet(Append(q, t)) = all \union {t}
  BY <1>11 DEF all
<1> QED
  BY <1>1, <1>15, <1>18, <1>20, <1>21, Zenon DEF Balances

LEMMA BlockKeepsBalance ==
    ASSUME NEW q \in Seq(Txs), NEW n, NEW S, NEW u, NEW book, NEW a,
           Starts(n, S, u, book, a), AllPlain(ToSet(q)),
           Checked(q, u, book, n).ok, Replaying(a, q).ok
    PROVE  Balances(q, S, a, Checked(q, u, book, n), Replaying(a, q))
<1>1. BlockBalances(<< >>)
  <2> SUFFICES ASSUME NEW m, NEW T, NEW v, NEW b, NEW c, Runs(<< >>, m, T, v, b, c)
               PROVE  Balances(<< >>, T, c, Checked(<< >>, v, b, m), Replaying(c, << >>))
    BY Zenon DEF BlockBalances
  <2>0. Starts(m, T, v, b, c)
    BY DEF Runs
  <2>1. Replaying(c, << >>) = c /\ Checked(<< >>, v, b, m).have = v /\ Fees(<< >>) = 0
    BY ReplayingNone, CheckedNone, FeesNone
  <2>2. T \union ToSet(<< >>) = T
    BY DEF ToSet
  <2>3. Agree(v, v) /\ c.utxo = v /\ Rebuilt(c, T)
    BY <2>0 DEF Agree, Starts
  <2>4. Holdings(c) \in Nat
    BY <2>0, HoldingsType, Zenon DEF Starts, Rebuilt
  <2>5. Holdings(c) + 0 <= Holdings(c)
    BY <2>4
  <2> QED
    BY <2>0, <2>1, <2>2, <2>3, <2>5 DEF Balances
<1>2. ASSUME NEW s \in Seq(Txs), NEW t \in Txs, BlockBalances(s)
      PROVE  BlockBalances(Append(s, t))
  <2> SUFFICES ASSUME NEW m, NEW T, NEW v, NEW b, NEW c, Runs(Append(s, t), m, T, v, b, c)
               PROVE  Balances(Append(s, t), T, c, Checked(Append(s, t), v, b, m),
                               Replaying(c, Append(s, t)))
    BY Zenon DEF BlockBalances
  <2>1. /\ Starts(m, T, v, b, c) /\ AllPlain(ToSet(Append(s, t)))
        /\ Checked(Append(s, t), v, b, m).ok /\ Replaying(c, Append(s, t)).ok
    BY DEF Runs
  <2> QED
    BY <1>2, <2>1, NextBalances
<1>3. \A s \in Seq(Txs) : BlockBalances(s)
  BY <1>1, <1>2, OfBalances!SeqInduction
<1>4. BlockBalances(q)
  BY <1>3
<1>5. Runs(q, n, S, u, book, a)
  BY DEF Runs
<1> QED
  BY <1>4, <1>5, Zenon DEF BlockBalances

-----------------------------------------------------------------------------
(* What the chain does to the sum of the coins and the bounties *)

\* A replay that has failed does not recover.
StaysFailed(q) == \A a : Replaying(a, q).ok => a.ok

OfFailed == INSTANCE FoldTheorems WITH Op <- Plus, P <- StaysFailed

LEMMA ReplayingOk == \A q \in Seq(Txs) : \A a : Replaying(a, q).ok => a.ok
<1>1. StaysFailed(<< >>)
  BY ReplayingNone DEF StaysFailed
<1>2. ASSUME NEW s \in Seq(Txs), NEW t \in Txs, StaysFailed(s)
      PROVE  StaysFailed(Append(s, t))
  <2> SUFFICES ASSUME NEW a, Replaying(a, Append(s, t)).ok PROVE a.ok
    BY DEF StaysFailed
  <2>1. Replaying(a, Append(s, t)) = ReplayTx(Replaying(a, s), t)
    BY ReplayingNext
  <2>2. \A b : ReplayTx(b, t).ok => b.ok
    BY DEF ReplayTx
  <2> QED
    BY <1>2, <2>1, <2>2 DEF StaysFailed
<1>3. \A s \in Seq(Txs) : StaysFailed(s)
  BY <1>1, <1>2, OfFailed!SeqInduction
<1> QED
  BY <1>3 DEF StaysFailed

\* What the fees of a chain and its coinbases come to.
Charged(c) == Sum([h \in 1..Len(c) |-> Fees(c[h])])
PaidOut(c) == Sum([h \in 1..Len(c) |-> CoinValue(c[h])])

LEMMA FeesType == \A q \in Seq(Txs) : Fees(q) \in Nat
<1> SUFFICES ASSUME NEW q \in Seq(Txs) PROVE Fees(q) \in Nat
  OBVIOUS
<1>1. [i \in 1..Len(q) |-> Def[q[i]].fee] \in Seq(Nat)
  BY TxAssumption
<1> QED
  BY <1>1, SumType DEF Fees

LEMMA ChargedNext ==
    ASSUME NEW c \in Seq(Seq(Txs)), NEW q \in Seq(Txs)
    PROVE  /\ Charged(Append(c, q)) = Charged(c) + Fees(q) /\ Charged(c) \in Nat /\ Fees(q) \in Nat
           /\ PaidOut(Append(c, q)) = PaidOut(c) + CoinValue(q) /\ PaidOut(c) \in Nat
           /\ CoinValue(q) \in Nat
<1> DEFINE fees(d) == [h \in 1..Len(d) |-> Fees(d[h])]
           coins(d) == [h \in 1..Len(d) |-> CoinValue(d[h])]
<1>0. Fees(q) \in Nat /\ CoinValue(q) \in Nat
  BY FeesType, CoinValueType
<1>1. \A h \in 1..Len(c) : c[h] \in Seq(Txs)
  OBVIOUS
<1>2. fees(c) \in Seq(Nat) /\ coins(c) \in Seq(Nat)
  <2>1. \A h \in 1..Len(c) : Fees(c[h]) \in Nat
    BY <1>1, FeesType
  <2>2. \A h \in 1..Len(c) : CoinValue(c[h]) \in Nat
    BY <1>1, CoinValueType
  <2>3. Len(c) \in Nat
    OBVIOUS
  <2> QED
    BY <2>1, <2>2, <2>3
<1>3. /\ Len(Append(c, q)) = Len(c) + 1 /\ Append(c, q)[Len(c) + 1] = q
      /\ \A i \in 1..Len(c) : Append(c, q)[i] = c[i]
      /\ 1..Len(Append(c, q)) = 1..Len(c) \union {Len(c) + 1}
  BY AppendPlaces
<1>4. fees(Append(c, q)) = Append(fees(c), Fees(q))
  BY <1>0, <1>2, <1>3
<1>5. coins(Append(c, q)) = Append(coins(c), CoinValue(q))
  BY <1>0, <1>2, <1>3
<1> HIDE DEF fees, coins
<1>6. Sum(fees(Append(c, q))) = Sum(fees(c)) + Fees(q) /\ Sum(fees(c)) \in Nat
  BY <1>0, <1>2, <1>4, SumNext, SumType
<1>7. Sum(coins(Append(c, q))) = Sum(coins(c)) + CoinValue(q) /\ Sum(coins(c)) \in Nat
  BY <1>0, <1>2, <1>5, SumNext, SumType
<1> QED
  BY <1>0, <1>6, <1>7 DEF fees, coins, Charged, PaidOut

\* The sum a chain of plain transactions keeps.
ChainMinted(c) ==
    Replay(c).ok /\ AllPlain(TxsOf(c)) =>
                    /\ Made(Replay(c).book, TxsOf(c))
                    /\ Holdings(Replay(c)) + Charged(c) <= PaidOut(c)

\* A coinbase adds what it pays out.
LEMMA CoinbaseSum ==
    ASSUME NEW n \in Nat, n + 1 <= MaxHeight, NEW S, NEW u, Stands(n, S, u), Coinage(u),
           NEW txs \in Seq(Txs)
    PROVE  LET v == Joined(u, CoinOut(n + 1, txs))
           IN  Amounts(v) /\ Total(v) = Total(u) + CoinValue(txs)
<1> DEFINE e == CoinOut(n + 1, txs)
           o == Coin(n + 1)
<1>1. CoinValue(txs) \in Nat
  BY CoinValueType
<1>2. DOMAIN e = {o} /\ e[o] = CoinValue(txs) /\ e = [x \in DOMAIN e |-> e[x]]
  BY DEF CoinOut
<1>3. IsFiniteSet({o})
  BY FS_Singleton
<1>4. o \notin DOMAIN u
  BY CoinApart DEF Stands
<1> HIDE DEF e, o
<1>5. Amounts(e)
  BY <1>1, <1>2, <1>3 DEF Amounts
<1>6. Total(e) = CoinValue(txs)
  <2>1. Total(e) = e[o] + Total(OfPlus!Without(e, o))
    BY <1>2, <1>5, TotalTake
  <2>2. DOMAIN OfPlus!Without(e, o) = {}
    BY <1>2 DEF OfPlus!Without
  <2>3. Total(OfPlus!Without(e, o)) = 0
    BY <2>2, TotalNone
  <2> QED
    BY <1>1, <1>2, <2>1, <2>3
<1>7. Amounts(u)
  BY StandsAmounts
<1>8. DOMAIN u \cap DOMAIN e = {}
  BY <1>2, <1>4
<1>9. Amounts(Joined(u, e)) /\ Total(Joined(u, e)) = Total(u) + Total(e)
  BY <1>5, <1>7, <1>8, TotalJoined
<1> QED
  BY <1>6, <1>9 DEF e

LEMMA BlockMints ==
    ASSUME NEW c \in Seq(Seq(Txs)), ChainStands(c), ChainMinted(c), NEW txs \in Seq(Txs),
           Len(c) + 1 <= MaxHeight, NEW book, IsBook(book), Covers(book, TxsOf(c)),
           Checked(txs, Joined(Replay(c).utxo, CoinOut(Len(c) + 1, txs)), book,
                   Len(c) + 1).ok
    PROVE  ChainMinted(Append(c, txs))
<1> DEFINE n == Len(c) + 1
           S == TxsOf(c)
           r == Replay(c)
           u == Joined(r.utxo, CoinOut(n, txs))
           a == [r EXCEPT !.utxo = Joined(@, CoinOut(r.h, txs))]
           z == Replaying(a, txs)
           d == Append(c, txs)
           end == Replay(d)
<1> SUFFICES ASSUME end.ok, AllPlain(TxsOf(d))
             PROVE  Made(end.book, TxsOf(d)) /\ Holdings(end) + Charged(d) <= PaidOut(d)
  BY DEF ChainMinted
<1>1. n \in Nat /\ Len(c) \in Nat
  OBVIOUS
<1>2. IsReplay(r) /\ r.h = n /\ IsBook(r.book)
  BY ReplayType, ReplayCovers DEF RebuiltCovers
<1>3. Stands(Len(c), S, r.utxo) /\ Coinage(r.utxo)
  BY DEF ChainStands
<1>4. Stands(n, S, u)
  BY <1>1, <1>3, CoinStands
<1>5. Amounts(u) /\ Total(u) = Total(r.utxo) + CoinValue(txs)
  BY <1>1, <1>3, CoinbaseSum
<1>6. Coinage(u)
  <2>1. n \in 1..MaxHeight
    BY <1>1, TxAssumption
  <2>2. Coinage(CoinOut(n, txs))
    BY <2>1, CoinOutType
  <2> QED
    BY <1>3, <2>2, JoinedType
<1>7. end = [z EXCEPT !.h = @ + 1]
  BY ReplayAppend DEF ReplayBlock, Replaying
<1>8. TxsOf(d) = S \union ToSet(txs)
  BY TxsOfAppend
<1>9. /\ Charged(d) = Charged(c) + Fees(txs) /\ Charged(c) \in Nat /\ Fees(txs) \in Nat
      /\ PaidOut(d) = PaidOut(c) + CoinValue(txs) /\ PaidOut(c) \in Nat
      /\ CoinValue(txs) \in Nat
  BY ChargedNext
<1>0. AllPlain(S) /\ AllPlain(ToSet(txs))
  BY <1>8 DEF AllPlain
<1>10. r.ok => Made(r.book, S) /\ Holdings(r) + Charged(c) <= PaidOut(c)
  BY <1>0 DEF ChainMinted
<1>11. Checked(txs, u, book, n).ok
  OBVIOUS
<1>12. IsReplay(a) /\ a.utxo = u /\ a.book = r.book /\ a.ok = r.ok
  <2> HIDE DEF r
  <2>1. a = [r EXCEPT !.utxo = u]
    BY <1>2
  <2> HIDE DEF u, a
  <2>2. a = [ok |-> r.ok, utxo |-> u, book |-> r.book, h |-> r.h]
    BY <1>2, <2>1 DEF IsReplay
  <2> QED
    BY <2>2 DEF IsReplay
<1> HIDE DEF r, u, a, end, d
<1>13. IsReplay(z)
  BY <1>12, ReplayingType
<1> HIDE DEF z
<1>14. end.ok = z.ok /\ end.utxo = z.utxo /\ end.book = z.book
  BY <1>7, <1>13 DEF IsReplay
<1>15. r.ok
  BY <1>12, <1>14, ReplayingOk DEF z
<1>16. Starts(n, S, u, book, a)
  BY <1>1, <1>2, <1>4, <1>6, <1>10, <1>12, <1>15 DEF Starts, Rebuilt
<1>17. Balances(txs, S, a, Checked(txs, u, book, n), z)
  BY <1>0, <1>11, <1>14, <1>16, BlockKeepsBalance DEF z
<1>18. Rebuilt(z, S \union ToSet(txs)) /\ Holdings(z) + Fees(txs) <= Holdings(a)
  BY <1>17 DEF Balances
<1>19. Holdings(end) = Holdings(z) /\ Made(end.book, TxsOf(d))
  BY <1>8, <1>14, <1>18 DEF Holdings, Rebuilt
<1>20. /\ Total(r.utxo) \in Nat /\ Locked(r.book) \in Nat /\ Holdings(r) \in Nat
  BY <1>1, <1>2, <1>3, HoldingsType
<1>21. Holdings(a) = Holdings(r) + CoinValue(txs)
  BY <1>5, <1>9, <1>12, <1>20 DEF Holdings
<1>22. Holdings(z) \in Nat
  <2>1. z.utxo = Spending(u, txs)
    BY <1>12, ReplayingType DEF z
  <2>2. Follows(txs, S, n, u, Spending(u, txs), Checked(txs, u, book, n))
    BY <1>1, <1>4, <1>11, BlockFollows
  <2>3. Stands(n, S \union ToSet(txs), z.utxo)
    BY <2>1, <2>2 DEF Follows
  <2>4. Coinage(z.utxo)
    BY <1>6, <2>1, SpendingType
  <2> QED
    BY <1>1, <1>18, <2>3, <2>4, HoldingsType DEF Rebuilt
<1>23. Holdings(end) + Charged(d) <= PaidOut(d)
  <2> DEFINE x == Holdings(z)
             y == Holdings(r)
             f == Fees(txs)
             g == CoinValue(txs)
             p == Charged(c)
             q == PaidOut(c)
  <2>1. x \in Nat /\ y \in Nat /\ f \in Nat /\ g \in Nat /\ p \in Nat /\ q \in Nat
    BY <1>9, <1>20, <1>22
  <2>2. /\ x + f <= y + g /\ y + p <= q
        /\ Charged(d) = p + f /\ PaidOut(d) = q + g /\ Holdings(end) = x
    BY <1>9, <1>10, <1>15, <1>18, <1>19, <1>21
  <2> HIDE DEF x, y, f, g, p, q
  <2> QED
    BY <2>1, <2>2
<1> QED
  BY <1>19, <1>23

LEMMA NoChainMinted == ChainMinted(<< >>)
<1>1. Replay(<< >>).utxo = << >> /\ Replay(<< >>).book = EmptyBook
  BY ReplayNone DEF Genesis
<1>2. DOMAIN EmptyBook = {} /\ Made(EmptyBook, TxsOf(<< >>))
  BY DEF EmptyBook, Made
<1>3. Locked(EmptyBook) = 0 /\ Total(<< >>) = 0
  <2>1. DOMAIN [f \in DOMAIN EmptyBook |-> EmptyBook[f].escrow] = {} /\ DOMAIN << >> = {}
    BY <1>2
  <2> QED
    BY <2>1, TotalNone DEF Locked
<1>4. Charged(<< >>) = 0 /\ PaidOut(<< >>) = 0
  <2>1. [h \in 1..Len(<< >>) |-> Fees(<< >>[h])] = << >>
    OBVIOUS
  <2>2. [h \in 1..Len(<< >>) |-> CoinValue(<< >>[h])] = << >>
    OBVIOUS
  <2> QED
    BY <2>1, <2>2, SumNone DEF Charged, PaidOut
<1>5. Holdings(Replay(<< >>)) = 0
  BY <1>1, <1>3 DEF Holdings
<1> QED
  BY <1>1, <1>2, <1>4, <1>5 DEF ChainMinted

MintInv == ~overlapped => ChainMinted(chain)

\* Only a block that is stored adds coins, and it passed the rules with a flag
\* book that has the flags of the chain.
LEMMA NextMint ==
    LedgerInv /\ SerialInv /\ MintInv /\ [LedgerNext]_ledgerVars => MintInv'
<1> SUFFICES ASSUME LedgerInv, SerialInv, MintInv, [LedgerNext]_ledgerVars, ~overlapped'
             PROVE  ChainMinted(chain')
  BY DEF MintInv
<1>1. ~overlapped /\ ChainMinted(chain)
  <2>1. CASE UNCHANGED ledgerVars
    BY <2>1 DEF MintInv, ledgerVars
  <2>2. CASE LedgerNext
    <3>1. overlapped' = (overlapped \/ Overlaps)
      BY <2>2 DEF LedgerNext
    <3> QED
      BY <3>1 DEF MintInv
  <2> QED
    BY <2>1, <2>2
<1>2. chain' = chain \/ \E s \in Submitters : SubApply(s)
  BY DEF LedgerNext, LedgerStep, ledgerVars, SendRead, SendCheck, SendAdd, SendList, SendSave,
         Submit, SubList, SubSave, Crash, Restart, disk
<1>3. CASE chain' = chain
  BY <1>1, <1>3
<1>4. ASSUME NEW s \in Submitters, SubApply(s) PROVE ChainMinted(chain')
  <2> DEFINE txs == th[s].txs
  <2>1. /\ s \in Threads /\ up /\ th[s].pc = "apply" /\ chain' = Append(chain, txs)
    BY <1>4 DEF Threads, SubApply, At
  <2>2. txs \in Seq(Txs) /\ chain \in Seq(Seq(Txs)) /\ ChainStands(chain)
    BY <2>1 DEF LedgerInv, LedgerTypeOK, CallsOK, CallOK
  <2>3. PICK book : /\ IsBook(book) /\ Covers(book, Mined)
                    /\ Checked(txs, Joined(utxo, CoinOut(Height, txs)), book, Height).ok
    BY <1>1, <2>1 DEF SerialInv, SerialCall
  <2>4. utxo = Replay(chain).utxo /\ Height <= MaxHeight
    BY <2>1 DEF LedgerInv, UtxoMatchesChain, BlockWaits
  <2>5. ChainMinted(Append(chain, txs))
    <3> HIDE DEF txs
    <3> QED
      BY <1>1, <2>2, <2>3, <2>4, BlockMints DEF Height, Mined
  <2> QED
    BY <2>1, <2>5
<1> QED
  BY <1>2, <1>3, <1>4

\* As long as calls came one after the other, and on a chain of plain
\* transactions, what the coinbases paid out covers the coins in circulation, the
\* bounties in escrow and the fees (check_spendable).
THEOREM ValueKept == LedgerSpec => []NoMinting
<1>1. LedgerInit => MintInv
  BY NoChainMinted DEF LedgerInit, MintInv
<1>2. LedgerInv /\ SerialInv /\ MintInv /\ [LedgerNext]_ledgerVars => MintInv'
  BY NextMint
<1>3. MintInv => NoMinting
  BY DEF MintInv, ChainMinted, AllPlain, NoMinting, Mined, Holdings, Charged, PaidOut
<1> QED
  BY <1>1, <1>2, <1>3, LedgerSafe, LedgerSerial, PTL DEF LedgerSpec
=============================================================================
