--------------------------- MODULE Ledger_proofs ---------------------------
(***************************************************************************)
(* Proofs about Ledger for every set of transactions, every bound and any  *)
(* number of threads.  What a block does to the unspent outputs is a fold  *)
(* over its transactions, and what the chain does a fold over its blocks:  *)
(* each is an instance of FoldTheorems, with what is shown of it.          *)
(***************************************************************************)
EXTENDS Ledger, FiniteSetTheorems, TLAPS

-----------------------------------------------------------------------------
(* Sequences, and the folds of the ledger *)

\* Appending adds an element after the others.
LEMMA AppendPlaces ==
    ASSUME NEW S, NEW s \in Seq(S), NEW x \in S
    PROVE  /\ Append(s, x) \in Seq(S) /\ Len(s) \in Nat
           /\ Len(Append(s, x)) = Len(s) + 1
           /\ \A i \in 1..Len(s) : Append(s, x)[i] = s[i]
           /\ Append(s, x)[Len(s) + 1] = x
           /\ 1..Len(Append(s, x)) = 1..Len(s) \union {Len(s) + 1}
           /\ Len(s) + 1 \notin 1..Len(s)
           /\ ToSet(Append(s, x)) = ToSet(s) \union {x}
<1>1. /\ Append(s, x) \in Seq(S) /\ Len(s) \in Nat
      /\ Len(Append(s, x)) = Len(s) + 1
      /\ \A i \in 1..Len(s) : Append(s, x)[i] = s[i]
      /\ Append(s, x)[Len(s) + 1] = x
  OBVIOUS
<1>2. 1..Len(Append(s, x)) = 1..Len(s) \union {Len(s) + 1}
  BY <1>1
<1>3. DOMAIN s = 1..Len(s) /\ DOMAIN Append(s, x) = 1..Len(Append(s, x))
  OBVIOUS
<1>4. ToSet(Append(s, x)) = ToSet(s) \union {x}
  BY <1>1, <1>2, <1>3 DEF ToSet
<1> QED
  BY <1>1, <1>2, <1>4

\* A sum of amounts is an amount.
SumIsNat(s) == Sum(s) \in Nat

OfPlus == INSTANCE FoldTheorems WITH Op <- Plus, P <- SumIsNat

LEMMA SumFolds == \A s : Sum(s) = OfPlus!Fold(0, s)
BY DEF Sum, OfPlus!Fold, FoldLeft, OfPlus!FoldLeft, MapThenFoldSet,
       OfPlus!MapThenFoldSet, Max, OfPlus!Max

LEMMA SumType == \A s \in Seq(Nat) : Sum(s) \in Nat
<1>1. SumIsNat(<< >>)
  BY SumFolds, OfPlus!FoldEmpty DEF SumIsNat
<1>2. ASSUME NEW s \in Seq(Nat), NEW x \in Nat, SumIsNat(s)
      PROVE  SumIsNat(Append(s, x))
  <2>1. Sum(Append(s, x)) = Plus(Sum(s), x)
    BY SumFolds, OfPlus!FoldAppend
  <2> QED
    BY <1>2, <2>1 DEF SumIsNat, Plus
<1>3. \A s \in Seq(Nat) : SumIsNat(s)
  BY <1>1, <1>2, OfPlus!SeqInduction
<1> QED
  BY <1>3 DEF SumIsNat

\* What a coinbase pays out is an amount.
LEMMA CoinValueType == \A txs \in Seq(Txs) : CoinValue(txs) \in Nat
<1> SUFFICES ASSUME NEW txs \in Seq(Txs) PROVE CoinValue(txs) \in Nat
  OBVIOUS
<1>1. [i \in 1..Len(txs) |-> Def[txs[i]].fee] \in Seq(Nat)
  BY TxAssumption
<1>2. Fees(txs) \in Nat
  BY <1>1, SumType DEF Fees
<1>3. \A percent \in Nat : Share(txs, percent) \in Nat
  <2> SUFFICES ASSUME NEW percent \in Nat PROVE Share(txs, percent) \in Nat
    OBVIOUS
  <2>1. \A n \in Nat : Wrap(n) \in Nat
    BY UMaxAssumption DEF Wrap
  <2>2. \A n, m \in Nat : n * m \in Nat
    OBVIOUS
  <2>3. \A n \in Nat : n \div 100 \in Nat
    OBVIOUS
  <2> QED
    BY <1>2, <2>1, <2>2, <2>3 DEF Share
<1>4. /\ Share(txs, 60) \in Nat /\ Share(txs, 20) \in Nat
      /\ Share(txs, 8) \in Nat /\ Share(txs, 7) \in Nat
  BY <1>3
<1> QED
  BY <1>4, TxAssumption DEF CoinValue

-----------------------------------------------------------------------------
(* Unspent outputs and the transactions that spend them *)

\* The coinbases of the first n blocks, and the outputs of transactions.
Coins(n) == {Coin(h) : h \in 1..n}
Outputs(S) == UNION {DOMAIN Outs(t) : t \in S}

\* Unspent outputs are outpoints with amounts.
Coinage(u) == DOMAIN u \subseteq Outpoints /\ u \in [DOMAIN u -> Nat]

\* What stands between the unspent outputs u, after n blocks, and the
\* transactions S of these blocks: everything was made by the chain, every input
\* was made by the chain and is gone, and no output was spent twice.
Stands(n, S, u) ==
    /\ S \subseteq Txs
    /\ DOMAIN u \subseteq Coins(n) \union Outputs(S)
    /\ \A t \in S : /\ Ins(t) # {}
                    /\ Ins(t) \subseteq Coins(n) \union Outputs(S)
                    /\ Ins(t) \cap DOMAIN u = {}
    /\ \A t, p \in S : t # p => Ins(t) \cap Ins(p) = {}

\* The outputs of a transaction are outpoints that name it.
LEMMA OutsType ==
    ASSUME NEW t \in Txs
    PROVE  /\ Coinage(Outs(t))
           /\ \A o \in DOMAIN Outs(t) : o[1] = t
<1>1. Def[t].outs \in Seq(Nat)
  BY TxAssumption
<1>2. /\ DOMAIN Outs(t) = {<<t, n>> : n \in 1..Len(Def[t].outs)}
      /\ \A n \in 1..Len(Def[t].outs) : Outs(t)[<<t, n>>] = Def[t].outs[n]
  BY DEF Outs
<1>3. \A n \in 1..Len(Def[t].outs) : n \in Nat \ {0} /\ Def[t].outs[n] \in Nat
  BY <1>1
<1>4. DOMAIN Outs(t) \subseteq Outpoints
  BY <1>2, <1>3 DEF Outpoints
<1>5. \A o \in DOMAIN Outs(t) : Outs(t)[o] \in Nat
  BY <1>2, <1>3
<1>6. Outs(t) \in [DOMAIN Outs(t) -> Nat]
  BY <1>5 DEF Outs
<1> QED
  BY <1>2, <1>4, <1>6 DEF Coinage

\* The coinbase of a block is an outpoint that names its height.
LEMMA CoinOutType ==
    ASSUME NEW h \in 1..MaxHeight, NEW txs \in Seq(Txs)
    PROVE  Coinage(CoinOut(h, txs)) /\ DOMAIN CoinOut(h, txs) = {Coin(h)}
BY CoinValueType, TxAssumption DEF Coinage, CoinOut, Coin, Outpoints

\* Joining and spending keep amounts.
LEMMA JoinedType ==
    ASSUME NEW u, NEW v, Coinage(u), Coinage(v)
    PROVE  Coinage(Joined(u, v)) /\ DOMAIN Joined(u, v) = DOMAIN u \union DOMAIN v
BY DEF Coinage, Joined

LEMMA AppliedType ==
    ASSUME NEW u, Coinage(u), NEW t \in Txs
    PROVE  Coinage(Applied(u, t))
<1>1. Coinage(Restrict(u, DOMAIN u \ Ins(t)))
  BY DEF Coinage, Restrict
<1> QED
  BY <1>1, OutsType, JoinedType DEF Applied

\* A transaction that can be applied takes its inputs and leaves its outputs.
LEMMA AppliedDomain ==
    ASSUME NEW u, NEW t \in Txs, CanApply(u, t)
    PROVE  DOMAIN Applied(u, t) = (DOMAIN u \ Ins(t)) \union DOMAIN Outs(t)
BY DEF Applied, Joined, Restrict

\* No coinbase is an output of a transaction, and none is there before its block.
LEMMA CoinApart ==
    ASSUME NEW S \in SUBSET Txs, NEW n \in Nat, n + 1 <= MaxHeight
    PROVE  Coin(n + 1) \notin Coins(n) \union Outputs(S)
<1>1. n + 1 \in 1..MaxHeight
  BY TxAssumption
<1>2. n + 1 \notin S
  BY <1>1, TxAssumption
<1>3. \A t \in S : Coin(n + 1) \notin DOMAIN Outs(t)
  BY <1>2, OutsType DEF Coin
<1>4. Coin(n + 1) \notin Coins(n)
  BY DEF Coin, Coins
<1> QED
  BY <1>3, <1>4 DEF Outputs

LEMMA OutsApart ==
    ASSUME NEW S \in SUBSET Txs, NEW n \in Nat, n <= MaxHeight, NEW t \in Txs, t \notin S
    PROVE  DOMAIN Outs(t) \cap (Coins(n) \union Outputs(S)) = {}
<1>1. \A o \in DOMAIN Outs(t) : o[1] = t
  BY OutsType
<1>2. \A o \in Coins(n) : o[1] \in 1..MaxHeight
  BY TxAssumption DEF Coins, Coin
<1>3. \A o \in Outputs(S) : o[1] \in S
  BY OutsType DEF Outputs
<1> QED
  BY <1>1, <1>2, <1>3, TxAssumption

\* The coinbase of the next block joins what stands.
LEMMA CoinStands ==
    ASSUME NEW S, NEW n \in Nat, n + 1 <= MaxHeight, NEW u, Stands(n, S, u), NEW txs
    PROVE  Stands(n + 1, S, Joined(u, CoinOut(n + 1, txs)))
<1>1. Coins(n + 1) = Coins(n) \union {Coin(n + 1)}
  <2>1. 1..(n + 1) = 1..n \union {n + 1}
    OBVIOUS
  <2> QED
    BY <2>1 DEF Coins
<1>2. Coin(n + 1) \notin Coins(n) \union Outputs(S)
  BY CoinApart DEF Stands
<1>3. DOMAIN Joined(u, CoinOut(n + 1, txs)) = DOMAIN u \union {Coin(n + 1)}
  BY DEF Joined, CoinOut
<1> QED
  BY <1>1, <1>2, <1>3 DEF Stands

\* A transaction that spends unspent outputs is a new one, can be applied and
\* leaves what stands.
LEMMA SpendStands ==
    ASSUME NEW S, NEW n \in Nat, n <= MaxHeight, NEW u, Stands(n, S, u),
           NEW t \in Txs, Ins(t) # {}, Ins(t) \subseteq DOMAIN u
    PROVE  /\ t \notin S
           /\ CanApply(u, t)
           /\ Stands(n, S \union {t}, Applied(u, t))
           /\ \A p \in S : Ins(t) \cap Ins(p) = {}
<1>1. t \notin S
  BY DEF Stands
<1>2. DOMAIN Outs(t) \cap (Coins(n) \union Outputs(S)) = {}
  BY <1>1, OutsApart DEF Stands
<1>3. CanApply(u, t)
  BY <1>2 DEF CanApply, Stands
<1>4. DOMAIN Applied(u, t) = (DOMAIN u \ Ins(t)) \union DOMAIN Outs(t)
  BY <1>3, AppliedDomain
<1>5. Outputs(S \union {t}) = Outputs(S) \union DOMAIN Outs(t)
  BY DEF Outputs
<1>6. \A p \in S : Ins(t) \cap Ins(p) = {}
  BY DEF Stands
<1>7. \A p \in S : Ins(p) \cap DOMAIN Applied(u, t) = {}
  BY <1>2, <1>4 DEF Stands
<1>8. Ins(t) \cap DOMAIN Applied(u, t) = {}
  BY <1>2, <1>4 DEF Stands
<1>9. Stands(n, S \union {t}, Applied(u, t))
  BY <1>4, <1>5, <1>6, <1>7, <1>8 DEF Stands
<1> QED
  BY <1>1, <1>3, <1>6, <1>9

-----------------------------------------------------------------------------
(* The blocks of a chain, replayed one after the other *)

\* The unspent outputs once the transactions of a block are applied in turn.
Spending(u, q) == FoldLeft(Applied, u, q)

SpendingTyped(q) == \A u : Coinage(u) => Coinage(Spending(u, q))

OfApplied == INSTANCE FoldTheorems WITH Op <- Applied, P <- SpendingTyped

LEMMA SpendingFolds == \A u, q : Spending(u, q) = OfApplied!Fold(u, q)
BY DEF Spending, OfApplied!Fold, FoldLeft, OfApplied!FoldLeft, MapThenFoldSet,
       OfApplied!MapThenFoldSet, Max, OfApplied!Max

LEMMA SpendingNone == \A u : Spending(u, << >>) = u
BY SpendingFolds, OfApplied!FoldEmpty

LEMMA SpendingNext ==
    ASSUME NEW q \in Seq(Txs), NEW t \in Txs, NEW u
    PROVE  Spending(u, Append(q, t)) = Applied(Spending(u, q), t)
BY SpendingFolds, OfApplied!FoldAppend

LEMMA SpendingType ==
    ASSUME NEW q \in Seq(Txs), NEW u, Coinage(u)
    PROVE  Coinage(Spending(u, q))
<1>1. SpendingTyped(<< >>)
  BY SpendingNone DEF SpendingTyped
<1>2. \A s \in Seq(Txs), t \in Txs : SpendingTyped(s) => SpendingTyped(Append(s, t))
  BY SpendingNext, AppliedType DEF SpendingTyped
<1>3. \A s \in Seq(Txs) : SpendingTyped(s)
  BY <1>1, <1>2, OfApplied!SeqInduction
<1> QED
  BY <1>3 DEF SpendingTyped

\* What a replay carries from one block to the next.
IsReplay(a) == a = [ok |-> a.ok, utxo |-> a.utxo, book |-> a.book, h |-> a.h]

Replaying(a, q) == FoldLeft(ReplayTx, a, q)

ReplayingSpends(q) ==
    \A a : IsReplay(a) => /\ IsReplay(Replaying(a, q))
                          /\ Replaying(a, q).utxo = Spending(a.utxo, q)
                          /\ Replaying(a, q).h = a.h

OfReplayTx == INSTANCE FoldTheorems WITH Op <- ReplayTx, P <- ReplayingSpends

LEMMA ReplayingFolds == \A a, q : Replaying(a, q) = OfReplayTx!Fold(a, q)
BY DEF Replaying, OfReplayTx!Fold, FoldLeft, OfReplayTx!FoldLeft, MapThenFoldSet,
       OfReplayTx!MapThenFoldSet, Max, OfReplayTx!Max

LEMMA ReplayingNone == \A a : Replaying(a, << >>) = a
BY ReplayingFolds, OfReplayTx!FoldEmpty

LEMMA ReplayingNext ==
    ASSUME NEW q \in Seq(Txs), NEW t \in Txs, NEW a
    PROVE  Replaying(a, Append(q, t)) = ReplayTx(Replaying(a, q), t)
BY ReplayingFolds, OfReplayTx!FoldAppend

\* A replay applies the transactions of a block as its acceptance did, whatever
\* it makes of the flags.
LEMMA ReplayingType ==
    ASSUME NEW q \in Seq(Txs), NEW a, IsReplay(a)
    PROVE  /\ IsReplay(Replaying(a, q))
           /\ Replaying(a, q).utxo = Spending(a.utxo, q)
           /\ Replaying(a, q).h = a.h
<1>1. ReplayingSpends(<< >>)
  BY ReplayingNone, SpendingNone DEF ReplayingSpends
<1>2. ASSUME NEW s \in Seq(Txs), NEW t \in Txs, ReplayingSpends(s)
      PROVE  ReplayingSpends(Append(s, t))
  <2> SUFFICES ASSUME NEW b, IsReplay(b)
               PROVE  /\ IsReplay(Replaying(b, Append(s, t)))
                      /\ Replaying(b, Append(s, t)).utxo = Spending(b.utxo, Append(s, t))
                      /\ Replaying(b, Append(s, t)).h = b.h
    BY DEF ReplayingSpends
  <2> DEFINE r == Replaying(b, s)
  <2>1. IsReplay(r) /\ r.utxo = Spending(b.utxo, s) /\ r.h = b.h
    BY <1>2 DEF ReplayingSpends
  <2>2. Replaying(b, Append(s, t)) = ReplayTx(r, t)
    BY ReplayingNext
  <2>3. Spending(b.utxo, Append(s, t)) = Applied(r.utxo, t)
    BY <2>1, SpendingNext
  <2> HIDE DEF r
  <2>4. /\ IsReplay(ReplayTx(r, t))
        /\ ReplayTx(r, t).utxo = Applied(r.utxo, t)
        /\ ReplayTx(r, t).h = r.h
    BY DEF ReplayTx, IsReplay
  <2> QED
    BY <2>1, <2>2, <2>3, <2>4
<1>3. \A s \in Seq(Txs) : ReplayingSpends(s)
  BY <1>1, <1>2, OfReplayTx!SeqInduction
<1> QED
  BY <1>3 DEF ReplayingSpends

\* What a replay of a chain starts from.
Genesis == [ok |-> TRUE, utxo |-> << >>, book |-> EmptyBook, h |-> 1]

ReplayCounts(c) == IsReplay(Replay(c)) /\ Replay(c).h = Len(c) + 1

OfReplayBlock == INSTANCE FoldTheorems WITH Op <- ReplayBlock, P <- ReplayCounts

LEMMA ReplayFolds == \A c : Replay(c) = OfReplayBlock!Fold(Genesis, c)
BY DEF Replay, Genesis, OfReplayBlock!Fold, FoldLeft, OfReplayBlock!FoldLeft,
       MapThenFoldSet, OfReplayBlock!MapThenFoldSet, Max, OfReplayBlock!Max

LEMMA ReplayNone == Replay(<< >>) = Genesis
BY ReplayFolds, OfReplayBlock!FoldEmpty

LEMMA ReplayAppend ==
    ASSUME NEW c \in Seq(Seq(Txs)), NEW txs \in Seq(Txs)
    PROVE  Replay(Append(c, txs)) = ReplayBlock(Replay(c), txs)
BY ReplayFolds, OfReplayBlock!FoldAppend

\* What a replay makes of one more block.
LEMMA ReplayBlockType ==
    ASSUME NEW a, IsReplay(a), NEW txs \in Seq(Txs)
    PROVE  /\ IsReplay(ReplayBlock(a, txs))
           /\ ReplayBlock(a, txs).utxo = Stored(a.utxo, a.h, txs)
           /\ ReplayBlock(a, txs).h = a.h + 1
           /\ ReplayBlock(a, txs).ok =
                Replaying([a EXCEPT !.utxo = Joined(@, CoinOut(a.h, txs))], txs).ok
<1> DEFINE b == [a EXCEPT !.utxo = Joined(@, CoinOut(a.h, txs))]
           r == Replaying(b, txs)
<1>1. IsReplay(b) /\ b.utxo = Joined(a.utxo, CoinOut(a.h, txs)) /\ b.h = a.h
  BY DEF IsReplay
<1>2. IsReplay(r) /\ r.utxo = Spending(b.utxo, txs) /\ r.h = b.h
  BY <1>1, ReplayingType
<1>3. ReplayBlock(a, txs) = [r EXCEPT !.h = @ + 1]
  BY DEF ReplayBlock, Replaying
<1> HIDE DEF r
<1>4. /\ IsReplay([r EXCEPT !.h = @ + 1])
      /\ [r EXCEPT !.h = @ + 1].utxo = r.utxo
      /\ [r EXCEPT !.h = @ + 1].ok = r.ok
      /\ [r EXCEPT !.h = @ + 1].h = r.h + 1
  BY <1>2 DEF IsReplay
<1> QED
  BY <1>1, <1>2, <1>3, <1>4 DEF Stored, Spending, r

\* A replay counts the blocks.
LEMMA ReplayType ==
    ASSUME NEW c \in Seq(Seq(Txs))
    PROVE  IsReplay(Replay(c)) /\ Replay(c).h = Len(c) + 1
<1>1. ReplayCounts(<< >>)
  BY ReplayNone DEF ReplayCounts, Genesis, IsReplay
<1>2. ASSUME NEW d \in Seq(Seq(Txs)), NEW txs \in Seq(Txs), ReplayCounts(d)
      PROVE  ReplayCounts(Append(d, txs))
  <2>1. IsReplay(Replay(d)) /\ Replay(d).h = Len(d) + 1
    BY <1>2 DEF ReplayCounts
  <2>2. Replay(Append(d, txs)) = ReplayBlock(Replay(d), txs)
    BY ReplayAppend
  <2>3. IsReplay(ReplayBlock(Replay(d), txs)) /\ ReplayBlock(Replay(d), txs).h = Len(d) + 1 + 1
    BY <2>1, ReplayBlockType
  <2>4. Len(Append(d, txs)) = Len(d) + 1
    OBVIOUS
  <2> QED
    BY <2>2, <2>3, <2>4 DEF ReplayCounts
<1>3. \A d \in Seq(Seq(Txs)) : ReplayCounts(d)
  BY <1>1, <1>2, OfReplayBlock!SeqInduction
<1> QED
  BY <1>3 DEF ReplayCounts

\* The unspent outputs a longer chain rebuilds are those that storing its last
\* block leaves of the ones the shorter chain rebuilds.
LEMMA ReplayStores ==
    ASSUME NEW c \in Seq(Seq(Txs)), NEW txs \in Seq(Txs)
    PROVE  Replay(Append(c, txs)).utxo = Stored(Replay(c).utxo, Len(c) + 1, txs)
BY ReplayAppend, ReplayBlockType, ReplayType
-----------------------------------------------------------------------------
(* A block that passes the rules *)

Inputs(S) == UNION {Ins(t) : t \in S}

\* What stands after the transactions q of a block that pass its rules, one
\* after the other: they spend what is there and are new, so a replay applies
\* each of them.
Follows(q, S, n, u, v, k) ==
    /\ Stands(n, S \union ToSet(q), v)
    /\ k.prior = ToSet(q)
    /\ DOMAIN k.have \ Inputs(ToSet(q)) \subseteq DOMAIN v
    /\ ToSet(q) \cap S = {}
    /\ \A i, j \in 1..Len(q) : i # j => q[i] # q[j]
    /\ (\A t \in ToSet(q) : Def[t].kind = "pay") =>
          \A a : IsReplay(a) /\ a.ok /\ a.utxo = u => Replaying(a, q).ok

CheckedFollows(q) ==
    \A S, n, u, have, book :
        /\ n \in Nat /\ n <= MaxHeight /\ Stands(n, S, u)
        /\ DOMAIN have \subseteq DOMAIN u
        /\ Checked(q, have, book, n).ok
        => Follows(q, S, n, u, Spending(u, q), Checked(q, have, book, n))

OfCheckTx == INSTANCE FoldTheorems WITH Op <- CheckTx, P <- CheckedFollows

LEMMA CheckedFolds ==
    \A q, have, book, n :
        Checked(q, have, book, n) =
            OfCheckTx!Fold([ok |-> TRUE, have |-> have, prior |-> {}, book |-> book, h |-> n], q)
BY DEF Checked, OfCheckTx!Fold, FoldLeft, OfCheckTx!FoldLeft, MapThenFoldSet,
       OfCheckTx!MapThenFoldSet, Max, OfCheckTx!Max

LEMMA CheckedNone ==
    \A have, book, n :
        Checked(<< >>, have, book, n) =
            [ok |-> TRUE, have |-> have, prior |-> {}, book |-> book, h |-> n]
BY CheckedFolds, OfCheckTx!FoldEmpty

LEMMA CheckedNext ==
    ASSUME NEW q \in Seq(Txs), NEW t \in Txs, NEW have, NEW book, NEW n
    PROVE  Checked(Append(q, t), have, book, n) = CheckTx(Checked(q, have, book, n), t)
BY CheckedFolds, OfCheckTx!FoldAppend

\* A replay of a transaction that can be applied and asks nothing of the flags.
LEMMA ReplayPay ==
    ASSUME NEW a, IsReplay(a), a.ok, NEW t \in Txs, Def[t].kind = "pay", CanApply(a.utxo, t)
    PROVE  ReplayTx(a, t).ok
BY DEF ReplayTx, FlagOk

LEMMA FollowsNone ==
    ASSUME NEW S, NEW n, NEW u, Stands(n, S, u), NEW k, k.prior = {},
           DOMAIN k.have \subseteq DOMAIN u
    PROVE  Follows(<< >>, S, n, u, u, k)
<1>1. ToSet(<< >>) = {}
  BY DEF ToSet
<1>2. Inputs({}) = {} /\ S \union {} = S /\ 1..Len(<< >>) = {}
  BY DEF Inputs
<1>3. \A a : a.ok => Replaying(a, << >>).ok
  BY ReplayingNone
<1>4. Stands(n, S \union ToSet(<< >>), u)
  BY <1>1, <1>2
<1>5. \A i, j \in 1..Len(<< >>) : i # j => << >>[i] # << >>[j]
  BY <1>2
<1>6. DOMAIN k.have \ Inputs(ToSet(<< >>)) \subseteq DOMAIN u
  BY <1>1
<1> QED
  BY <1>1, <1>3, <1>4, <1>5, <1>6 DEF Follows

LEMMA FollowsNext ==
    ASSUME NEW q \in Seq(Txs), NEW t \in Txs, NEW S, NEW n \in Nat, n <= MaxHeight,
           NEW u, NEW k, Follows(q, S, n, u, Spending(u, q), k), CheckTx(k, t).ok
    PROVE  Follows(Append(q, t), S, n, u, Spending(u, Append(q, t)), CheckTx(k, t))
<1> DEFINE v == Spending(u, q)
           w == Spending(u, Append(q, t))
           all == S \union ToSet(q)
<1>1. w = Applied(v, t)
  BY SpendingNext
<1>2. ToSet(Append(q, t)) = ToSet(q) \union {t}
  BY AppendPlaces
<1>3. Spendable(t, k.have, k.prior, k.book)
  BY DEF CheckTx, Admissible
<1>4. /\ Stands(n, all, v)
      /\ k.prior = ToSet(q)
      /\ DOMAIN k.have \ Inputs(ToSet(q)) \subseteq DOMAIN v
  BY DEF Follows
<1>5. Ins(t) # {} /\ Ins(t) \subseteq DOMAIN k.have /\ Fresh(t, ToSet(q))
  BY <1>3, <1>4 DEF Spendable
<1>6. Ins(t) \cap Inputs(ToSet(q)) = {}
  BY <1>5 DEF Fresh, Inputs
<1>7. Ins(t) \subseteq DOMAIN v
  BY <1>4, <1>5, <1>6
<1>8. t \notin all /\ CanApply(v, t) /\ Stands(n, all \union {t}, Applied(v, t))
  BY <1>4, <1>5, <1>7, SpendStands
<1>9. DOMAIN w = (DOMAIN v \ Ins(t)) \union DOMAIN Outs(t)
  BY <1>1, <1>8, AppliedDomain
<1> HIDE DEF v, w
<1>10. Stands(n, S \union ToSet(Append(q, t)), w)
  <2>1. S \union ToSet(Append(q, t)) = all \union {t}
    BY <1>2
  <2> QED
    BY <1>1, <1>8, <2>1
<1>11. CheckTx(k, t).prior = ToSet(Append(q, t))
  BY <1>2, <1>4 DEF CheckTx
<1>12. DOMAIN CheckTx(k, t).have \ Inputs(ToSet(Append(q, t))) \subseteq DOMAIN w
  <2>1. DOMAIN CheckTx(k, t).have = DOMAIN k.have \union DOMAIN Outs(t)
    BY DEF CheckTx, Joined
  <2>2. Inputs(ToSet(Append(q, t))) = Inputs(ToSet(q)) \union Ins(t)
    BY <1>2 DEF Inputs
  <2> QED
    BY <1>4, <1>9, <2>1, <2>2
<1>13. ToSet(Append(q, t)) \cap S = {}
  BY <1>2, <1>8 DEF Follows
<1>14. \A i, j \in 1..Len(Append(q, t)) : i # j => Append(q, t)[i] # Append(q, t)[j]
  <2>1. \A i \in 1..Len(q) : q[i] \in ToSet(q)
    BY DEF ToSet
  <2>2. \A i, j \in 1..Len(q) : i # j => q[i] # q[j]
    BY DEF Follows
  <2> QED
    BY <1>8, <2>1, <2>2, AppendPlaces
<1>15. ASSUME \A p \in ToSet(Append(q, t)) : Def[p].kind = "pay",
              NEW a, IsReplay(a), a.ok, a.utxo = u
       PROVE  Replaying(a, Append(q, t)).ok
  <2>1. IsReplay(Replaying(a, q)) /\ Replaying(a, q).utxo = v
    BY <1>15, ReplayingType DEF v
  <2>2. Replaying(a, q).ok
    BY <1>2, <1>15 DEF Follows
  <2>3. Replaying(a, Append(q, t)) = ReplayTx(Replaying(a, q), t)
    BY ReplayingNext
  <2> QED
    BY <1>2, <1>8, <1>15, <2>1, <2>2, <2>3, ReplayPay
<1> QED
  BY <1>10, <1>11, <1>12, <1>13, <1>14, <1>15 DEF Follows, w

\* A block that passes the rules spends each output once.
LEMMA BlockFollows ==
    ASSUME NEW txs \in Seq(Txs), NEW S, NEW n \in Nat, n <= MaxHeight, NEW u, Stands(n, S, u),
           NEW book, Checked(txs, u, book, n).ok
    PROVE  Follows(txs, S, n, u, Spending(u, txs), Checked(txs, u, book, n))
<1>1. CheckedFollows(<< >>)
  BY CheckedNone, SpendingNone, FollowsNone DEF CheckedFollows
<1>2. ASSUME NEW q \in Seq(Txs), NEW t \in Txs, CheckedFollows(q)
      PROVE  CheckedFollows(Append(q, t))
  <2> SUFFICES ASSUME NEW T, NEW m \in Nat, m <= MaxHeight, NEW v, Stands(m, T, v),
                      NEW have, DOMAIN have \subseteq DOMAIN v, NEW b,
                      Checked(Append(q, t), have, b, m).ok
               PROVE  Follows(Append(q, t), T, m, v, Spending(v, Append(q, t)),
                              Checked(Append(q, t), have, b, m))
    BY DEF CheckedFollows
  <2> DEFINE k == Checked(q, have, b, m)
  <2>1. Checked(Append(q, t), have, b, m) = CheckTx(k, t)
    BY CheckedNext
  <2>2. CheckTx(k, t).ok /\ k.ok
    <3>1. CheckTx(k, t).ok
      BY <2>1
    <3> HIDE DEF k
    <3> QED
      BY <3>1 DEF CheckTx
  <2>3. Follows(q, T, m, v, Spending(v, q), k)
    BY <1>2, <2>2 DEF CheckedFollows
  <2> QED
    BY <2>1, <2>2, <2>3, FollowsNext
<1>3. \A q \in Seq(Txs) : CheckedFollows(q)
  BY <1>1, <1>2, OfCheckTx!SeqInduction
<1> QED
  BY <1>3 DEF CheckedFollows
-----------------------------------------------------------------------------
(* A chain whose blocks all passed the rules *)

\* No transaction is in the chain twice.
Distinct(c) ==
    \A h, k \in 1..Len(c) : \A i \in 1..Len(c[h]), j \in 1..Len(c[k]) :
        <<h, i>> # <<k, j>> => c[h][i] # c[k][j]

ChainStands(c) ==
    /\ Len(c) <= MaxHeight
    /\ Stands(Len(c), TxsOf(c), Replay(c).utxo)
    /\ Coinage(Replay(c).utxo)
    /\ Distinct(c)
    /\ (\A t \in TxsOf(c) : Def[t].kind = "pay") => Replay(c).ok

LEMMA TxsOfAppend ==
    ASSUME NEW c \in Seq(Seq(Txs)), NEW txs \in Seq(Txs)
    PROVE  /\ TxsOf(Append(c, txs)) = TxsOf(c) \union ToSet(txs)
           /\ \A h \in 1..Len(c) : \A i \in 1..Len(c[h]) : c[h][i] \in TxsOf(c)
<1>1. /\ \A h \in 1..Len(c) : Append(c, txs)[h] = c[h]
      /\ Append(c, txs)[Len(c) + 1] = txs
      /\ 1..Len(Append(c, txs)) = 1..Len(c) \union {Len(c) + 1}
  BY AppendPlaces
<1>2. \A h \in 1..Len(c) : \A i \in 1..Len(c[h]) : c[h][i] \in ToSet(c[h])
  BY DEF ToSet
<1> QED
  BY <1>1, <1>2 DEF TxsOf

LEMMA NoChainStands == ChainStands(<< >>)
<1>1. Replay(<< >>).utxo = << >> /\ Replay(<< >>).ok
  BY ReplayNone DEF Genesis
<1>2. DOMAIN << >> = {} /\ Len(<< >>) = 0 /\ 1..0 = {} /\ TxsOf(<< >>) = {}
  BY DEF TxsOf
<1>3. Coinage(<< >>)
  BY <1>2 DEF Coinage
<1>4. Stands(0, {}, << >>)
  BY <1>2 DEF Stands
<1>5. Distinct(<< >>)
  BY <1>2 DEF Distinct
<1>6. 0 <= MaxHeight
  BY TxAssumption
<1>7. Stands(Len(<< >>), TxsOf(<< >>), Replay(<< >>).utxo)
  BY <1>1, <1>2, <1>4
<1> QED
  BY <1>1, <1>2, <1>3, <1>5, <1>6, <1>7 DEF ChainStands

LEMMA DistinctAppend ==
    ASSUME NEW c \in Seq(Seq(Txs)), NEW txs \in Seq(Txs), Distinct(c),
           ToSet(txs) \cap TxsOf(c) = {},
           \A i, j \in 1..Len(txs) : i # j => txs[i] # txs[j]
    PROVE  Distinct(Append(c, txs))
<1> DEFINE d == Append(c, txs)
<1>1. /\ \A h \in 1..Len(c) : d[h] = c[h]
      /\ d[Len(c) + 1] = txs
      /\ 1..Len(d) = 1..Len(c) \union {Len(c) + 1}
  BY AppendPlaces
<1>2. \A h \in 1..Len(c) : \A i \in 1..Len(c[h]) : c[h][i] \in TxsOf(c)
  BY TxsOfAppend
<1>3. \A j \in 1..Len(txs) : txs[j] \in ToSet(txs)
  BY DEF ToSet
<1> HIDE DEF d
<1> SUFFICES ASSUME NEW h \in 1..Len(d), NEW k \in 1..Len(d),
                    NEW i \in 1..Len(d[h]), NEW j \in 1..Len(d[k]), <<h, i>> # <<k, j>>
             PROVE  d[h][i] # d[k][j]
  BY DEF Distinct, d
<1>4. CASE h \in 1..Len(c) /\ k \in 1..Len(c)
  <2>1. d[h] = c[h] /\ d[k] = c[k]
    BY <1>1, <1>4
  <2>2. i \in 1..Len(c[h]) /\ j \in 1..Len(c[k])
    BY <2>1
  <2>3. c[h][i] # c[k][j]
    BY <1>4, <2>2 DEF Distinct
  <2> QED
    BY <2>1, <2>3
<1>5. CASE h \in 1..Len(c) /\ k = Len(c) + 1
  BY <1>1, <1>2, <1>3, <1>5
<1>6. CASE h = Len(c) + 1 /\ k \in 1..Len(c)
  BY <1>1, <1>2, <1>3, <1>6
<1>7. CASE h = Len(c) + 1 /\ k = Len(c) + 1
  <2>1. i # j
    BY <1>7
  <2>2. d[h] = txs /\ d[k] = txs
    BY <1>1, <1>7
  <2>3. i \in 1..Len(txs) /\ j \in 1..Len(txs)
    BY <2>2
  <2> QED
    BY <2>1, <2>2, <2>3
<1> QED
  BY <1>1, <1>4, <1>5, <1>6, <1>7

\* A block that passes the rules on a chain that stands leaves one that stands.
LEMMA BlockStands ==
    ASSUME NEW c \in Seq(Seq(Txs)), ChainStands(c), NEW txs \in Seq(Txs),
           Len(c) + 1 <= MaxHeight, NEW book,
           Checked(txs, Joined(Replay(c).utxo, CoinOut(Len(c) + 1, txs)), book,
                   Len(c) + 1).ok
    PROVE  ChainStands(Append(c, txs))
<1> DEFINE n == Len(c) + 1
           u == Joined(Replay(c).utxo, CoinOut(n, txs))
           d == Append(c, txs)
<1>1. n \in Nat /\ n \in 1..MaxHeight /\ Len(d) = n /\ Len(c) \in Nat
  BY TxAssumption
<1>2. Stands(n, TxsOf(c), u)
  BY <1>1, CoinStands DEF ChainStands
<1>3. Coinage(u)
  BY <1>1, CoinOutType, JoinedType DEF ChainStands
<1>4. PICK k : Follows(txs, TxsOf(c), n, u, Spending(u, txs), k)
  BY <1>1, <1>2, BlockFollows
<1>5. Replay(d).utxo = Spending(u, txs)
  BY ReplayStores DEF Stored, Spending
<1>6. TxsOf(d) = TxsOf(c) \union ToSet(txs)
  BY TxsOfAppend
<1>7. Stands(n, TxsOf(d), Replay(d).utxo)
  BY <1>4, <1>5, <1>6 DEF Follows
<1>8. Coinage(Replay(d).utxo)
  BY <1>3, <1>5, SpendingType
<1>9. Distinct(d)
  BY <1>4, DistinctAppend DEF Follows, ChainStands
<1>10. ASSUME \A t \in TxsOf(d) : Def[t].kind = "pay"
       PROVE  Replay(d).ok
  <2> DEFINE r == Replay(c)
             a == [r EXCEPT !.utxo = Joined(@, CoinOut(r.h, txs))]
  <2>1. r.ok
    BY <1>6, <1>10 DEF ChainStands
  <2>2. IsReplay(r) /\ r.h = n
    BY ReplayType
  <2>3. Replay(d).ok = Replaying(a, txs).ok
    BY <2>2, ReplayAppend, ReplayBlockType
  <2>4. a.utxo = u
    BY <2>2 DEF IsReplay
  <2> HIDE DEF r
  <2>5. IsReplay(a) /\ a.ok
    BY <2>1, <2>2 DEF IsReplay
  <2>6. \A t \in ToSet(txs) : Def[t].kind = "pay"
    BY <1>6, <1>10
  <2> HIDE DEF a, u
  <2>7. Replaying(a, txs).ok
    BY <1>4, <2>4, <2>5, <2>6 DEF Follows
  <2> QED
    BY <2>3, <2>7
<1> HIDE DEF d
<1> QED
  BY <1>1, <1>7, <1>8, <1>9, <1>10 DEF ChainStands, d

\* In a chain that stands no two transactions spend the same output.
LEMMA StandsSpentOnce ==
    ASSUME chain \in Seq(Seq(Txs)), ChainStands(chain)
    PROVE  SpentOnce
<1>1. \A h \in 1..Len(chain) : \A i \in 1..Len(chain[h]) : chain[h][i] \in TxsOf(chain)
  <2>1. \A h \in 1..Len(chain) : \A i \in 1..Len(chain[h]) : chain[h][i] \in ToSet(chain[h])
    BY DEF ToSet
  <2> QED
    BY <2>1 DEF TxsOf
<1> QED
  BY <1>1 DEF SpentOnce, ChainStands, Stands, Distinct
-----------------------------------------------------------------------------
(* The calls *)

\* What a call holds, by the step it is at.
CallOK(x) ==
    /\ x.pc \in {"idle", "check", "add", "list", "save", "apply", "relist", "resave"}
    /\ x.pc = "idle" => x = Idle
    /\ x.pc \in {"check", "add", "list"} =>
          /\ x = [pc |-> x.pc, tx |-> x.tx, prior |-> x.prior, h |-> x.h, book |-> x.book]
          /\ x.tx \in Txs
    /\ x.pc \in {"save", "resave"} =>
          x.list \subseteq Txs /\ Cardinality(x.list) <= ListLimit
    /\ x.pc = "apply" => x.txs \in Seq(Txs)

CallsOK ==
    \A s \in Threads : /\ CallOK(th[s])
                       /\ ~up => th[s] = Idle

\* g_chain_mu: one thread stores a block at a time.
Holds(s) == th[s].pc \in {"apply", "relist", "resave"}

OneHolder == \A s, r \in Threads : Holds(s) /\ Holds(r) => s = r /\ s \in Submitters

\* The block a call is about to store passed the rules on the chain as it is.
BlockWaits ==
    \A s \in Threads : th[s].pc = "apply" =>
        /\ Height <= MaxHeight
        /\ \E book : Checked(th[s].txs, Joined(utxo, CoinOut(Height, th[s].txs)),
                             book, Height).ok

\* No listing, and so no file, has more than ListLimit transactions.
FileFits == Cardinality(file) <= ListLimit

\* The inductive invariant.
LedgerInv ==
    /\ LedgerTypeOK
    /\ FileFits
    /\ CallsOK
    /\ OneHolder
    /\ BlockWaits
    /\ UtxoMatchesChain
    /\ ChainStands(chain)

\* What a load keeps of the file is of the file, and stands on the chain.
Loading(a, q) == FoldLeft(LoadTx, a, q)

IsLoad(a) == a = [pool |-> a.pool, book |-> a.book, utxo |-> a.utxo, h |-> a.h]

LoadingKeeps(q) ==
    \A a : IsLoad(a) =>
        /\ IsLoad(Loading(a, q)) /\ Loading(a, q).utxo = a.utxo
        /\ \A t \in Loading(a, q).pool \ a.pool :
              t \in ToSet(q) /\ Ins(t) # {} /\ Ins(t) \subseteq DOMAIN a.utxo

OfLoadTx == INSTANCE FoldTheorems WITH Op <- LoadTx, P <- LoadingKeeps

LEMMA LoadingFolds == \A a, q : Loading(a, q) = OfLoadTx!Fold(a, q)
BY DEF Loading, OfLoadTx!Fold, FoldLeft, OfLoadTx!FoldLeft, MapThenFoldSet,
       OfLoadTx!MapThenFoldSet, Max, OfLoadTx!Max

LEMMA LoadTxKeeps ==
    ASSUME NEW a, IsLoad(a), NEW t
    PROVE  /\ IsLoad(LoadTx(a, t)) /\ LoadTx(a, t).utxo = a.utxo
           /\ \A p \in LoadTx(a, t).pool \ a.pool :
                 p = t /\ Ins(p) # {} /\ Ins(p) \subseteq DOMAIN a.utxo
<1> DEFINE b == [a EXCEPT !.pool = @ \union {t}, !.book = BookAfter(@, t, a.h)]
<1>1. IsLoad(b) /\ b.utxo = a.utxo /\ b.pool = a.pool \union {t}
  <2> DEFINE k == BookAfter(a.book, t, a.h)
             s == a.pool \union {t}
  <2>1. b = [a EXCEPT !.pool = s, !.book = k]
    OBVIOUS
  <2> HIDE DEF k, s, b
  <2>2. b = [pool |-> s, book |-> k, utxo |-> a.utxo, h |-> a.h]
    BY <2>1 DEF IsLoad
  <2> QED
    BY <2>2 DEF IsLoad, s
<1>2. CASE Admissible(t, a.utxo, {}, a.book, a.h) /\ t \notin a.pool
  BY <1>1, <1>2 DEF LoadTx, Admissible, Spendable
<1>3. CASE ~(Admissible(t, a.utxo, {}, a.book, a.h) /\ t \notin a.pool)
  BY <1>3 DEF LoadTx
<1> QED
  BY <1>2, <1>3

LEMMA LoadedType ==
    ASSUME NEW q \in Seq(Txs), NEW u, NEW book, NEW n
    PROVE  \A t \in Loaded(q, u, book, n).pool :
              t \in ToSet(q) /\ Ins(t) # {} /\ Ins(t) \subseteq DOMAIN u
<1>1. LoadingKeeps(<< >>)
  BY LoadingFolds, OfLoadTx!FoldEmpty DEF LoadingKeeps
<1>2. ASSUME NEW s \in Seq(Txs), NEW t \in Txs, LoadingKeeps(s)
      PROVE  LoadingKeeps(Append(s, t))
  <2> SUFFICES ASSUME NEW a, IsLoad(a)
               PROVE  /\ IsLoad(Loading(a, Append(s, t)))
                      /\ Loading(a, Append(s, t)).utxo = a.utxo
                      /\ \A p \in Loading(a, Append(s, t)).pool \ a.pool :
                            /\ p \in ToSet(Append(s, t))
                            /\ Ins(p) # {} /\ Ins(p) \subseteq DOMAIN a.utxo
    BY DEF LoadingKeeps
  <2> DEFINE b == Loading(a, s)
  <2>1. Loading(a, Append(s, t)) = LoadTx(b, t)
    BY LoadingFolds, OfLoadTx!FoldAppend
  <2>2. /\ IsLoad(b) /\ b.utxo = a.utxo
        /\ \A p \in b.pool \ a.pool :
              p \in ToSet(s) /\ Ins(p) # {} /\ Ins(p) \subseteq DOMAIN a.utxo
    BY <1>2 DEF LoadingKeeps
  <2> HIDE DEF b
  <2>3. /\ IsLoad(LoadTx(b, t)) /\ LoadTx(b, t).utxo = b.utxo
        /\ \A p \in LoadTx(b, t).pool \ b.pool :
              p = t /\ Ins(p) # {} /\ Ins(p) \subseteq DOMAIN b.utxo
    BY <2>2, LoadTxKeeps
  <2>4. ToSet(Append(s, t)) = ToSet(s) \union {t}
    BY AppendPlaces
  <2> QED
    BY <2>1, <2>2, <2>3, <2>4
<1>3. LoadingKeeps(q)
  BY <1>1, <1>2, OfLoadTx!SeqInduction
<1> DEFINE a == [pool |-> {}, book |-> book, utxo |-> u, h |-> n]
<1>4. IsLoad(a) /\ a.pool = {} /\ a.utxo = u
  BY DEF IsLoad
<1>5. Loaded(q, u, book, n) = Loading(a, q)
  BY DEF Loaded, Loading
<1> HIDE DEF a
<1> QED
  BY <1>3, <1>4, <1>5 DEF LoadingKeeps

\* A listing of transactions lists them.
LEMMA ListingType ==
    ASSUME NEW S \in SUBSET Txs, NEW q \in SetToSeqs(S)
    PROVE  q \in Seq(Txs) /\ ToSet(q) \subseteq S
<1>1. Cardinality(S) \in Nat
  BY FS_Subset, FS_CardinalityType, TxAssumption
<1>2. q \in [1..Cardinality(S) -> S]
  BY DEF SetToSeqs
<1> QED
  BY <1>1, <1>2 DEF ToSet
\* What get_mempool_transactions lists of a set of transactions.
LEMMA ListableType ==
    ASSUME NEW S \in SUBSET Txs, NEW L \in Listable(S)
    PROVE  /\ L \subseteq S /\ Cardinality(L) <= ListLimit
           /\ Cardinality(S) <= ListLimit => L = S
<1>1. Cardinality(S) \in Nat /\ ListLimit \in Nat
  BY FS_Subset, FS_CardinalityType, TxAssumption
<1>2. CASE Cardinality(S) <= ListLimit
  BY <1>1, <1>2 DEF Listable
<1>3. CASE ~(Cardinality(S) <= ListLimit)
  BY <1>1, <1>3 DEF Listable, kSubset
<1> QED
  BY <1>2, <1>3
-----------------------------------------------------------------------------
(* The inductive invariant *)

LEMMA InitInv == LedgerInit => LedgerInv
<1> SUFFICES ASSUME LedgerInit PROVE LedgerInv
  OBVIOUS
<1> USE DEF LedgerInit
<1>1. DOMAIN << >> = {} /\ << >> \in Seq(Seq(Txs)) /\ << >> \in [{} -> Nat]
  OBVIOUS
<1>2. LedgerTypeOK
  BY <1>1 DEF LedgerTypeOK
<1>3. \A s \in Threads : th[s] = Idle
  OBVIOUS
<1>4. CallOK(Idle) /\ Idle.pc = "idle"
  BY DEF CallOK, Idle
<1>5. CallsOK /\ OneHolder /\ BlockWaits
  BY <1>3, <1>4 DEF CallsOK, OneHolder, Holds, BlockWaits
<1>6. UtxoMatchesChain
  BY ReplayNone DEF UtxoMatchesChain, Genesis
<1>7. ChainStands(chain)
  BY NoChainStands
<1>8. FileFits
  BY FS_EmptySet, TxAssumption DEF FileFits
<1> QED
  BY <1>2, <1>5, <1>6, <1>7, <1>8 DEF LedgerInv

\* A step of one call that leaves the chain alone and takes no lock.
LEMMA LocalStep ==
    ASSUME LedgerInv, NEW s \in Threads, NEW x, th' = [th EXCEPT ![s] = x], CallOK(x),
           x.pc \in {"relist", "resave"} => Holds(s), x.pc # "apply",
           up, up' = up, UNCHANGED <<chain, utxo>>
    PROVE  /\ DOMAIN th' = Threads
           /\ CallsOK' /\ OneHolder' /\ BlockWaits'
           /\ UtxoMatchesChain' /\ ChainStands(chain)'
<1>1. /\ DOMAIN th = Threads /\ CallsOK /\ OneHolder /\ BlockWaits
      /\ UtxoMatchesChain /\ ChainStands(chain)
  BY DEF LedgerInv, LedgerTypeOK
<1>2. /\ DOMAIN th' = Threads /\ th'[s] = x
      /\ \A r \in Threads : r # s => th'[r] = th[r]
  BY <1>1
<1>3. CallsOK'
  BY <1>1, <1>2 DEF CallsOK
<1>4. OneHolder'
  <2>1. \A r \in Threads : Holds(r)' => Holds(r)
    BY <1>2 DEF Holds
  <2> QED
    BY <1>1, <2>1 DEF OneHolder
<1>5. BlockWaits'
  <2>1. \A r \in Threads : th'[r].pc = "apply" => th'[r] = th[r]
    BY <1>2
  <2> QED
    BY <1>1, <2>1 DEF BlockWaits, Height
<1>6. UtxoMatchesChain'
  BY <1>1 DEF UtxoMatchesChain
<1>7. ChainStands(chain)'
  BY <1>1
<1> QED
  BY <1>2, <1>3, <1>4, <1>5, <1>6, <1>7

LEMMA SendReadInv ==
    ASSUME LedgerInv, NEW s \in Senders, NEW t \in Txs, SendRead(s, t),
           overlapped' \in BOOLEAN, crowded' \in BOOLEAN
    PROVE  LedgerInv'
<1>1. PICK p, b : Goto(s, [pc |-> "check", tx |-> t, prior |-> p, h |-> Height, book |-> b])
  BY DEF SendRead
<1> DEFINE x == [pc |-> "check", tx |-> t, prior |-> p, h |-> Height, book |-> b]
<1>2. CallOK(x) /\ x.pc = "check"
  BY DEF CallOK
<1>3. s \in Threads /\ th' = [th EXCEPT ![s] = x] /\ up
  BY <1>1 DEF Threads, Goto, SendRead, At
<1>4. up' = up /\ UNCHANGED <<chain, utxo, flags, pool, file>>
  BY DEF SendRead, memory, disk
<1> HIDE DEF x
<1>5. /\ DOMAIN th' = Threads
      /\ CallsOK' /\ OneHolder' /\ BlockWaits'
      /\ UtxoMatchesChain' /\ ChainStands(chain)'
  BY <1>2, <1>3, <1>4, LocalStep
<1>6. LedgerTypeOK' /\ FileFits'
  BY <1>3, <1>4, <1>5 DEF LedgerInv, LedgerTypeOK, FileFits
<1> QED
  BY <1>5, <1>6 DEF LedgerInv
LEMMA SendCheckInv ==
    ASSUME LedgerInv, NEW s \in Senders, SendCheck(s), overlapped' \in BOOLEAN,
           crowded' \in BOOLEAN
    PROVE  LedgerInv'
<1> DEFINE c == th[s]
           y == [c EXCEPT !.pc = "add"]
           z == [c EXCEPT !.pc = "add", !.book = BookAfter(@, c.tx, c.h)]
<1>1. s \in Threads /\ up /\ c.pc = "check" /\ CallOK(c)
  BY DEF Threads, SendCheck, At, LedgerInv, CallsOK
<1>2. up' = up /\ UNCHANGED <<chain, utxo, flags, pool, file>>
  BY DEF SendCheck, memory, disk
<1>3. \/ th' = [th EXCEPT ![s] = y]
      \/ th' = [th EXCEPT ![s] = z]
      \/ th' = [th EXCEPT ![s] = Idle]
  BY DEF SendCheck, Advance, Goto
<1>4. CallOK(Idle) /\ Idle.pc = "idle"
  BY DEF CallOK, Idle
<1>5. CallOK(y) /\ y.pc = "add"
  BY <1>1 DEF CallOK
<1>6. CallOK(z) /\ z.pc = "add"
  <2> DEFINE k == BookAfter(c.book, c.tx, c.h)
  <2>1. z = [c EXCEPT !.pc = "add", !.book = k]
    OBVIOUS
  <2> HIDE DEF k, c, z
  <2>2. c = [pc |-> c.pc, tx |-> c.tx, prior |-> c.prior, h |-> c.h, book |-> c.book]
        /\ c.tx \in Txs
    BY <1>1 DEF CallOK
  <2>3. z = [pc |-> "add", tx |-> c.tx, prior |-> c.prior, h |-> c.h, book |-> k]
    BY <2>1, <2>2
  <2> QED
    BY <2>2, <2>3 DEF CallOK
<1>7. PICK x : th' = [th EXCEPT ![s] = x] /\ CallOK(x) /\ x.pc \in {"idle", "add"}
  BY <1>3, <1>4, <1>5, <1>6
<1>8. /\ DOMAIN th' = Threads
      /\ CallsOK' /\ OneHolder' /\ BlockWaits'
      /\ UtxoMatchesChain' /\ ChainStands(chain)'
  BY <1>1, <1>2, <1>7, LocalStep
<1>9. LedgerTypeOK' /\ FileFits'
  BY <1>1, <1>2, <1>8 DEF LedgerInv, LedgerTypeOK, FileFits
<1> QED
  BY <1>8, <1>9 DEF LedgerInv

LEMMA SendAddInv ==
    ASSUME LedgerInv, NEW s \in Senders, SendAdd(s), overlapped' \in BOOLEAN,
           crowded' \in BOOLEAN
    PROVE  LedgerInv'
<1> DEFINE c == th[s]
           x == [c EXCEPT !.pc = "list"]
<1>1. s \in Threads /\ up /\ c.pc = "add" /\ CallOK(c)
  BY DEF Threads, SendAdd, At, LedgerInv, CallsOK
<1>2. up' = up /\ UNCHANGED <<chain, utxo, flags, file>>
  BY DEF SendAdd, disk
<1>3. th' = [th EXCEPT ![s] = x]
  BY DEF SendAdd, Advance
<1>4. CallOK(x) /\ x.pc = "list" /\ c.tx \in Txs
  BY <1>1 DEF CallOK
<1> HIDE DEF x
<1>5. /\ DOMAIN th' = Threads
      /\ CallsOK' /\ OneHolder' /\ BlockWaits'
      /\ UtxoMatchesChain' /\ ChainStands(chain)'
  BY <1>1, <1>2, <1>3, <1>4, LocalStep
<1>6. pool' = pool \union {c.tx}
  BY DEF SendAdd
<1>7. LedgerTypeOK' /\ FileFits'
  BY <1>1, <1>2, <1>4, <1>5, <1>6 DEF LedgerInv, LedgerTypeOK, FileFits
<1> QED
  BY <1>5, <1>7 DEF LedgerInv

LEMMA SendListInv ==
    ASSUME LedgerInv, NEW s \in Senders, SendList(s), overlapped' \in BOOLEAN,
           crowded' \in BOOLEAN
    PROVE  LedgerInv'
<1>0. PICK l \in Listable(pool) : Goto(s, [pc |-> "save", list |-> l, book |-> th[s].book])
  BY DEF SendList
<1> DEFINE x == [pc |-> "save", list |-> l, book |-> th[s].book]
<1>1. s \in Threads /\ up
  BY DEF Threads, SendList, At
<1>2. up' = up /\ UNCHANGED <<chain, utxo, flags, pool, file>>
  BY DEF SendList, memory, disk
<1>3. th' = [th EXCEPT ![s] = x]
  BY <1>0 DEF Goto
<1>4. CallOK(x) /\ x.pc = "save"
  BY ListableType DEF CallOK, LedgerInv, LedgerTypeOK
<1> HIDE DEF x
<1>5. /\ DOMAIN th' = Threads
      /\ CallsOK' /\ OneHolder' /\ BlockWaits'
      /\ UtxoMatchesChain' /\ ChainStands(chain)'
  BY <1>1, <1>2, <1>3, <1>4, LocalStep
<1>6. LedgerTypeOK' /\ FileFits'
  BY <1>1, <1>2, <1>5 DEF LedgerInv, LedgerTypeOK, FileFits
<1> QED
  BY <1>5, <1>6 DEF LedgerInv

LEMMA SendSaveInv ==
    ASSUME LedgerInv, NEW s \in Senders, SendSave(s), overlapped' \in BOOLEAN,
           crowded' \in BOOLEAN
    PROVE  LedgerInv'
<1>1. s \in Threads /\ up /\ th[s].pc = "save" /\ CallOK(th[s])
  BY DEF Threads, SendSave, At, LedgerInv, CallsOK
<1>2. up' = up /\ UNCHANGED <<chain, utxo, pool>> /\ file' = th[s].list
  BY DEF SendSave
<1>3. th' = [th EXCEPT ![s] = Idle]
  BY DEF SendSave, Goto
<1>4. /\ CallOK(Idle) /\ Idle.pc = "idle"
      /\ th[s].list \subseteq Txs /\ Cardinality(th[s].list) <= ListLimit
  BY <1>1 DEF CallOK, Idle
<1>5. /\ DOMAIN th' = Threads
      /\ CallsOK' /\ OneHolder' /\ BlockWaits'
      /\ UtxoMatchesChain' /\ ChainStands(chain)'
  BY <1>1, <1>2, <1>3, <1>4, LocalStep
<1>6. LedgerTypeOK' /\ FileFits'
  BY <1>1, <1>2, <1>4, <1>5 DEF LedgerInv, LedgerTypeOK, FileFits
<1> QED
  BY <1>5, <1>6 DEF LedgerInv

LEMMA SubListInv ==
    ASSUME LedgerInv, NEW s \in Submitters, SubList(s), overlapped' \in BOOLEAN,
           crowded' \in BOOLEAN
    PROVE  LedgerInv'
<1>0. PICK l \in Listable(pool) : Goto(s, [pc |-> "resave", list |-> l])
  BY DEF SubList
<1> DEFINE x == [pc |-> "resave", list |-> l]
<1>1. s \in Threads /\ up /\ Holds(s)
  BY DEF Threads, SubList, At, Holds
<1>2. up' = up /\ UNCHANGED <<chain, utxo, flags, pool, file>>
  BY DEF SubList, memory, disk
<1>3. th' = [th EXCEPT ![s] = x]
  BY <1>0 DEF Goto
<1>4. CallOK(x) /\ x.pc = "resave"
  BY ListableType DEF CallOK, LedgerInv, LedgerTypeOK
<1> HIDE DEF x
<1>5. /\ DOMAIN th' = Threads
      /\ CallsOK' /\ OneHolder' /\ BlockWaits'
      /\ UtxoMatchesChain' /\ ChainStands(chain)'
  BY <1>1, <1>2, <1>3, <1>4, LocalStep
<1>6. LedgerTypeOK' /\ FileFits'
  BY <1>1, <1>2, <1>5 DEF LedgerInv, LedgerTypeOK, FileFits
<1> QED
  BY <1>5, <1>6 DEF LedgerInv

LEMMA SubSaveInv ==
    ASSUME LedgerInv, NEW s \in Submitters, SubSave(s), overlapped' \in BOOLEAN,
           crowded' \in BOOLEAN
    PROVE  LedgerInv'
<1>1. s \in Threads /\ up /\ th[s].pc = "resave" /\ CallOK(th[s])
  BY DEF Threads, SubSave, At, LedgerInv, CallsOK
<1>2. up' = up /\ UNCHANGED <<chain, utxo, flags, pool>> /\ file' = th[s].list
  BY DEF SubSave, memory
<1>3. th' = [th EXCEPT ![s] = Idle]
  BY DEF SubSave, Goto
<1>4. /\ CallOK(Idle) /\ Idle.pc = "idle"
      /\ th[s].list \subseteq Txs /\ Cardinality(th[s].list) <= ListLimit
  BY <1>1 DEF CallOK, Idle
<1>5. /\ DOMAIN th' = Threads
      /\ CallsOK' /\ OneHolder' /\ BlockWaits'
      /\ UtxoMatchesChain' /\ ChainStands(chain)'
  BY <1>1, <1>2, <1>3, <1>4, LocalStep
<1>6. LedgerTypeOK' /\ FileFits'
  BY <1>1, <1>2, <1>4, <1>5 DEF LedgerInv, LedgerTypeOK, FileFits
<1> QED
  BY <1>5, <1>6 DEF LedgerInv
LEMMA BlockType == \A txs \in BoundedSeq(Txs, MaxBlockTxs) : txs \in Seq(Txs)
BY TxAssumption DEF BoundedSeq, SeqOf

LEMMA SubmitInv ==
    ASSUME LedgerInv, NEW s \in Submitters, NEW txs \in Seq(Txs), Submit(s, txs),
           overlapped' \in BOOLEAN,
           crowded' \in BOOLEAN
    PROVE  LedgerInv'
<1> DEFINE x == [pc |-> "apply", txs |-> txs, book |-> CheckBlock(txs).book]
<1>1. s \in Threads /\ up /\ th[s].pc = "idle" /\ ~ChainLocked /\ Height <= MaxHeight
  BY DEF Threads, Submit, At
<1>2. up' = up /\ UNCHANGED <<chain, utxo, flags, pool, file>>
  BY DEF Submit, memory, disk
<1>3. th' = [th EXCEPT ![s] = x] /\ CheckBlock(txs).ok
  BY DEF Submit, Goto
<1>4. CallOK(x) /\ x.pc = "apply" /\ x.txs = txs
  BY DEF CallOK
<1> HIDE DEF x
<1>5. /\ DOMAIN th = Threads /\ CallsOK /\ OneHolder /\ BlockWaits
      /\ UtxoMatchesChain /\ ChainStands(chain)
  BY DEF LedgerInv, LedgerTypeOK
<1>6. /\ DOMAIN th' = Threads /\ th'[s] = x
      /\ \A r \in Threads : r # s => th'[r] = th[r]
  BY <1>1, <1>3, <1>5
<1>7. CallsOK'
  BY <1>1, <1>2, <1>4, <1>5, <1>6 DEF CallsOK
<1>8. OneHolder'
  <2>1. \A r \in Threads : ~Holds(r)
    BY <1>1, <1>5 DEF OneHolder, ChainLocked, Holds
  <2>2. \A r \in Threads : Holds(r)' => r = s
    BY <1>6, <2>1 DEF Holds
  <2> QED
    BY <2>2 DEF OneHolder
<1>9. BlockWaits'
  <2>1. ASSUME NEW r \in Threads, th'[r].pc = "apply" PROVE r = s
    <3>1. \A q \in Threads : ~Holds(q)
      BY <1>1, <1>5 DEF OneHolder, ChainLocked, Holds
    <3> QED
      BY <1>6, <2>1, <3>1 DEF Holds
  <2>2. Height' = Height /\ utxo' = utxo
    BY <1>2 DEF Height
  <2>3. Checked(txs, Joined(utxo, CoinOut(Height, txs)), flags, Height).ok
    BY <1>3 DEF CheckBlock
  <2> QED
    BY <1>1, <1>4, <1>6, <2>1, <2>2, <2>3 DEF BlockWaits
<1>10. UtxoMatchesChain' /\ ChainStands(chain)'
  BY <1>2, <1>5 DEF UtxoMatchesChain
<1>11. LedgerTypeOK' /\ FileFits'
  BY <1>1, <1>2, <1>6 DEF LedgerInv, LedgerTypeOK, FileFits
<1> QED
  BY <1>7, <1>8, <1>9, <1>10, <1>11 DEF LedgerInv

LEMMA SubApplyInv ==
    ASSUME LedgerInv, NEW s \in Submitters, SubApply(s), overlapped' \in BOOLEAN,
           crowded' \in BOOLEAN
    PROVE  LedgerInv'
<1> DEFINE txs == th[s].txs
<1>1. s \in Threads /\ up /\ th[s].pc = "apply" /\ txs \in Seq(Txs)
  BY DEF Threads, SubApply, At, LedgerInv, CallsOK, CallOK
<1>2. /\ DOMAIN th = Threads /\ CallsOK /\ OneHolder /\ BlockWaits
      /\ UtxoMatchesChain /\ ChainStands(chain) /\ chain \in Seq(Seq(Txs))
  BY DEF LedgerInv, LedgerTypeOK
<1>3. PICK b : Checked(txs, Joined(utxo, CoinOut(Height, txs)), b, Height).ok
  BY <1>1, <1>2 DEF BlockWaits
<1>4. Height <= MaxHeight /\ Height = Len(chain) + 1
  BY <1>1, <1>2 DEF BlockWaits, Height
<1>5. utxo = Replay(chain).utxo
  BY <1>1, <1>2 DEF UtxoMatchesChain
<1>6. chain' = Append(chain, txs)
  BY DEF SubApply
<1>7. /\ up' = up /\ file' = file /\ pool' \subseteq pool
      /\ utxo' = Stored(utxo, Height, txs)
      /\ \/ th' = [th EXCEPT ![s] = [pc |-> "relist"]]
         \/ th' = [th EXCEPT ![s] = Idle]
  BY DEF SubApply, Goto, Unconfirmed
<1> HIDE DEF txs
<1>8. ChainStands(Append(chain, txs))
  BY <1>1, <1>2, <1>3, <1>4, <1>5, BlockStands
<1>9. utxo' = Replay(chain').utxo
  BY <1>1, <1>2, <1>4, <1>5, <1>6, <1>7, ReplayStores
<1>10. chain' \in Seq(Seq(Txs))
  BY <1>1, <1>2, <1>6
<1>11. ChainStands(chain)'
  BY <1>6, <1>8
<1>12. PICK x : th' = [th EXCEPT ![s] = x] /\ CallOK(x) /\ x.pc \in {"relist", "idle"}
  <2>1. CallOK(Idle) /\ Idle.pc = "idle"
    BY DEF CallOK, Idle
  <2>2. CallOK([pc |-> "relist"])
    BY DEF CallOK
  <2> QED
    BY <1>7, <2>1, <2>2
<1>13. /\ DOMAIN th' = Threads /\ th'[s] = x
       /\ \A r \in Threads : r # s => th'[r] = th[r]
  BY <1>1, <1>2, <1>12
<1>14. CallsOK'
  BY <1>1, <1>2, <1>7, <1>12, <1>13 DEF CallsOK
<1>15. \A r \in Threads : Holds(r)' => r = s
  BY <1>1, <1>2, <1>13 DEF OneHolder, Holds
<1>16. OneHolder'
  BY <1>15 DEF OneHolder
<1>17. BlockWaits'
  BY <1>12, <1>13, <1>15 DEF BlockWaits, Holds
<1>18. UtxoMatchesChain'
  BY <1>9 DEF UtxoMatchesChain
<1>19. Coinage(utxo')
  BY <1>9, <1>11 DEF ChainStands
<1>20. LedgerTypeOK' /\ FileFits'
  BY <1>1, <1>7, <1>10, <1>13, <1>19 DEF LedgerInv, LedgerTypeOK, Coinage, FileFits
<1> QED
  BY <1>11, <1>14, <1>16, <1>17, <1>18, <1>20 DEF LedgerInv

LEMMA CrashInv ==
    ASSUME LedgerInv, Crash, overlapped' \in BOOLEAN,
           crowded' \in BOOLEAN
    PROVE  LedgerInv'
<1>1. /\ up' = FALSE /\ utxo' = << >> /\ flags' = EmptyBook /\ pool' = {}
      /\ UNCHANGED <<chain, file>>
  BY DEF Crash, disk
<1>2. DOMAIN th' = Threads /\ \A s \in Threads : th'[s] = Idle
  BY DEF Crash
<1>3. CallOK(Idle) /\ Idle.pc = "idle"
  BY DEF CallOK, Idle
<1>4. CallsOK' /\ OneHolder' /\ BlockWaits'
  BY <1>2, <1>3 DEF CallsOK, OneHolder, Holds, BlockWaits
<1>5. UtxoMatchesChain' /\ ChainStands(chain)'
  BY <1>1 DEF LedgerInv, UtxoMatchesChain
<1>6. DOMAIN << >> = {} /\ << >> \in [{} -> Nat]
  OBVIOUS
<1>7. LedgerTypeOK' /\ FileFits'
  BY <1>1, <1>2, <1>6 DEF LedgerInv, LedgerTypeOK, FileFits
<1> QED
  BY <1>4, <1>5, <1>7 DEF LedgerInv

LEMMA RestartInv ==
    ASSUME LedgerInv, Restart, overlapped' \in BOOLEAN,
           crowded' \in BOOLEAN
    PROVE  LedgerInv'
<1>1. ~up /\ up' = TRUE /\ UNCHANGED <<chain, th>> /\ utxo' = Replay(chain).utxo
  BY DEF Restart
<1>2. PICK q \in SetToSeqs(file) :
          LET l == Loaded(q, Replay(chain).utxo, Replay(chain).book, Height)
          IN  /\ pool' = l.pool /\ flags' = l.book
              /\ file' \in Listable(l.pool) \/ file' = file
  BY DEF Restart
<1>3. LedgerTypeOK /\ FileFits /\ CallsOK /\ ChainStands(chain)
  BY DEF LedgerInv
<1>4. q \in Seq(Txs) /\ ToSet(q) \subseteq file
  BY <1>3, ListingType DEF LedgerTypeOK
<1>5. pool' \subseteq file /\ pool' \subseteq Txs
  BY <1>2, <1>3, <1>4, LoadedType DEF LedgerTypeOK
<1>12. file' \subseteq Txs /\ Cardinality(file') <= ListLimit
  BY <1>2, <1>3, <1>5, ListableType DEF LedgerTypeOK, FileFits
<1>6. \A s \in Threads : th'[s] = Idle
  BY <1>1, <1>3 DEF CallsOK
<1>7. CallOK(Idle) /\ Idle.pc = "idle"
  BY DEF CallOK, Idle
<1>8. CallsOK' /\ OneHolder' /\ BlockWaits'
  BY <1>6, <1>7 DEF CallsOK, OneHolder, Holds, BlockWaits
<1>9. UtxoMatchesChain' /\ ChainStands(chain)'
  BY <1>1, <1>3 DEF UtxoMatchesChain
<1>10. Coinage(utxo')
  BY <1>1, <1>3 DEF ChainStands
<1>11. LedgerTypeOK' /\ FileFits'
  BY <1>1, <1>2, <1>3, <1>5, <1>10, <1>12 DEF LedgerTypeOK, Coinage, FileFits
<1> QED
  BY <1>8, <1>9, <1>11 DEF LedgerInv

LEMMA NextInv == LedgerInv /\ [LedgerNext]_ledgerVars => LedgerInv'
<1> SUFFICES ASSUME LedgerInv, [LedgerNext]_ledgerVars PROVE LedgerInv'
  OBVIOUS
<1>1. CASE UNCHANGED ledgerVars
  BY <1>1 DEF ledgerVars, LedgerInv, LedgerTypeOK, FileFits, CallsOK, OneHolder, Holds, BlockWaits,
              UtxoMatchesChain, Height
<1>2. CASE LedgerNext
  <2>1. overlapped' \in BOOLEAN /\ crowded' \in BOOLEAN
    BY <1>2 DEF LedgerNext
  <2> QED
    BY <1>2, <2>1, SendReadInv, SendCheckInv, SendAddInv, SendListInv, SendSaveInv,
       SubmitInv, SubApplyInv, SubListInv, SubSaveInv, CrashInv, RestartInv, BlockType
       DEF LedgerNext, LedgerStep
<1> QED
  BY <1>1, <1>2

\* The inductive invariant holds of every behaviour of the node.
THEOREM LedgerSafe == LedgerSpec => []LedgerInv
<1>1. LedgerInit => LedgerInv
  BY InitInv
<1>2. LedgerInv /\ [LedgerNext]_ledgerVars => LedgerInv'
  BY NextInv
<1> QED
  BY <1>1, <1>2, PTL DEF LedgerSpec

\* The variables keep their types.
THEOREM TypeCorrect == LedgerSpec => []LedgerTypeOK
<1>1. LedgerInv => LedgerTypeOK
  BY DEF LedgerInv
<1> QED
  BY <1>1, LedgerSafe, PTL

\* The unspent outputs a node keeps block by block are those a replay of its
\* chain rebuilds, whatever its threads do (rpc_submitblock, apply_chain).
THEOREM KeptIsReplayed == LedgerSpec => []UtxoMatchesChain
<1>1. LedgerInv => UtxoMatchesChain
  BY DEF LedgerInv
<1> QED
  BY <1>1, LedgerSafe, PTL

\* No two transactions of the chain spend the same output (check_spendable,
\* between the threads that call it).
THEOREM NoDoubleSpend == LedgerSpec => []SpentOnce
<1>1. LedgerInv => SpentOnce
  BY StandsSpentOnce DEF LedgerInv, LedgerTypeOK
<1> QED
  BY <1>1, LedgerSafe, PTL

\* A chain of spends that a node accepted replays, so the daemon starts again
\* on it (restore_chain).
THEOREM SpendsReplay == LedgerSpec => []SpendsRestorable
<1>1. LedgerInv => SpendsRestorable
  BY DEF LedgerInv, ChainStands, SpendsRestorable, Restorable, Mined
<1> QED
  BY <1>1, LedgerSafe, PTL
-----------------------------------------------------------------------------
(* The flag book never forgets: a transaction it took stays in it *)

Entries == {[who |-> Def[t].act.who, txid |-> t] : t \in Txs}

IsFlag(x) ==
    /\ x = [txid |-> x.txid, awards |-> x.awards, max |-> x.max, expires |-> x.expires,
            bounty |-> x.bounty, escrow |-> x.escrow, claims |-> x.claims]
    /\ x.claims \in Seq(Entries)
    /\ x.txid \in Txs /\ Def[x.txid].kind = "create"
    /\ x.bounty = Def[x.txid].act.bounty
    /\ x.escrow \in Nat

\* Every flag is the one its transaction makes.
IsBook(book) ==
    /\ IsFiniteSet(DOMAIN book)
    /\ \A f \in DOMAIN book : IsFlag(book[f]) /\ Def[book[f].txid].act.flag = f

\* A flag or a claim of t is in the book.
InBook(t, book) ==
    LET act == Def[t].act
    IN  /\ Def[t].kind = "create" => act.flag \in DOMAIN book /\ book[act.flag].txid = t
        /\ Def[t].kind = "claim" => act.flag \in DOMAIN book /\ Recorded(book[act.flag], act.who, t)

Covers(book, S) == \A t \in S : InBook(t, book)

\* What a claim makes of its flag.
LEMMA ClaimedFlag ==
    ASSUME NEW flag, IsFlag(flag), NEW e \in Entries, NEW left \in Nat
    PROVE  LET new == [flag EXCEPT !.escrow = left, !.claims = Append(@, e)]
           IN  /\ IsFlag(new) /\ new.txid = flag.txid
               /\ \A who, id : Recorded(flag, who, id) => Recorded(new, who, id)
               /\ \A who, id : e = [who |-> who, txid |-> id] => Recorded(new, who, id)
<1> DEFINE list == Append(flag.claims, e)
           new == [flag EXCEPT !.escrow = left, !.claims = Append(@, e)]
<1>1. flag.claims \in Seq(Entries)
  BY DEF IsFlag
<1>2. /\ list \in Seq(Entries) /\ Len(flag.claims) \in Nat
      /\ \A i \in 1..Len(flag.claims) : list[i] = flag.claims[i]
      /\ list[Len(flag.claims) + 1] = e
      /\ 1..Len(list) = 1..Len(flag.claims) \union {Len(flag.claims) + 1}
  BY <1>1, AppendPlaces
<1>3. new = [flag EXCEPT !.escrow = left, !.claims = list]
  BY DEF IsFlag
<1> HIDE DEF list, new
<1>4. new = [txid |-> flag.txid, awards |-> flag.awards, max |-> flag.max,
             expires |-> flag.expires, bounty |-> flag.bounty, escrow |-> left,
             claims |-> list]
  BY <1>3 DEF IsFlag
<1>5. new.claims = list /\ new.txid = flag.txid /\ new.bounty = flag.bounty /\ new.escrow = left
  BY <1>4
<1>6. IsFlag(new)
  BY <1>2, <1>4, <1>5 DEF IsFlag
<1>7. \A who, id : Recorded(flag, who, id) => Recorded(new, who, id)
  BY <1>2, <1>5 DEF Recorded
<1>8. Recorded(new, e.who, e.txid)
  <2>1. e = [who |-> e.who, txid |-> e.txid]
    BY DEF Entries
  <2> QED
    BY <1>2, <1>5, <2>1 DEF Recorded
<1>9. \A who, id : e = [who |-> who, txid |-> id] => Recorded(new, who, id)
  BY <1>8
<1> QED
  BY <1>5, <1>6, <1>7, <1>9 DEF new

LEMMA AfterClaimKeeps ==
    ASSUME NEW book, IsBook(book), NEW t \in Txs, Def[t].kind = "claim", NEW h,
           ClaimOk(book, Def[t].act, h)
    PROVE  LET new == AfterClaim(book, Def[t].act)
           IN  /\ IsBook(new)
               /\ InBook(t, new)
               /\ \A p : InBook(p, book) => InBook(p, new)
<1> DEFINE act == Def[t].act
           new == AfterClaim(book, act)
<1>1. act.flag \in DOMAIN book /\ act.txid = t
  BY TxAssumption DEF ClaimOk
<1>2. CASE HasClaimed(book[act.flag], act.who)
  <2>1. new = book
    BY <1>2 DEF AfterClaim
  <2>2. Recorded(book[act.flag], act.who, t)
    BY <1>1, <1>2 DEF ClaimOk
  <2> QED
    BY <1>1, <2>1, <2>2 DEF InBook
<1>3. CASE ~HasClaimed(book[act.flag], act.who)
  <2> DEFINE f == act.flag
             e == [who |-> act.who, txid |-> t]
             left == book[f].escrow - book[f].bounty
             won == [book[f] EXCEPT !.escrow = left, !.claims = Append(@, e)]
  <2>1. e \in Entries
    BY DEF Entries
  <2>2. IsFlag(book[f])
    BY <1>1 DEF IsBook
  <2>0. left \in Nat
    <3>1. book[f].bounty \in Nat /\ book[f].escrow \in Nat
      BY <2>2, TxAssumption DEF IsFlag
    <3>2. book[f].bounty <= book[f].escrow
      BY <1>3 DEF ClaimOk, Payable
    <3> QED
      BY <3>1, <3>2
  <2>3. /\ IsFlag(won) /\ won.txid = book[f].txid
        /\ \A who, id : Recorded(book[f], who, id) => Recorded(won, who, id)
        /\ Recorded(won, act.who, t)
    <3> HIDE DEF left, e
    <3>1. /\ IsFlag(won) /\ won.txid = book[f].txid
          /\ \A who, id : Recorded(book[f], who, id) => Recorded(won, who, id)
          /\ \A who, id : e = [who |-> who, txid |-> id] => Recorded(won, who, id)
      BY <2>0, <2>1, <2>2, ClaimedFlag
    <3>2. e = [who |-> act.who, txid |-> t]
      BY DEF e
    <3> HIDE DEF won, act, f
    <3> QED
      BY <3>1, <3>2
  <2>4. DOMAIN new = DOMAIN book /\ new[f] = won
        /\ \A g \in DOMAIN book : g # f => new[g] = book[g]
    BY <1>1, <1>3 DEF AfterClaim
  <2> HIDE DEF won, new
  <2>5. IsBook(new)
    BY <2>3, <2>4 DEF IsBook
  <2>6. InBook(t, new)
    BY <1>1, <2>3, <2>4 DEF InBook
  <2>7. \A p : InBook(p, book) => InBook(p, new)
    BY <2>3, <2>4 DEF InBook
  <2> QED
    BY <2>5, <2>6, <2>7 DEF new
<1> QED
  BY <1>2, <1>3

\* What a flag locks is an amount.
LEMMA LockType == \A m, b \in Nat : EscrowLock(m, b) \in Nat
<1> SUFFICES ASSUME NEW m \in Nat, NEW b \in Nat PROVE EscrowLock(m, b) \in Nat
  OBVIOUS
<1>1. UMax + 1 \in Nat /\ UMax + 1 > 0
  BY UMaxAssumption
<1>2. b * m \in Nat
  OBVIOUS
<1>3. \A p, q \in Nat : q > 0 => p % q \in Nat
  OBVIOUS
<1> QED
  BY <1>1, <1>2, <1>3 DEF EscrowLock

LEMMA AfterCreateKeeps ==
    ASSUME NEW book, IsBook(book), NEW t \in Txs, Def[t].kind = "create",
           CreateOk(book, Def[t].act)
    PROVE  LET new == AfterCreate(book, Def[t].act)
           IN  /\ IsBook(new)
               /\ InBook(t, new)
               /\ \A p : InBook(p, book) => InBook(p, new)
<1> DEFINE act == Def[t].act
           new == AfterCreate(book, act)
<1>1. act.txid = t
  BY TxAssumption
<1>2. CASE act.flag \in DOMAIN book
  BY <1>1, <1>2 DEF AfterCreate, CreateOk, InBook
<1>3. CASE act.flag \notin DOMAIN book
  <2>1. /\ DOMAIN new = DOMAIN book \union {act.flag}
        /\ new[act.flag] = NewFlag(act)
        /\ \A f \in DOMAIN book : new[f] = book[f]
    BY <1>3 DEF AfterCreate
  <2>2. IsFlag(NewFlag(act)) /\ NewFlag(act).txid = t
    <3>1. act.bounty \in Nat /\ act.max \in Nat /\ UMax \in Nat
      BY TxAssumption, UMaxAssumption
    <3>2. EscrowLock(act.max, act.bounty) \in Nat
      BY <3>1, LockType
    <3>3. << >> \in Seq(Entries)
      OBVIOUS
    <3> QED
      BY <1>1, <3>2, <3>3 DEF IsFlag, NewFlag
  <2> HIDE DEF new
  <2>3. IsBook(new)
    <3>1. IsFiniteSet(DOMAIN new)
      BY <2>1, FS_AddElement DEF IsBook
    <3> QED
      BY <2>1, <2>2, <3>1 DEF IsBook
  <2> QED
    BY <2>1, <2>2, <2>3 DEF InBook, new
<1> QED
  BY <1>2, <1>3

\* apply_flag_tx, accepting or not.
LEMMA BookAfterKeeps ==
    ASSUME NEW book, IsBook(book), NEW t \in Txs, NEW h
    PROVE  LET new == BookAfter(book, t, h)
           IN  /\ IsBook(new)
               /\ FlagOk(t, book, h) => InBook(t, new)
               /\ \A p : InBook(p, book) => InBook(p, new)
<1>1. CASE ~FlagOk(t, book, h)
  BY <1>1 DEF BookAfter
<1>2. CASE FlagOk(t, book, h) /\ Def[t].kind = "create"
  <2>1. BookAfter(book, t, h) = AfterCreate(book, Def[t].act) /\ CreateOk(book, Def[t].act)
    BY <1>2 DEF BookAfter, FlagOk
  <2> QED
    BY <1>2, <2>1, AfterCreateKeeps
<1>3. CASE FlagOk(t, book, h) /\ Def[t].kind = "claim"
  <2>1. BookAfter(book, t, h) = AfterClaim(book, Def[t].act) /\ ClaimOk(book, Def[t].act, h)
    BY <1>3 DEF BookAfter, FlagOk
  <2> QED
    BY <1>3, <2>1, AfterClaimKeeps
<1>4. CASE FlagOk(t, book, h) /\ Def[t].kind = "pay"
  <2>1. BookAfter(book, t, h) = book
    BY <1>4 DEF BookAfter
  <2> QED
    BY <1>4, <2>1 DEF InBook
<1>5. Def[t].kind \in {"pay", "create", "claim"}
  BY TxAssumption
<1> QED
  BY <1>1, <1>2, <1>3, <1>4, <1>5
-----------------------------------------------------------------------------
(* The flag books of the calls *)

\* What each fold over transactions makes of a flag book.
LEMMA CoversBook ==
    ASSUME NEW book, IsBook(book), NEW t \in Txs, NEW h, NEW S, Covers(book, S)
    PROVE  LET new == BookAfter(book, t, h)
           IN  /\ IsBook(new) /\ Covers(new, S)
               /\ FlagOk(t, book, h) => Covers(new, S \union {t})
BY BookAfterKeeps DEF Covers

Staging(a, q) == FoldLeft(StageTx, a, q)

IsStage(a, S) == IsBook(a.book) /\ a = [book |-> a.book, h |-> a.h] /\ Covers(a.book, S)

StagedCovers(q) == \A a, S : IsStage(a, S) => IsStage(Staging(a, q), S)

OfStageTx == INSTANCE FoldTheorems WITH Op <- StageTx, P <- StagedCovers

LEMMA StagingFolds == \A a, q : Staging(a, q) = OfStageTx!Fold(a, q)
BY DEF Staging, OfStageTx!Fold, FoldLeft, OfStageTx!FoldLeft, MapThenFoldSet,
       OfStageTx!MapThenFoldSet, Max, OfStageTx!Max

\* The book a call stages forgets nothing.
LEMMA StagedKeeps ==
    ASSUME NEW q \in Seq(Txs), NEW book, IsBook(book), NEW h, NEW S, Covers(book, S)
    PROVE  IsBook(Staged(q, book, h)) /\ Covers(Staged(q, book, h), S)
<1>1. StagedCovers(<< >>)
  BY StagingFolds, OfStageTx!FoldEmpty DEF StagedCovers
<1>2. ASSUME NEW s \in Seq(Txs), NEW t \in Txs, StagedCovers(s)
      PROVE  StagedCovers(Append(s, t))
  <2> SUFFICES ASSUME NEW a, NEW T, IsStage(a, T)
               PROVE  IsStage(Staging(a, Append(s, t)), T)
    BY DEF StagedCovers
  <2> DEFINE r == Staging(a, s)
  <2>1. IsStage(r, T)
    BY <1>2 DEF StagedCovers
  <2>2. Staging(a, Append(s, t)) = StageTx(r, t)
    BY StagingFolds, OfStageTx!FoldAppend
  <2> HIDE DEF r
  <2>3. StageTx(r, t) = [book |-> BookAfter(r.book, t, r.h), h |-> r.h]
    BY <2>1 DEF StageTx, IsStage
  <2>4. IsBook(BookAfter(r.book, t, r.h)) /\ Covers(BookAfter(r.book, t, r.h), T)
    BY <2>1, CoversBook DEF IsStage
  <2> QED
    BY <2>2, <2>3, <2>4 DEF IsStage
<1>3. StagedCovers(q)
  BY <1>1, <1>2, OfStageTx!SeqInduction
<1> DEFINE a == [book |-> book, h |-> h]
<1>4. IsStage(a, S)
  BY DEF IsStage
<1>5. Staged(q, book, h) = Staging(a, q).book
  BY DEF Staged, Staging
<1> HIDE DEF a
<1>6. IsStage(Staging(a, q), S)
  BY <1>3, <1>4 DEF StagedCovers
<1> QED
  BY <1>5, <1>6 DEF IsStage

\* The book of a block that passes the rules has its flags and claims.
CheckedCovers(q) ==
    \A have, book, n, S :
        IsBook(book) /\ Covers(book, S) /\ Checked(q, have, book, n).ok =>
            /\ IsBook(Checked(q, have, book, n).book)
            /\ Covers(Checked(q, have, book, n).book, S \union ToSet(q))
            /\ Checked(q, have, book, n).h = n

BookOfCheckTx == INSTANCE FoldTheorems WITH Op <- CheckTx, P <- CheckedCovers

LEMMA BlockCovers ==
    ASSUME NEW q \in Seq(Txs), NEW book, IsBook(book), NEW S, Covers(book, S), NEW have,
           NEW n, Checked(q, have, book, n).ok
    PROVE  /\ IsBook(Checked(q, have, book, n).book)
           /\ Covers(Checked(q, have, book, n).book, S \union ToSet(q))
<1>1. CheckedCovers(<< >>)
  <2> SUFFICES ASSUME NEW g, NEW b, NEW m, NEW T, IsBook(b), Covers(b, T)
               PROVE  /\ IsBook(Checked(<< >>, g, b, m).book)
                      /\ Covers(Checked(<< >>, g, b, m).book, T \union ToSet(<< >>))
                      /\ Checked(<< >>, g, b, m).h = m
    BY DEF CheckedCovers
  <2>1. ToSet(<< >>) = {}
    BY DEF ToSet
  <2>2. T \union ToSet(<< >>) = T
    BY <2>1
  <2>3. Checked(<< >>, g, b, m).book = b /\ Checked(<< >>, g, b, m).h = m
    BY CheckedNone
  <2> QED
    BY <2>1, <2>2, <2>3
<1>2. ASSUME NEW s \in Seq(Txs), NEW t \in Txs, CheckedCovers(s)
      PROVE  CheckedCovers(Append(s, t))
  <2> SUFFICES ASSUME NEW g, NEW b, NEW m, NEW T, IsBook(b), Covers(b, T),
                      Checked(Append(s, t), g, b, m).ok
               PROVE  /\ IsBook(Checked(Append(s, t), g, b, m).book)
                      /\ Covers(Checked(Append(s, t), g, b, m).book,
                                T \union ToSet(Append(s, t)))
                      /\ Checked(Append(s, t), g, b, m).h = m
    BY DEF CheckedCovers
  <2> DEFINE k == Checked(s, g, b, m)
  <2>1. Checked(Append(s, t), g, b, m) = CheckTx(k, t)
    BY CheckedNext
  <2>2. CheckTx(k, t).ok
    BY <2>1
  <2> HIDE DEF k
  <2>3. k.ok /\ FlagOk(t, k.book, k.h)
    BY <2>2 DEF CheckTx, Admissible
  <2>4. IsBook(k.book) /\ Covers(k.book, T \union ToSet(s)) /\ k.h = m
    BY <1>2, <2>3 DEF CheckedCovers, k
  <2>5. CheckTx(k, t).book = BookAfter(k.book, t, k.h) /\ CheckTx(k, t).h = k.h
    BY DEF CheckTx
  <2>6. T \union ToSet(Append(s, t)) = (T \union ToSet(s)) \union {t}
    BY AppendPlaces
  <2>7. /\ IsBook(BookAfter(k.book, t, k.h))
        /\ Covers(BookAfter(k.book, t, k.h), (T \union ToSet(s)) \union {t})
    BY <2>3, <2>4, CoversBook
  <2> QED
    BY <2>1, <2>4, <2>5, <2>6, <2>7
<1>3. CheckedCovers(q)
  BY <1>1, <1>2, BookOfCheckTx!SeqInduction
<1> QED
  BY <1>3 DEF CheckedCovers
\* The book a replay rebuilds has the flags and claims of the chain, if it
\* replays at all.
RebuiltCovers(a, S) == IsReplay(a) /\ IsBook(a.book) /\ (a.ok => Covers(a.book, S))

ReplayingCovers(q) ==
    \A a, S : RebuiltCovers(a, S) => RebuiltCovers(Replaying(a, q), S \union ToSet(q))

BookOfReplayTx == INSTANCE FoldTheorems WITH Op <- ReplayTx, P <- ReplayingCovers

LEMMA ReplayTxCovers ==
    ASSUME NEW a, NEW S, RebuiltCovers(a, S), NEW t \in Txs
    PROVE  RebuiltCovers(ReplayTx(a, t), S \union {t})
<1>1. /\ IsReplay(ReplayTx(a, t))
      /\ ReplayTx(a, t).book = BookAfter(a.book, t, a.h)
      /\ ReplayTx(a, t).ok => a.ok /\ FlagOk(t, a.book, a.h)
  BY DEF ReplayTx, IsReplay
<1>2. IsBook(BookAfter(a.book, t, a.h))
  BY BookAfterKeeps DEF RebuiltCovers
<1>3. a.ok /\ FlagOk(t, a.book, a.h) => Covers(BookAfter(a.book, t, a.h), S \union {t})
  BY CoversBook DEF RebuiltCovers
<1> QED
  BY <1>1, <1>2, <1>3 DEF RebuiltCovers

LEMMA ReplayBlockCovers ==
    ASSUME NEW txs \in Seq(Txs), NEW a, NEW S, RebuiltCovers(a, S)
    PROVE  RebuiltCovers(Replaying(a, txs), S \union ToSet(txs))
<1>1. ReplayingCovers(<< >>)
  <2>1. \A S0 : S0 \union ToSet(<< >>) = S0
    BY DEF ToSet
  <2> QED
    BY <2>1, ReplayingNone DEF ReplayingCovers
<1>2. ASSUME NEW q \in Seq(Txs), NEW t \in Txs, ReplayingCovers(q)
      PROVE  ReplayingCovers(Append(q, t))
  <2> SUFFICES ASSUME NEW b, NEW T, RebuiltCovers(b, T)
               PROVE  RebuiltCovers(Replaying(b, Append(q, t)), T \union ToSet(Append(q, t)))
    BY DEF ReplayingCovers
  <2>1. RebuiltCovers(Replaying(b, q), T \union ToSet(q))
    BY <1>2 DEF ReplayingCovers
  <2>2. Replaying(b, Append(q, t)) = ReplayTx(Replaying(b, q), t)
    BY ReplayingNext
  <2>3. T \union ToSet(Append(q, t)) = (T \union ToSet(q)) \union {t}
    BY AppendPlaces
  <2> QED
    BY <2>1, <2>2, <2>3, ReplayTxCovers
<1>3. ReplayingCovers(txs)
  BY <1>1, <1>2, BookOfReplayTx!SeqInduction
<1> QED
  BY <1>3 DEF ReplayingCovers

ChainCovers(c) == RebuiltCovers(Replay(c), TxsOf(c))

BookOfReplay == INSTANCE FoldTheorems WITH Op <- ReplayBlock, P <- ChainCovers

LEMMA ReplayCovers == \A c \in Seq(Seq(Txs)) : RebuiltCovers(Replay(c), TxsOf(c))
<1>1. ChainCovers(<< >>)
  <2>1. IsReplay(Genesis) /\ Genesis.book = EmptyBook /\ IsBook(EmptyBook)
    BY FS_EmptySet DEF IsReplay, Genesis, IsBook, EmptyBook
  <2>2. TxsOf(<< >>) = {}
    BY DEF TxsOf
  <2>3. Covers(EmptyBook, {})
    BY DEF Covers
  <2> QED
    BY <2>1, <2>2, <2>3, ReplayNone DEF ChainCovers, RebuiltCovers
<1>2. ASSUME NEW c \in Seq(Seq(Txs)), NEW txs \in Seq(Txs), ChainCovers(c)
      PROVE  ChainCovers(Append(c, txs))
  <2> DEFINE a == Replay(c)
             b == [a EXCEPT !.utxo = Joined(@, CoinOut(a.h, txs))]
             r == Replaying(b, txs)
  <2>1. RebuiltCovers(a, TxsOf(c))
    BY <1>2 DEF ChainCovers
  <2> HIDE DEF a
  <2>2. IsReplay(b) /\ b.book = a.book /\ b.ok = a.ok
    BY <2>1 DEF RebuiltCovers, IsReplay
  <2> HIDE DEF b
  <2>3. RebuiltCovers(r, TxsOf(c) \union ToSet(txs))
    BY <2>1, <2>2, ReplayBlockCovers DEF RebuiltCovers
  <2>4. Replay(Append(c, txs)) = [r EXCEPT !.h = @ + 1]
    BY ReplayAppend DEF ReplayBlock, Replaying, a, b
  <2> HIDE DEF r
  <2>5. RebuiltCovers([r EXCEPT !.h = @ + 1], TxsOf(c) \union ToSet(txs))
    <3> DEFINE d == [r EXCEPT !.h = @ + 1]
    <3>1. IsReplay(d) /\ d.book = r.book /\ d.ok = r.ok
      <4> DEFINE n == r.h + 1
      <4>1. d = [r EXCEPT !.h = n]
        OBVIOUS
      <4> HIDE DEF n, d
      <4>2. d = [ok |-> r.ok, utxo |-> r.utxo, book |-> r.book, h |-> n]
        BY <2>3, <4>1 DEF RebuiltCovers, IsReplay
      <4> QED
        BY <4>2 DEF IsReplay
    <3> HIDE DEF d
    <3>2. RebuiltCovers(d, TxsOf(c) \union ToSet(txs))
      BY <2>3, <3>1 DEF RebuiltCovers
    <3> QED
      BY <3>2 DEF d
  <2>6. TxsOf(Append(c, txs)) = TxsOf(c) \union ToSet(txs)
    BY TxsOfAppend
  <2> QED
    BY <2>4, <2>5, <2>6 DEF ChainCovers
<1>3. \A c \in Seq(Seq(Txs)) : ChainCovers(c)
  BY <1>1, <1>2, BookOfReplay!SeqInduction
<1> QED
  BY <1>3 DEF ChainCovers

\* Neither does a load of the mempool forget.
LoadedCovers(q) ==
    \A a, S : IsLoad(a) /\ IsBook(a.book) /\ Covers(a.book, S) =>
        /\ IsLoad(Loading(a, q))
        /\ IsBook(Loading(a, q).book) /\ Covers(Loading(a, q).book, S)

BookOfLoadTx == INSTANCE FoldTheorems WITH Op <- LoadTx, P <- LoadedCovers

LEMMA LoadedBook ==
    ASSUME NEW q \in Seq(Txs), NEW u, NEW book, IsBook(book), NEW n, NEW S, Covers(book, S)
    PROVE  IsBook(Loaded(q, u, book, n).book) /\ Covers(Loaded(q, u, book, n).book, S)
<1>1. LoadedCovers(<< >>)
  BY LoadingFolds, OfLoadTx!FoldEmpty DEF LoadedCovers
<1>2. ASSUME NEW s \in Seq(Txs), NEW t \in Txs, LoadedCovers(s)
      PROVE  LoadedCovers(Append(s, t))
  <2> SUFFICES ASSUME NEW a, IsLoad(a), IsBook(a.book), NEW T, Covers(a.book, T)
               PROVE  /\ IsLoad(Loading(a, Append(s, t)))
                      /\ IsBook(Loading(a, Append(s, t)).book)
                      /\ Covers(Loading(a, Append(s, t)).book, T)
    BY DEF LoadedCovers
  <2> DEFINE b == Loading(a, s)
  <2>1. Loading(a, Append(s, t)) = LoadTx(b, t)
    BY LoadingFolds, OfLoadTx!FoldAppend
  <2>2. IsLoad(b) /\ IsBook(b.book) /\ Covers(b.book, T)
    BY <1>2 DEF LoadedCovers
  <2> HIDE DEF b
  <2>3. IsLoad(LoadTx(b, t))
    BY <2>2, LoadTxKeeps
  <2>4. LoadTx(b, t).book \in {b.book, BookAfter(b.book, t, b.h)}
    BY <2>2 DEF LoadTx, IsLoad
  <2> QED
    BY <2>1, <2>2, <2>3, <2>4, CoversBook
<1>3. LoadedCovers(q)
  BY <1>1, <1>2, BookOfLoadTx!SeqInduction
<1> DEFINE a == [pool |-> {}, book |-> book, utxo |-> u, h |-> n]
<1>4. IsLoad(a) /\ a.book = book
  BY DEF IsLoad
<1>5. Loaded(q, u, book, n) = Loading(a, q)
  BY DEF Loaded, Loading
<1> HIDE DEF a
<1> QED
  BY <1>3, <1>4, <1>5 DEF LoadedCovers
-----------------------------------------------------------------------------
(* Calls that come one after the other *)

Peaceful(S) == \A t, p \in S : t # p => Ins(t) \cap Ins(p) = {}

Unmined(S) == \A t \in S : Ins(t) # {} => t \notin Mined

\* As long as a listing has had the whole mempool, no two transactions of it or
\* of the file spend one output.
Peace ==
    ~crowded => /\ Cardinality(pool) <= ListLimit
                /\ Peaceful(pool) /\ Peaceful(file)

\* What a call relies on when no other runs.
SerialCall(x) ==
    /\ x.pc \in {"check", "add", "list", "save"} => IsBook(x.book) /\ Covers(x.book, Mined)
    /\ x.pc = "check" => x.prior \in Listable(pool) /\ file \in Listable(pool)
    /\ x.pc = "add" => /\ Ins(x.tx) # {} => x.tx \notin Mined
                       /\ ~crowded => \A p \in pool : Ins(p) \cap Ins(x.tx) = {}
    /\ x.pc \in {"save", "resave"} => x.list \in Listable(pool)
    /\ x.pc = "apply" =>
          /\ file \in Listable(pool)
          /\ IsBook(x.book) /\ Covers(x.book, Mined \union ToSet(x.txs))
          /\ \E book : /\ IsBook(book) /\ Covers(book, Mined)
                      /\ Checked(x.txs, Joined(utxo, CoinOut(Height, x.txs)), book, Height).ok

OneCall == \A s, r \in Threads : s # r => th[s] = Idle \/ th[r] = Idle

SerialInv ==
    ~overlapped =>
        /\ OneCall
        /\ \A s \in Threads : SerialCall(th[s])
        /\ Peace /\ Unmined(pool)
        /\ Quiet => file \in Listable(pool)
        /\ up => IsBook(flags) /\ Covers(flags, Mined)

\* The history variables.
Histories ==
    /\ overlapped' = (overlapped \/ Overlaps)
    /\ crowded' = (crowded \/ Cardinality(pool') > ListLimit)

\* Peace is not disturbed by a step that keeps the mempool and the file.
LEMMA PeaceStays ==
    ASSUME Histories, Peace, pool' = pool, file' = file
    PROVE  Peace'
BY DEF Peace, Histories

\* As long as a listing has had the whole mempool, there is no other listing.
LEMMA Uncrowded ==
    ASSUME Histories, ~crowded', pool' \subseteq Txs
    PROVE  ~crowded /\ Cardinality(pool') <= ListLimit
<1>1. Cardinality(pool') \in Nat /\ ListLimit \in Nat
  BY FS_Subset, FS_CardinalityType, TxAssumption
<1>2. ~crowded /\ ~(Cardinality(pool') > ListLimit)
  BY Zenon DEF Histories
<1> QED
  BY <1>1, <1>2

\* While one call runs the others wait.
LEMMA OneRuns ==
    ASSUME LedgerInv, SerialInv, NEW s \in Threads, NEW x, th' = [th EXCEPT ![s] = x],
           th[s] # Idle \/ x # Idle, Histories, ~overlapped'
    PROVE  /\ ~overlapped /\ th'[s] = x /\ OneCall'
           /\ \A r \in Threads : r # s => th[r] = Idle /\ th'[r] = Idle
<1>1. DOMAIN th = Threads
  BY DEF LedgerInv, LedgerTypeOK
<1>2. th'[s] = x /\ \A r \in Threads : r # s => th'[r] = th[r]
  BY <1>1
<1>3. ~overlapped /\ \A a, b \in Threads : a # b => th'[a] = Idle \/ th'[b] = Idle
  BY DEF Overlaps, Histories
<1>4. \A r \in Threads : r # s => th[r] = Idle
  BY <1>2, <1>3 DEF SerialInv, OneCall
<1> QED
  BY <1>2, <1>3, <1>4 DEF OneCall

\* What a step of one call has to keep.
LEMMA SerialStep ==
    ASSUME LedgerInv, SerialInv, NEW s \in Threads, NEW x, th' = [th EXCEPT ![s] = x],
           th[s] # Idle \/ x # Idle, Histories,
           ~overlapped' =>
             /\ SerialCall(th[s])'
             /\ Peace' /\ Unmined(pool)'
             /\ x = Idle => (file \in Listable(pool))'
             /\ IsBook(flags)' /\ Covers(flags, Mined)'
    PROVE  SerialInv'
<1> SUFFICES ASSUME ~overlapped' PROVE SerialInv'
  BY DEF SerialInv
<1>1. /\ ~overlapped /\ th'[s] = x /\ OneCall'
      /\ \A r \in Threads : r # s => th[r] = Idle /\ th'[r] = Idle
  BY OneRuns
<1>2. \A r \in Threads : SerialCall(th[r])'
  <2>1. ASSUME NEW r \in Threads, r # s PROVE SerialCall(th[r])'
    BY <1>1, <2>1 DEF SerialCall, Idle
  <2> QED
    BY <2>1
<1>3. Quiet' => (file \in Listable(pool))'
  BY <1>1 DEF Quiet
<1> QED
  BY <1>1, <1>2, <1>3 DEF SerialInv

LEMMA InitSerial == LedgerInit => SerialInv
<1> SUFFICES ASSUME LedgerInit PROVE SerialInv
  OBVIOUS
<1>1. \A s \in Threads : th[s] = Idle
  BY DEF LedgerInit
<1>2. SerialCall(Idle)
  BY DEF SerialCall, Idle
<1>3. file = pool /\ pool = {} /\ flags = EmptyBook /\ chain = << >>
  BY DEF LedgerInit
<1>6. Cardinality(pool) <= ListLimit /\ file \in Listable(pool)
  BY <1>3, FS_EmptySet, TxAssumption DEF Listable
<1>4. Mined = {}
  BY <1>3 DEF Mined, TxsOf
<1>5. IsBook(EmptyBook) /\ Covers(EmptyBook, {})
  BY FS_EmptySet DEF IsBook, EmptyBook, Covers
<1> QED
  BY <1>1, <1>2, <1>3, <1>4, <1>5, <1>6 DEF SerialInv, OneCall, Peace, Peaceful, Unmined

LEMMA SendReadSerial ==
    ASSUME LedgerInv, SerialInv, NEW s \in Senders, NEW t \in Txs, SendRead(s, t),
           Histories
    PROVE  SerialInv'
<1>1. PICK p \in Listable(pool) : \E q \in Listings(p) :
          Goto(s, [pc |-> "check", tx |-> t, prior |-> p, h |-> Height,
                   book |-> Staged(q, flags, Height)])
  BY DEF SendRead, Earlier
<1>0. PICK q \in Listings(p) :
          Goto(s, [pc |-> "check", tx |-> t, prior |-> p, h |-> Height,
                   book |-> Staged(q, flags, Height)])
  BY <1>1
<1> DEFINE x == [pc |-> "check", tx |-> t, prior |-> p, h |-> Height,
                 book |-> Staged(q, flags, Height)]
<1>2. s \in Threads /\ up /\ th[s].pc = "idle" /\ th' = [th EXCEPT ![s] = x]
  BY <1>0 DEF Threads, SendRead, At, Goto
<1>3. th[s] = Idle /\ x # Idle
  BY <1>2 DEF LedgerInv, CallsOK, CallOK, Idle
<1>4. UNCHANGED <<chain, utxo, flags, pool, file, up>>
  BY DEF SendRead, memory, disk
<1>5. ASSUME ~overlapped'
      PROVE  /\ SerialCall(th[s])'
             /\ Peace' /\ Unmined(pool)'
             /\ x = Idle => (file \in Listable(pool))'
             /\ IsBook(flags)' /\ Covers(flags, Mined)'
  <2> HIDE DEF x
  <2>1. /\ ~overlapped /\ th'[s] = x
        /\ \A r \in Threads : r # s => th[r] = Idle
    BY <1>2, <1>3, <1>5, OneRuns
  <2>2. Quiet
    BY <1>2, <1>3, <2>1 DEF Quiet
  <2>3. /\ file \in Listable(pool) /\ Peace /\ Unmined(pool)
        /\ IsBook(flags) /\ Covers(flags, Mined)
    BY <1>2, <2>1, <2>2 DEF SerialInv
  <2>4. q \in Seq(Txs)
    BY ListableType, ListingType DEF Listings, LedgerInv, LedgerTypeOK
  <2>5. IsBook(Staged(q, flags, Height)) /\ Covers(Staged(q, flags, Height), Mined)
    BY <2>3, <2>4, StagedKeeps
  <2>6. Mined' = Mined
    BY <1>4 DEF Mined
  <2>7. SerialCall(th[s])'
    BY <1>4, <2>1, <2>3, <2>5, <2>6 DEF SerialCall, x
  <2> QED
    BY <1>3, <1>4, <2>3, <2>6, <2>7, PeaceStays DEF Unmined
<1> HIDE DEF x
<1> QED
  BY <1>2, <1>3, <1>5, SerialStep
\* A transaction that passes the rules in a mempool that stands is not in the
\* chain: what it spends would be gone.
LEMMA AdmittedIsNew ==
    ASSUME ChainStands(chain), UtxoMatchesChain, up, pool \subseteq Txs, Unmined(pool),
           NEW S \in SUBSET pool, NEW t \in Txs, Ins(t) # {},
           Ins(t) \subseteq DOMAIN Joined(utxo, AllOuts(S))
    PROVE  t \notin Mined
<1> SUFFICES ASSUME t \in Mined PROVE FALSE
  OBVIOUS
<1>1. utxo = Replay(chain).utxo /\ Stands(Len(chain), Mined, utxo) /\ Len(chain) <= MaxHeight
  BY DEF UtxoMatchesChain, ChainStands, Mined
<1>2. /\ Ins(t) \cap DOMAIN utxo = {}
      /\ Ins(t) \subseteq Coins(Len(chain)) \union Outputs(Mined)
  BY <1>1 DEF Stands
<1>3. DOMAIN Joined(utxo, AllOuts(S)) = DOMAIN utxo \union Outputs(S)
  BY DEF Joined, AllOuts, Outputs
<1>4. PICK o \in Ins(t) : o \in Outputs(S)
  BY <1>2, <1>3
<1>5. o[1] \in pool
  BY <1>4, OutsType DEF Outputs
<1>6. o \notin Coins(Len(chain))
  BY <1>1, <1>5, TxAssumption DEF Coins, Coin
<1>7. o[1] \in Mined
  BY <1>1, <1>2, <1>6, OutsType DEF Outputs, Stands
<1>8. Ins(o[1]) # {}
  BY <1>1, <1>7 DEF Stands
<1> QED
  BY <1>5, <1>7, <1>8 DEF Unmined

LEMMA SendCheckSerial ==
    ASSUME LedgerInv, SerialInv, NEW s \in Senders, SendCheck(s),
           Histories
    PROVE  SerialInv'
<1> DEFINE c == th[s]
           y == [c EXCEPT !.pc = "add"]
           k == BookAfter(c.book, c.tx, c.h)
           z == [c EXCEPT !.pc = "add", !.book = k]
<1>1. s \in Threads /\ up /\ c.pc = "check" /\ CallOK(c) /\ c # Idle
  BY DEF Threads, SendCheck, At, LedgerInv, CallsOK, Idle
<1>2. UNCHANGED <<chain, utxo, flags, pool, file, up>> /\ Mined' = Mined
  BY DEF SendCheck, memory, disk, Mined
<1>3. \/ Ins(c.tx) = {} /\ th' = [th EXCEPT ![s] = y]
      \/ /\ Ins(c.tx) # {} /\ th' = [th EXCEPT ![s] = z]
         /\ Admissible(c.tx, Joined(utxo, AllOuts(c.prior)), c.prior, c.book, c.h)
      \/ th' = [th EXCEPT ![s] = Idle]
  BY DEF SendCheck, Advance, Goto
<1> HIDE DEF c
<1>4. /\ c = [pc |-> c.pc, tx |-> c.tx, prior |-> c.prior, h |-> c.h, book |-> c.book]
      /\ c.tx \in Txs
  BY <1>1 DEF CallOK
<1>5. ASSUME ~overlapped
      PROVE  /\ IsBook(c.book) /\ Covers(c.book, Mined)
             /\ c.prior \in Listable(pool) /\ file \in Listable(pool)
             /\ Peace /\ Unmined(pool) /\ IsBook(flags) /\ Covers(flags, Mined)
  BY <1>1, <1>5 DEF SerialInv, SerialCall, c
<1>6. CASE Ins(c.tx) = {} /\ th' = [th EXCEPT ![s] = y]
  <2>1. y = [pc |-> "add", tx |-> c.tx, prior |-> c.prior, h |-> c.h, book |-> c.book]
    BY <1>4
  <2> HIDE DEF y
  <2>2. ASSUME ~overlapped'
        PROVE  /\ SerialCall(th[s])'
               /\ Peace' /\ Unmined(pool)'
               /\ y = Idle => (file \in Listable(pool))'
               /\ IsBook(flags)' /\ Covers(flags, Mined)'
    <3>1. ~overlapped /\ th'[s] = y
      BY <1>1, <1>6, <2>2, OneRuns DEF c
    <3>3. \A p \in pool : Ins(p) \cap Ins(c.tx) = {}
      BY <1>6
    <3>2. SerialCall(th[s])'
      BY <1>2, <1>5, <1>6, <2>1, <3>1, <3>3 DEF SerialCall
    <3> QED
      BY <1>2, <1>5, <2>1, <3>1, <3>2, PeaceStays DEF Unmined, Idle
  <2> QED
    BY <1>1, <1>6, <2>2, SerialStep DEF c
<1>7. CASE /\ Ins(c.tx) # {} /\ th' = [th EXCEPT ![s] = z]
           /\ Admissible(c.tx, Joined(utxo, AllOuts(c.prior)), c.prior, c.book, c.h)
  <2>0. z = [c EXCEPT !.pc = "add", !.book = k]
    OBVIOUS
  <2> HIDE DEF k, z
  <2>1. z = [pc |-> "add", tx |-> c.tx, prior |-> c.prior, h |-> c.h, book |-> k]
    BY <2>0, <1>4
  <2>2. ASSUME ~overlapped'
        PROVE  /\ SerialCall(th[s])'
               /\ Peace' /\ Unmined(pool)'
               /\ z = Idle => (file \in Listable(pool))'
               /\ IsBook(flags)' /\ Covers(flags, Mined)'
    <3>1. ~overlapped /\ th'[s] = z
      BY <1>1, <1>7, <2>2, OneRuns DEF c
    <3>2. IsBook(k) /\ Covers(k, Mined)
      BY <1>4, <1>5, <3>1, CoversBook DEF k
    <3>3. /\ Ins(c.tx) \subseteq DOMAIN Joined(utxo, AllOuts(c.prior))
          /\ \A p \in c.prior : Ins(p) \cap Ins(c.tx) = {}
      BY <1>7 DEF Admissible, Spendable, Fresh
    <3>6. /\ c.prior \subseteq pool /\ pool \subseteq Txs
          /\ Cardinality(pool) <= ListLimit => c.prior = pool
      BY <1>5, <3>1, ListableType DEF LedgerInv, LedgerTypeOK
    <3>4. c.tx \notin Mined
      BY <1>1, <1>4, <1>5, <1>7, <3>1, <3>3, <3>6, AdmittedIsNew DEF LedgerInv, LedgerTypeOK
    <3>7. ~crowded' => \A p \in pool : Ins(p) \cap Ins(c.tx) = {}
      BY <1>5, <3>1, <3>3, <3>6 DEF Peace, Histories
    <3>5. SerialCall(th[s])'
      BY <1>2, <2>1, <3>1, <3>2, <3>4, <3>7 DEF SerialCall
    <3> QED
      BY <1>2, <1>5, <2>1, <3>1, <3>5, PeaceStays DEF Unmined, Idle
  <2> QED
    BY <1>1, <1>7, <2>2, SerialStep DEF c
<1>8. CASE th' = [th EXCEPT ![s] = Idle]
  <2>1. ASSUME ~overlapped'
        PROVE  /\ SerialCall(th[s])'
               /\ Peace' /\ Unmined(pool)'
               /\ Idle = Idle => (file \in Listable(pool))'
               /\ IsBook(flags)' /\ Covers(flags, Mined)'
    <3>1. ~overlapped /\ th'[s] = Idle
      BY <1>1, <1>8, <2>1, OneRuns DEF c
    <3>2. SerialCall(th[s])'
      BY <3>1 DEF SerialCall, Idle
    <3> QED
      BY <1>2, <1>5, <3>1, <3>2, PeaceStays DEF Unmined
  <2> QED
    BY <1>1, <1>8, <2>1, SerialStep DEF c
<1> QED
  BY <1>3, <1>6, <1>7, <1>8

LEMMA SendAddSerial ==
    ASSUME LedgerInv, SerialInv, NEW s \in Senders, SendAdd(s),
           Histories
    PROVE  SerialInv'
<1> DEFINE c == th[s]
           x == [c EXCEPT !.pc = "list"]
<1>1. s \in Threads /\ up /\ c.pc = "add" /\ CallOK(c) /\ c # Idle
  BY DEF Threads, SendAdd, At, LedgerInv, CallsOK, Idle
<1>2. UNCHANGED <<chain, utxo, flags, file, up>> /\ Mined' = Mined
  BY DEF SendAdd, disk, Mined
<1>3. th' = [th EXCEPT ![s] = x] /\ pool' = pool \union {c.tx}
  BY DEF SendAdd, Advance
<1> HIDE DEF c
<1>4. x = [pc |-> "list", tx |-> c.tx, prior |-> c.prior, h |-> c.h, book |-> c.book]
  BY <1>1 DEF CallOK
<1> HIDE DEF x
<1>5. ASSUME ~overlapped'
      PROVE  /\ SerialCall(th[s])'
             /\ Peace' /\ Unmined(pool)'
             /\ x = Idle => (file \in Listable(pool))'
             /\ IsBook(flags)' /\ Covers(flags, Mined)'
  <2>1. ~overlapped /\ th'[s] = x
    BY <1>1, <1>3, <1>5, OneRuns DEF c
  <2>2. /\ IsBook(c.book) /\ Covers(c.book, Mined)
        /\ Ins(c.tx) # {} => c.tx \notin Mined
        /\ ~crowded => \A p \in pool : Ins(p) \cap Ins(c.tx) = {}
        /\ Peace /\ Unmined(pool)
        /\ IsBook(flags) /\ Covers(flags, Mined)
    BY <1>1, <2>1 DEF SerialInv, SerialCall, c
  <2>3. SerialCall(th[s])'
    BY <1>2, <1>4, <2>1, <2>2 DEF SerialCall
  <2>4. Peace'
    <3>1. pool' \subseteq Txs
      BY <1>1, <1>3 DEF CallOK, LedgerInv, LedgerTypeOK, c
    <3> QED
      BY <1>2, <1>3, <2>2, <3>1, Uncrowded DEF Peace, Peaceful
  <2>5. Unmined(pool)'
    BY <1>2, <1>3, <2>2 DEF Unmined
  <2> QED
    BY <1>2, <1>4, <2>2, <2>3, <2>4, <2>5 DEF Idle
<1> QED
  BY <1>1, <1>3, <1>5, SerialStep DEF c

LEMMA SendListSerial ==
    ASSUME LedgerInv, SerialInv, NEW s \in Senders, SendList(s),
           Histories
    PROVE  SerialInv'
<1>0. PICK l \in Listable(pool) : Goto(s, [pc |-> "save", list |-> l, book |-> th[s].book])
  BY DEF SendList
<1> DEFINE x == [pc |-> "save", list |-> l, book |-> th[s].book]
<1>1. s \in Threads /\ up /\ th[s].pc = "list" /\ th[s] # Idle
  BY DEF Threads, SendList, At, Idle
<1>2. UNCHANGED <<chain, utxo, flags, pool, file, up>> /\ Mined' = Mined
  BY DEF SendList, memory, disk, Mined
<1>3. th' = [th EXCEPT ![s] = x] /\ x.pc = "save" /\ x.list = l /\ x.book = th[s].book
  BY <1>0 DEF Goto
<1> HIDE DEF x
<1>4. ASSUME ~overlapped'
      PROVE  /\ SerialCall(th[s])'
             /\ Peace' /\ Unmined(pool)'
             /\ x = Idle => (file \in Listable(pool))'
             /\ IsBook(flags)' /\ Covers(flags, Mined)'
  <2>1. ~overlapped /\ th'[s] = x
    BY <1>1, <1>3, <1>4, OneRuns
  <2>2. /\ IsBook(th[s].book) /\ Covers(th[s].book, Mined)
        /\ Peace /\ Unmined(pool)
        /\ IsBook(flags) /\ Covers(flags, Mined)
    BY <1>1, <2>1 DEF SerialInv, SerialCall
  <2>3. SerialCall(th[s])'
    BY <1>2, <1>3, <2>1, <2>2 DEF SerialCall
  <2> QED
    BY <1>2, <1>3, <2>2, <2>3, PeaceStays DEF Idle, Unmined
<1> QED
  BY <1>1, <1>3, <1>4, SerialStep

LEMMA SendSaveSerial ==
    ASSUME LedgerInv, SerialInv, NEW s \in Senders, SendSave(s),
           Histories
    PROVE  SerialInv'
<1>1. s \in Threads /\ up /\ th[s].pc = "save" /\ th[s] # Idle
  BY DEF Threads, SendSave, At, Idle
<1>2. /\ UNCHANGED <<chain, utxo, pool, up>> /\ Mined' = Mined
      /\ file' = th[s].list /\ flags' = th[s].book
  BY DEF SendSave, Mined
<1>3. th' = [th EXCEPT ![s] = Idle]
  BY DEF SendSave, Goto
<1>4. ASSUME ~overlapped'
      PROVE  /\ SerialCall(th[s])'
             /\ Peace' /\ Unmined(pool)'
             /\ Idle = Idle => (file \in Listable(pool))'
             /\ IsBook(flags)' /\ Covers(flags, Mined)'
  <2>1. ~overlapped /\ th'[s] = Idle
    BY <1>1, <1>3, <1>4, OneRuns
  <2>2. /\ IsBook(th[s].book) /\ Covers(th[s].book, Mined) /\ th[s].list \in Listable(pool)
        /\ Peace /\ Unmined(pool)
    BY <1>1, <2>1 DEF SerialInv, SerialCall
  <2>3. SerialCall(th[s])'
    BY <2>1 DEF SerialCall, Idle
  <2>4. Peace'
    <3>1. th[s].list \subseteq pool
      BY <2>2, ListableType DEF LedgerInv, LedgerTypeOK
    <3> QED
      BY <1>2, <2>2, <3>1 DEF Peace, Peaceful, Histories
  <2> QED
    BY <1>2, <2>2, <2>3, <2>4 DEF Unmined
<1> QED
  BY <1>1, <1>3, <1>4, SerialStep
LEMMA SubmitSerial ==
    ASSUME LedgerInv, SerialInv, NEW s \in Submitters, NEW txs \in Seq(Txs), Submit(s, txs),
           Histories
    PROVE  SerialInv'
<1> DEFINE b == CheckBlock(txs).book
           x == [pc |-> "apply", txs |-> txs, book |-> b]
<1>1. s \in Threads /\ up /\ th[s].pc = "idle"
  BY DEF Threads, Submit, At
<1>2. UNCHANGED <<chain, utxo, flags, pool, file, up>> /\ Mined' = Mined
  BY DEF Submit, memory, disk, Mined
<1>3. th' = [th EXCEPT ![s] = x] /\ CheckBlock(txs).ok
  BY DEF Submit, Goto
<1>4. th[s] = Idle
  BY <1>1 DEF LedgerInv, CallsOK, CallOK
<1> HIDE DEF b
<1>5. x.pc = "apply" /\ x.txs = txs /\ x.book = b /\ x # Idle
  BY DEF Idle
<1> HIDE DEF x
<1>6. ASSUME ~overlapped'
      PROVE  /\ SerialCall(th[s])'
             /\ Peace' /\ Unmined(pool)'
             /\ x = Idle => (file \in Listable(pool))'
             /\ IsBook(flags)' /\ Covers(flags, Mined)'
  <2>1. /\ ~overlapped /\ th'[s] = x
        /\ \A r \in Threads : r # s => th[r] = Idle
    BY <1>1, <1>3, <1>5, <1>6, OneRuns
  <2>2. Quiet
    BY <1>1, <1>4, <2>1 DEF Quiet
  <2>3. /\ file \in Listable(pool) /\ Peace /\ Unmined(pool)
        /\ IsBook(flags) /\ Covers(flags, Mined)
    BY <1>1, <2>1, <2>2 DEF SerialInv
  <2>4. IsBook(b) /\ Covers(b, Mined \union ToSet(txs))
    BY <1>3, <2>3, BlockCovers DEF CheckBlock, b
  <2>5. Checked(txs, Joined(utxo, CoinOut(Height, txs)), flags, Height).ok
    BY <1>3 DEF CheckBlock
  <2>6. Height' = Height
    BY <1>2 DEF Height
  <2>7. SerialCall(th[s])'
    BY <1>2, <1>5, <2>1, <2>3, <2>4, <2>5, <2>6 DEF SerialCall
  <2> QED
    BY <1>2, <1>5, <2>3, <2>7, PeaceStays DEF Unmined
<1> QED
  BY <1>1, <1>3, <1>5, <1>6, SerialStep

LEMMA SubApplySerial ==
    ASSUME LedgerInv, SerialInv, NEW s \in Submitters, SubApply(s),
           Histories
    PROVE  SerialInv'
<1> DEFINE txs == th[s].txs
<1>1. /\ s \in Threads /\ up /\ th[s].pc = "apply" /\ th[s] # Idle /\ txs \in Seq(Txs)
      /\ chain \in Seq(Seq(Txs))
  <2>1. s \in Threads /\ up /\ th[s].pc = "apply"
    BY DEF Threads, SubApply, At
  <2>2. CallOK(th[s]) /\ chain \in Seq(Seq(Txs))
    BY <2>1 DEF LedgerInv, LedgerTypeOK, CallsOK
  <2> QED
    BY <2>1, <2>2 DEF CallOK, Idle
<1>2. /\ UNCHANGED <<file, up>> /\ flags' = th[s].book /\ pool' = pool \ ToSet(txs)
      /\ chain' = Append(chain, txs)
  BY DEF SubApply, Unconfirmed
<1>3. PICK x : /\ th' = [th EXCEPT ![s] = x]
               /\ x \in {[pc |-> "relist"], Idle}
               /\ x = Idle => txs = << >>
  <2>1. \/ txs # << >> /\ th' = [th EXCEPT ![s] = [pc |-> "relist"]]
        \/ txs = << >> /\ th' = [th EXCEPT ![s] = Idle]
    BY DEF SubApply, Goto, MustSave
  <2>2. [pc |-> "relist"] # Idle
    BY DEF Idle
  <2> HIDE DEF txs
  <2> DEFINE w == [pc |-> "relist"]
  <2>3. w \in {w, Idle} /\ Idle \in {w, Idle} /\ w # Idle
    BY <2>2
  <2> HIDE DEF w
  <2>4. \E x : th' = [th EXCEPT ![s] = x] /\ x \in {w, Idle} /\ (x = Idle => txs = << >>)
    <3>1. ASSUME txs # << >>, th' = [th EXCEPT ![s] = w]
          PROVE  th' = [th EXCEPT ![s] = w] /\ w \in {w, Idle} /\ (w = Idle => txs = << >>)
      BY <2>3, <3>1
    <3>2. ASSUME txs = << >>, th' = [th EXCEPT ![s] = Idle]
          PROVE  th' = [th EXCEPT ![s] = Idle] /\ Idle \in {w, Idle} /\ txs = << >>
      BY <2>3, <3>2
    <3> QED
      BY <2>1, <3>1, <3>2, Zenon DEF w
  <2> QED
    BY <2>4 DEF w
<1>4. Mined' = Mined \union ToSet(txs)
  BY <1>1, <1>2, TxsOfAppend DEF Mined
<1>5. ASSUME ~overlapped'
      PROVE  /\ SerialCall(th[s])'
             /\ Peace' /\ Unmined(pool)'
             /\ x = Idle => (file \in Listable(pool))'
             /\ IsBook(flags)' /\ Covers(flags, Mined)'
  <2>1. ~overlapped /\ th'[s] = x
    BY <1>1, <1>3, <1>5, OneRuns
  <2>2. /\ file \in Listable(pool) /\ Peace /\ Unmined(pool)
        /\ IsBook(th[s].book) /\ Covers(th[s].book, Mined \union ToSet(txs))
    BY <1>1, <2>1 DEF SerialInv, SerialCall
  <2>3. SerialCall(th[s])'
    BY <1>3, <2>1 DEF SerialCall, Idle
  <2>4. Peace'
    <3>1. pool' \subseteq pool /\ pool' \subseteq Txs
      BY <1>2 DEF LedgerInv, LedgerTypeOK
    <3> QED
      BY <1>2, <2>2, <3>1, Uncrowded DEF Peace, Peaceful
  <2>5. Unmined(pool)'
    BY <1>2, <1>4, <2>2 DEF Unmined
  <2>6. x = Idle => (file \in Listable(pool))'
    <3>1. ToSet(<< >>) = {}
      BY DEF ToSet
    <3> QED
      BY <1>2, <1>3, <2>2, <3>1
  <2> QED
    BY <1>2, <1>4, <2>2, <2>3, <2>4, <2>5, <2>6
<1> QED
  BY <1>1, <1>3, <1>5, SerialStep

LEMMA SubListSerial ==
    ASSUME LedgerInv, SerialInv, NEW s \in Submitters, SubList(s),
           Histories
    PROVE  SerialInv'
<1>0. PICK l \in Listable(pool) : Goto(s, [pc |-> "resave", list |-> l])
  BY DEF SubList
<1> DEFINE x == [pc |-> "resave", list |-> l]
<1>1. s \in Threads /\ up /\ th[s].pc = "relist" /\ th[s] # Idle
  BY DEF Threads, SubList, At, Idle
<1>2. UNCHANGED <<chain, utxo, flags, pool, file, up>> /\ Mined' = Mined
  BY DEF SubList, memory, disk, Mined
<1>3. th' = [th EXCEPT ![s] = x] /\ x.pc = "resave" /\ x.list = l
  BY <1>0 DEF Goto
<1> HIDE DEF x
<1>4. ASSUME ~overlapped'
      PROVE  /\ SerialCall(th[s])'
             /\ Peace' /\ Unmined(pool)'
             /\ x = Idle => (file \in Listable(pool))'
             /\ IsBook(flags)' /\ Covers(flags, Mined)'
  <2>1. ~overlapped /\ th'[s] = x
    BY <1>1, <1>3, <1>4, OneRuns
  <2>2. /\ Peace /\ Unmined(pool)
        /\ IsBook(flags) /\ Covers(flags, Mined)
    BY <1>1, <2>1 DEF SerialInv
  <2>3. SerialCall(th[s])'
    BY <1>2, <1>3, <2>1 DEF SerialCall
  <2> QED
    BY <1>2, <1>3, <2>2, <2>3, PeaceStays DEF Idle, Unmined
<1> QED
  BY <1>1, <1>3, <1>4, SerialStep

LEMMA SubSaveSerial ==
    ASSUME LedgerInv, SerialInv, NEW s \in Submitters, SubSave(s),
           Histories
    PROVE  SerialInv'
<1>1. s \in Threads /\ up /\ th[s].pc = "resave" /\ th[s] # Idle
  BY DEF Threads, SubSave, At, Idle
<1>2. UNCHANGED <<chain, utxo, flags, pool, up>> /\ Mined' = Mined /\ file' = th[s].list
  BY DEF SubSave, memory, Mined
<1>3. th' = [th EXCEPT ![s] = Idle]
  BY DEF SubSave, Goto
<1>4. ASSUME ~overlapped'
      PROVE  /\ SerialCall(th[s])'
             /\ Peace' /\ Unmined(pool)'
             /\ Idle = Idle => (file \in Listable(pool))'
             /\ IsBook(flags)' /\ Covers(flags, Mined)'
  <2>1. ~overlapped /\ th'[s] = Idle
    BY <1>1, <1>3, <1>4, OneRuns
  <2>2. /\ th[s].list \in Listable(pool) /\ Peace /\ Unmined(pool)
        /\ IsBook(flags) /\ Covers(flags, Mined)
    BY <1>1, <2>1 DEF SerialInv, SerialCall
  <2>3. SerialCall(th[s])'
    BY <2>1 DEF SerialCall, Idle
  <2>4. Peace'
    <3>1. th[s].list \subseteq pool
      BY <2>2, ListableType DEF LedgerInv, LedgerTypeOK
    <3> QED
      BY <1>2, <2>2, <3>1 DEF Peace, Peaceful, Histories
  <2> QED
    BY <1>2, <2>2, <2>3, <2>4 DEF Unmined
<1> QED
  BY <1>1, <1>3, <1>4, SerialStep

LEMMA CrashSerial ==
    ASSUME LedgerInv, SerialInv, Crash, Histories
    PROVE  SerialInv'
<1> SUFFICES ASSUME ~overlapped' PROVE SerialInv'
  BY DEF SerialInv
<1>1. up' = FALSE /\ pool' = {} /\ file' = file /\ \A s \in Threads : th'[s] = Idle
  BY DEF Crash, disk
<1>2. ~overlapped /\ Peace
  BY DEF SerialInv, Histories
<1>4. Peace'
  BY <1>1, <1>2, Uncrowded DEF Peace, Peaceful
<1>3. \A s \in Threads : SerialCall(th[s])'
  BY <1>1 DEF SerialCall, Idle
<1> QED
  BY <1>1, <1>3, <1>4 DEF SerialInv, OneCall, Quiet, Unmined

LEMMA RestartSerial ==
    ASSUME LedgerInv, SerialInv, Restart, Histories
    PROVE  SerialInv'
<1> SUFFICES ASSUME ~overlapped' PROVE SerialInv'
  BY DEF SerialInv
<1>1. /\ ~up /\ UNCHANGED <<chain, th>> /\ utxo' = Replay(chain).utxo /\ Replay(chain).ok
      /\ Mined' = Mined
  BY DEF Restart, Mined
<1>2. PICK q \in SetToSeqs(file) :
          LET l == Loaded(q, Replay(chain).utxo, Replay(chain).book, Height)
          IN  /\ pool' = l.pool /\ flags' = l.book
              /\ file' \in IF l.pool # file THEN Listable(l.pool) ELSE {file}
  BY DEF Restart
<1>3. ~overlapped /\ Peace
  BY DEF SerialInv, Histories
<1>4. FileFits /\ LedgerTypeOK /\ CallsOK /\ ChainStands(chain)
  BY DEF LedgerInv
<1>5. q \in Seq(Txs) /\ ToSet(q) \subseteq file
  BY <1>4, ListingType DEF LedgerTypeOK
<1>6. \A t \in pool' : /\ t \in file
                       /\ Ins(t) # {} /\ Ins(t) \subseteq DOMAIN Replay(chain).utxo
  BY <1>2, <1>5, LoadedType
<1>13. pool' \subseteq file /\ pool' \subseteq Txs
  BY <1>4, <1>6 DEF LedgerTypeOK
<1>14. file' \in Listable(pool')
  <2>1. CASE pool' # file
    BY <1>2, <2>1
  <2>2. CASE pool' = file
    BY <1>2, <1>4, <2>2 DEF Listable, FileFits
  <2> QED
    BY <2>1, <2>2
<1>15. file' \subseteq pool'
  BY <1>13, <1>14, ListableType
<1>7. Peace'
  BY <1>3, <1>13, <1>15, Uncrowded DEF Peace, Peaceful
<1>8. Unmined(pool)'
  BY <1>1, <1>4, <1>6 DEF Unmined, ChainStands, Stands, Mined
<1>9. IsBook(Replay(chain).book) /\ Covers(Replay(chain).book, Mined)
  BY <1>1, <1>4, ReplayCovers DEF LedgerTypeOK, RebuiltCovers, Mined
<1>10. IsBook(flags') /\ Covers(flags', Mined)
  BY <1>2, <1>5, <1>9, LoadedBook
<1>11. \A s \in Threads : th'[s] = Idle
  BY <1>1, <1>4 DEF CallsOK
<1>12. \A s \in Threads : SerialCall(th[s])'
  BY <1>11 DEF SerialCall, Idle
<1> QED
  BY <1>1, <1>7, <1>8, <1>10, <1>11, <1>12, <1>14 DEF SerialInv, OneCall

LEMMA NextSerial == LedgerInv /\ SerialInv /\ [LedgerNext]_ledgerVars => SerialInv'
<1> SUFFICES ASSUME LedgerInv, SerialInv, [LedgerNext]_ledgerVars PROVE SerialInv'
  OBVIOUS
<1>1. CASE UNCHANGED ledgerVars
  BY <1>1 DEF ledgerVars, SerialInv, OneCall, SerialCall, Peace, Unmined, Mined, Quiet, Height
<1>2. CASE LedgerNext
  BY <1>2, SendReadSerial, SendCheckSerial, SendAddSerial, SendListSerial, SendSaveSerial,
     SubmitSerial, SubApplySerial, SubListSerial, SubSaveSerial, CrashSerial,
     RestartSerial, BlockType DEF LedgerNext, LedgerStep, Histories
<1> QED
  BY <1>1, <1>2

\* What holds of calls that come one after the other.
THEOREM LedgerSerial == LedgerSpec => []SerialInv
<1>1. LedgerInit => SerialInv
  BY InitSerial
<1>2. LedgerInv /\ SerialInv /\ [LedgerNext]_ledgerVars => SerialInv'
  BY NextSerial
<1> QED
  BY <1>1, <1>2, LedgerSafe, PTL DEF LedgerSpec

\* Between two calls mempool.json has what a listing of the mempool has, all of
\* it up to ListLimit transactions, as long as calls came one after the other
\* (save_mempool).
THEOREM FileMirrors == LedgerSpec => []FileMirrorsPool
<1>1. SerialInv => FileMirrorsPool
  BY DEF SerialInv, FileMirrorsPool
<1> QED
  BY <1>1, LedgerSerial, PTL

\* As long as calls came one after the other, the mempool holds no spend of the
\* chain; and as long as it never held more than a listing has, no two spends of
\* one output either, also after load_mempool.
THEOREM PoolKept == LedgerSpec => []PoolStands
<1>1. SerialInv => PoolStands
  BY DEF SerialInv, PoolStands, Peace, Peaceful, Unmined
<1> QED
  BY <1>1, LedgerSerial, PTL

\* As long as calls came one after the other, the flag book of a node has every
\* flag and claim of its chain, though calls stage copies and store them back.
THEOREM BookKept == LedgerSpec => []BookCoversChain
<1>1. SerialInv => BookCoversChain
  BY DEF SerialInv, BookCoversChain, Covers, InBook
<1> QED
  BY <1>1, LedgerSerial, PTL
=============================================================================
