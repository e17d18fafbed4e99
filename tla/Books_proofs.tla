---------------------------- MODULE Books_proofs ----------------------------
(***************************************************************************)
(* The book of names of a node.  It gives a name to one address and an     *)
(* address one name, a mined register has its name unless a row that a     *)
(* grant or another register left disputes it, and no step takes the name  *)
(* away, for every set of registers, every chain of blocks, every          *)
(* names.json, every order of sends, starts and rewinds.                   *)
(***************************************************************************)
EXTENDS Names, TLAPS
-----------------------------------------------------------------------------
(* The book of names *)

\* Rows without a name or an address twice.
Distinct(bk) ==
    /\ bk \in Seq(Row)
    /\ \A i, j \in DOMAIN bk : i # j => bk[i].name # bk[j].name /\ bk[i].addr # bk[j].addr

Rows(bk) == bk \in Seq(Row)

LEMMA RowOfRegister == \A t \in Registers : RowOf(t) \in Row
BY DEF RowOf, Row

\* Setting a row that the book accepts keeps the names and addresses apart.
LEMMA RememberKeeps ==
    ASSUME NEW bk, Distinct(bk), NEW row \in Row, NEW overwrite
    PROVE  Distinct(Remember(bk, row, overwrite))
<1>1. CASE ~Accepts(bk, row, overwrite)
  BY <1>1 DEF Remember
<1>2. CASE Accepts(bk, row, overwrite) /\ Named(bk, row.name) = {}
  <2>1. Remember(bk, row, overwrite) = Append(bk, row)
    BY <1>2 DEF Remember, SetRow
  <2>2. \A i \in DOMAIN bk : bk[i].name # row.name
    BY <1>2 DEF Named
  <2>3. \A i \in DOMAIN bk : bk[i].addr # row.addr
    BY <1>2, <2>2 DEF Accepts, AddressFree, Owned
  <2>4. /\ bk \in Seq(Row) /\ Append(bk, row) \in Seq(Row)
        /\ DOMAIN bk = 1..Len(bk) /\ Len(bk) \in Nat
        /\ DOMAIN Append(bk, row) = 1..(Len(bk) + 1)
        /\ \A i \in 1..Len(bk) : Append(bk, row)[i] = bk[i]
        /\ Append(bk, row)[Len(bk) + 1] = row
    BY DEF Distinct
  <2>5. \A i \in 1..(Len(bk) + 1) : i \in 1..Len(bk) \/ i = Len(bk) + 1
    BY <2>4
  <2> QED
    BY <2>1, <2>2, <2>3, <2>4, <2>5 DEF Distinct
<1>3. CASE Accepts(bk, row, overwrite) /\ Named(bk, row.name) # {}
  <2> DEFINE new == [i \in DOMAIN bk |-> IF i \in Named(bk, row.name) THEN row ELSE bk[i]]
  <2>1. Remember(bk, row, overwrite) = new
    BY <1>3 DEF Remember, SetRow
  <2>2. bk \in Seq(Row) /\ DOMAIN bk = 1..Len(bk) /\ Len(bk) \in Nat
    BY DEF Distinct
  <2>3. new \in Seq(Row) /\ DOMAIN new = DOMAIN bk
    <3>1. \A i \in 1..Len(bk) : bk[i] \in Row
      BY <2>2
    <3>2. \A i \in 1..Len(bk) : new[i] \in Row
      BY <2>2, <3>1
    <3> QED
      BY <2>2, <3>2
  <2>4. PICK k \in DOMAIN bk : bk[k].name = row.name
    BY <1>3 DEF Named
  <2>5. \A i \in DOMAIN bk : i \in Named(bk, row.name) <=> i = k
    BY <2>4 DEF Named, Distinct
  <2>6. \A i \in DOMAIN bk : bk[i].addr = row.addr => i = k
    BY <1>3, <2>4 DEF Accepts, AddressFree, Owned, Distinct
  <2>7. /\ new[k] = row /\ \A i \in DOMAIN bk : i # k => new[i] = bk[i]
    BY <2>5
  <2> HIDE DEF new
  <2>8. ASSUME NEW i \in DOMAIN bk, NEW j \in DOMAIN bk, i # j
        PROVE  new[i].name # new[j].name /\ new[i].addr # new[j].addr
    <3>1. bk[i].name # bk[j].name /\ bk[i].addr # bk[j].addr
      BY <2>8 DEF Distinct
    <3> QED
      BY <2>4, <2>6, <2>7, <2>8, <3>1
  <2> QED
    BY <2>1, <2>3, <2>8 DEF Distinct
<1> QED
  BY <1>1, <1>2, <1>3

LEMMA SetRowTyped == ASSUME NEW bk \in Seq(Row), NEW row \in Row PROVE SetRow(bk, row) \in Seq(Row)
<1>1. Append(bk, row) \in Seq(Row)
  OBVIOUS
<1>2. [i \in DOMAIN bk |-> IF i \in Named(bk, row.name) THEN row ELSE bk[i]] \in Seq(Row)
  <2>1. \A i \in DOMAIN bk : bk[i] \in Row
    OBVIOUS
  <2>2. DOMAIN bk = 1..Len(bk) /\ Len(bk) \in Nat
    OBVIOUS
  <2> QED
    BY <2>1, <2>2
<1> QED
  BY <1>1, <1>2 DEF SetRow
-----------------------------------------------------------------------------
(* The folds of the book over rows, registers and blocks *)

OfNew == INSTANCE FoldTheorems WITH Op <- RememberNew, P <- Distinct

LEMMA AbsorbFileKeeps == \A rows \in Seq(Row) : \A bk : Distinct(bk) => Distinct(AbsorbFile(bk, rows))
<1>1. \A bk : \A row \in Row : Distinct(bk) => Distinct(RememberNew(bk, row))
  BY RememberKeeps DEF RememberNew
<1>2. \A bk, rows : AbsorbFile(bk, rows) = OfNew!Fold(bk, rows)
  BY DEF AbsorbFile, OfNew!Fold, FoldLeft, OfNew!FoldLeft, MapThenFoldSet,
         OfNew!MapThenFoldSet, Max, OfNew!Max
<1>3. \A rows \in Seq(Row) : \A bk : Distinct(bk) => Distinct(OfNew!Fold(bk, rows))
  BY <1>1, OfNew!FoldKeeps
<1> QED
  BY <1>2, <1>3

OfOver == INSTANCE FoldTheorems WITH Op <- RememberOver, P <- Distinct

LEMMA AbsorbChainKeeps == \A rows \in Seq(Row) : \A bk : Distinct(bk) => Distinct(AbsorbChain(bk, rows))
<1>1. \A bk : \A row \in Row : Distinct(bk) => Distinct(RememberOver(bk, row))
  BY RememberKeeps DEF RememberOver
<1>2. \A bk, rows : AbsorbChain(bk, rows) = OfOver!Fold(bk, rows)
  BY DEF AbsorbChain, OfOver!Fold, FoldLeft, OfOver!FoldLeft, MapThenFoldSet,
         OfOver!MapThenFoldSet, Max, OfOver!Max
<1>3. \A rows \in Seq(Row) : \A bk : Distinct(bk) => Distinct(OfOver!Fold(bk, rows))
  BY <1>1, OfOver!FoldKeeps
<1> QED
  BY <1>2, <1>3

LEMMA RowsOfTyped == \A txs \in Seq(Registers) : RowsOf(txs) \in Seq(Row)
<1> SUFFICES ASSUME NEW txs \in Seq(Registers) PROVE RowsOf(txs) \in Seq(Row)
  OBVIOUS
<1>1. DOMAIN txs = 1..Len(txs) /\ Len(txs) \in Nat /\ \A i \in DOMAIN txs : txs[i] \in Registers
  OBVIOUS
<1>2. \A i \in DOMAIN txs : RowOf(txs[i]) \in Row
  BY <1>1, RowOfRegister
<1> QED
  BY <1>1, <1>2 DEF RowsOf

NameBlock == [txs : Seq(Registers), names : Seq(Row)]

OfBlock == INSTANCE FoldTheorems WITH Op <- AbsorbBlock, P <- Distinct

LEMMA ReplayNamesKeeps == \A blocks \in Seq(NameBlock) : \A bk : Distinct(bk) => Distinct(ReplayNames(bk, blocks))
<1>1. ASSUME NEW bk, NEW b \in NameBlock, Distinct(bk) PROVE Distinct(AbsorbBlock(bk, b))
  <2>1. RowsOf(b.txs) \in Seq(Row) /\ b.names \in Seq(Row)
    BY RowsOfTyped DEF NameBlock
  <2> QED
    BY <1>1, <2>1, AbsorbChainKeeps DEF AbsorbBlock
<1>2. \A bk, blocks : ReplayNames(bk, blocks) = OfBlock!Fold(bk, blocks)
  BY DEF ReplayNames, OfBlock!Fold, FoldLeft, OfBlock!FoldLeft, MapThenFoldSet,
         OfBlock!MapThenFoldSet, Max, OfBlock!Max
<1>3. \A blocks \in Seq(NameBlock) : \A bk : Distinct(bk) => Distinct(OfBlock!Fold(bk, blocks))
  BY <1>1, OfBlock!FoldKeeps
<1> QED
  BY <1>2, <1>3

OfLearnt == INSTANCE FoldTheorems WITH Op <- Learnt, P <- Distinct

LEMMA LearntKeeps ==
    /\ \A t \in Registers : \A bk : Distinct(bk) => Distinct(Learnt(bk, t))
    /\ \A txs \in Seq(Registers) : \A bk : Distinct(bk) => Distinct(LearntAll(bk, txs))
<1>1. \A bk : \A t \in Registers : Distinct(bk) => Distinct(Learnt(bk, t))
  BY RowOfRegister, RememberKeeps DEF Learnt
<1>2. \A bk, txs : LearntAll(bk, txs) = OfLearnt!Fold(bk, txs)
  BY DEF LearntAll, OfLearnt!Fold, FoldLeft, OfLearnt!FoldLeft, MapThenFoldSet,
         OfLearnt!MapThenFoldSet, Max, OfLearnt!Max
<1>3. \A txs \in Seq(Registers) : \A bk : Distinct(bk) => Distinct(OfLearnt!Fold(bk, txs))
  BY <1>1, OfLearnt!FoldKeeps
<1> QED
  BY <1>1, <1>2, <1>3

OfSetRow == INSTANCE FoldTheorems WITH Op <- SetRow, P <- Rows

LEMMA SnapshotTyped ==
    \A txs \in Seq(Registers) : \A bk \in Seq(Row) : Snapshot(bk, txs) \in Seq(Row)
<1>1. \A bk : \A row \in Row : Rows(bk) => Rows(SetRow(bk, row))
  BY SetRowTyped DEF Rows
<1>2. \A bk, txs : Snapshot(bk, txs) = OfSetRow!Fold(bk, RowsOf(txs))
  BY DEF Snapshot, OfSetRow!Fold, FoldLeft, OfSetRow!FoldLeft, MapThenFoldSet,
         OfSetRow!MapThenFoldSet, Max, OfSetRow!Max
<1>3. \A rows \in Seq(Row) : \A bk : Rows(bk) => Rows(OfSetRow!Fold(bk, rows))
  BY <1>1, OfSetRow!FoldKeeps
<1> QED
  BY <1>2, <1>3, RowsOfTyped DEF Rows

OfReserved == INSTANCE FoldTheorems WITH Op <- AddReserved, P <- Rows

OfOther == INSTANCE FoldTheorems WITH Op <- AddOther, P <- Rows

\* names.json holds rows, whatever part of it they are in.
LEMMA FileTyped ==
    ASSUME NEW rows \in Seq(Row)
    PROVE  /\ FoldLeft(AddReserved, << >>, rows) \in Seq(Row)
           /\ FoldLeft(AddOther, << >>, rows) \in Seq(Row)
<1>1. \A a : \A row \in Row : Rows(a) => Rows(AddReserved(a, row)) /\ Rows(AddOther(a, row))
  BY DEF Rows, AddReserved, AddOther
<1>2. /\ FoldLeft(AddReserved, << >>, rows) = OfReserved!Fold(<< >>, rows)
      /\ FoldLeft(AddOther, << >>, rows) = OfOther!Fold(<< >>, rows)
  BY DEF OfReserved!Fold, OfOther!Fold, FoldLeft, OfReserved!FoldLeft, OfOther!FoldLeft,
         MapThenFoldSet, OfReserved!MapThenFoldSet, OfOther!MapThenFoldSet, Max,
         OfReserved!Max, OfOther!Max
<1>3. \A s \in Seq(Row) : \A a : Rows(a) => Rows(OfReserved!Fold(a, s))
  BY <1>1, OfReserved!FoldKeeps
<1>4. \A s \in Seq(Row) : \A a : Rows(a) => Rows(OfOther!Fold(a, s))
  BY <1>1, OfOther!FoldKeeps
<1>5. Rows(<< >>)
  <2>1. << >> \in Seq(Row)
    OBVIOUS
  <2> QED
    BY <2>1 DEF Rows
<1>6. Rows(OfReserved!Fold(<< >>, rows)) /\ Rows(OfOther!Fold(<< >>, rows))
  BY <1>3, <1>4, <1>5
<1> QED
  BY <1>2, <1>6 DEF Rows

LEMMA SavedTyped == \A bk \in Seq(Row) : Saved(bk) \in Seq(Row)
<1> SUFFICES ASSUME NEW bk \in Seq(Row) PROVE Saved(bk) \in Seq(Row)
  OBVIOUS
<1> DEFINE first == FoldLeft(AddReserved, << >>, bk)
           second == FoldLeft(AddOther, << >>, bk)
<1>1. first \in Seq(Row) /\ second \in Seq(Row)
  BY FileTyped
<1>2. Saved(bk) = first \o second
  BY DEF Saved
<1> HIDE DEF first, second
<1> QED
  BY <1>1, <1>2

LEMMA GrantedTyped ==
    ASSUME NEW rows \in Seq(Row), NEW row \in Row PROVE Granted(rows, row) \in Seq(Row)
<1> DEFINE first == FoldLeft(AddReserved, << >>, rows)
           second == FoldLeft(AddOther, << >>, rows)
<1>1. first \in Seq(Row) /\ second \in Seq(Row) /\ SetRow(rows, row) \in Seq(Row)
  BY FileTyped, SetRowTyped
<1>2. Granted(rows, row) = IF Named(rows, row.name) = {} THEN first \o <<row>> \o second
                           ELSE SetRow(rows, row)
  BY DEF Granted
<1> HIDE DEF first, second
<1>3. first \o <<row>> \o second \in Seq(Row)
  BY <1>1
<1> QED
  BY <1>1, <1>2, <1>3

\* What is kept of names: a distinct book, and rows and registers wherever the
\* process may find them again.
NamesInv == NamesTypeOK /\ Distinct(book)

LEMMA NamesTypes ==
    ASSUME NamesInv
    PROVE  /\ book \in Seq(Row) /\ Distinct(book) /\ namesFile \in Seq(Row)
           /\ nameChain \in Seq(NameBlock)
           /\ inHand.txs \in Seq(Registers)
           /\ registers \subseteq Registers /\ registersFile \subseteq Registers
           /\ sending \subseteq Registers /\ taken \subseteq Registers
BY DEF NamesInv, NamesTypeOK, NameBlock

\* A start finds a distinct book, whatever names.json holds.
LEMMA RestoredDistinct ==
    ASSUME NEW rows \in Seq(Row), NEW blocks \in Seq(NameBlock)
    PROVE  Distinct(AbsorbFile(<< >>, rows)) /\ Distinct(Restored(rows, blocks))
<1>1. Distinct(<< >>)
  <2>1. << >> \in Seq(Row) /\ DOMAIN << >> = {}
    OBVIOUS
  <2> QED
    BY <2>1 DEF Distinct
<1>2. Distinct(AbsorbFile(<< >>, rows))
  BY <1>1, AbsorbFileKeeps
<1> QED
  BY <1>2, ReplayNamesKeeps DEF Restored

LEMMA NamesInitInv == ASSUME NamesInit PROVE NamesInv
<1>1. namesFile \in Seq(Row)
  BY NamesAssumption DEF NamesInit
<1>2. << >> \in Seq(NameBlock) /\ << >> \in Seq(Registers)
  OBVIOUS
<1>3. Distinct(book)
  BY <1>1, <1>2, RestoredDistinct DEF NamesInit
<1>4. NoBlock \in [txs : Seq(Registers), local : BOOLEAN, step : {"none", "admitted", "learning"}]
  BY <1>2 DEF NoBlock
<1>5. 0 \in 0..MaxRestarts
  BY NamesAssumption
<1>6. NamesTypeOK
  BY <1>1, <1>2, <1>3, <1>4, <1>5 DEF NamesTypeOK, NamesInit, Distinct, NameBlock
<1> QED
  BY <1>3, <1>6 DEF NamesInv

LEMMA SendKeeps ==
    ASSUME NamesInv, NEW t \in Registers, AdmitSend(t) \/ RememberSend(t) PROVE NamesInv'
<1>1. CASE AdmitSend(t)
  <2>1. Distinct(book')
    BY <1>1, NamesTypes, LearntKeeps DEF AdmitSend
  <2> QED
    BY <1>1, <2>1 DEF AdmitSend, NamesInv, NamesTypeOK, Distinct
<1>2. CASE RememberSend(t)
  <2>1. Distinct(book')
    <3>1. Distinct(Remember(book, RowOf(t), FALSE))
      BY NamesTypes, RowOfRegister, RememberKeeps
    <3> QED
      BY <1>2, <3>1 DEF RememberSend, NamesInv
  <2>2. Saved(book') \in Seq(Row)
    BY <2>1, SavedTyped DEF Distinct
  <2>3. namesFile' \in Seq(Row)
    BY <1>2, <2>2, NamesTypes DEF RememberSend
  <2>4. /\ registers' \subseteq Registers /\ sending' \subseteq Registers
        /\ taken' \subseteq Registers
        /\ UNCHANGED <<registersFile, nameChain, inHand, restarts>>
    BY <1>2, NamesTypes DEF RememberSend
  <2> QED
    BY <2>1, <2>3, <2>4 DEF NamesInv, NamesTypeOK, Distinct
<1> QED
  BY <1>1, <1>2

LEMMA AdmitBlockKeeps ==
    ASSUME NamesInv, NEW local \in BOOLEAN, AdmitBlock(local) PROVE NamesInv'
<1>1. PICK txs \in BlockTxs(local) :
         /\ inHand' = [txs |-> txs, local |-> local, step |-> "admitted"]
         /\ book' = IF local THEN LearntAll(book, txs) ELSE book
  BY DEF AdmitBlock
<1>2. txs \in Seq(Registers)
  <2>1. PICK k \in 0..MaxRegisters : txs \in [1..k -> Registers \ MinedNames(nameChain)]
    BY DEF BlockTxs
  <2> QED
    BY <2>1, NamesAssumption
<1>3. Distinct(book')
  BY <1>1, <1>2, NamesTypes, LearntKeeps
<1>4. inHand' \in [txs : Seq(Registers), local : BOOLEAN, step : {"none", "admitted", "learning"}]
  BY <1>1, <1>2
<1> QED
  BY <1>3, <1>4 DEF AdmitBlock, NamesInv, NamesTypeOK, Distinct

LEMMA StoreBlockKeeps == ASSUME NamesInv, StoreBlock PROVE NamesInv'
<1>1. Snapshot(book, inHand.txs) \in Seq(Row)
  BY NamesTypes, SnapshotTyped
<1>2. nameChain' \in Seq(NameBlock)
  <2> DEFINE b == [txs |-> inHand.txs, names |-> Snapshot(book, inHand.txs)]
  <2>1. b \in NameBlock
    BY <1>1, NamesTypes DEF NameBlock
  <2>2. nameChain' = Append(nameChain, b)
    BY DEF StoreBlock
  <2> HIDE DEF b
  <2> QED
    BY <2>1, <2>2, NamesTypes
<1>3. inHand' \in [txs : Seq(Registers), local : BOOLEAN, step : {"none", "admitted", "learning"}]
  BY DEF StoreBlock, NamesInv, NamesTypeOK
<1>4. ToSet(inHand.txs) \subseteq Registers
  BY NamesTypes DEF ToSet
<1>5. taken' \subseteq Registers
  BY <1>4, NamesTypes DEF StoreBlock
<1> QED
  BY <1>2, <1>3, <1>5 DEF StoreBlock, NamesInv, NamesTypeOK, Distinct, NameBlock

LEMMA LearnNameKeeps == ASSUME NamesInv, LearnName \/ LearnNothing PROVE NamesInv'
<1>1. NoBlock \in [txs : Seq(Registers), local : BOOLEAN, step : {"none", "admitted", "learning"}]
  <2>1. << >> \in Seq(Registers)
    OBVIOUS
  <2> QED
    BY <2>1 DEF NoBlock
<1>2. CASE LearnNothing
  BY <1>1, <1>2 DEF LearnNothing, NamesInv, NamesTypeOK, Distinct
<1>3. CASE LearnName
  <2>1. inHand.txs \in Seq(Registers) /\ inHand.txs # << >>
    BY <1>3, NamesTypes DEF LearnName
  <2>2. Head(inHand.txs) \in Registers /\ Tail(inHand.txs) \in Seq(Registers)
    BY <2>1
  <2>3. Distinct(book')
    BY <1>3, <2>2, NamesTypes, RowOfRegister, RememberKeeps DEF LearnName
  <2>4. inHand' \in [txs : Seq(Registers), local : BOOLEAN, step : {"none", "admitted", "learning"}]
    <3>1. inHand' = [inHand EXCEPT !.txs = Tail(inHand.txs)] \/ inHand' = NoBlock
      BY <1>3 DEF LearnName
    <3> QED
      BY <1>1, <2>2, <3>1 DEF NamesInv, NamesTypeOK
  <2>5. namesFile' \in Seq(Row)
    <3>1. Saved(book') \in Seq(Row)
      BY <2>3, SavedTyped DEF Distinct
    <3> QED
      BY <1>3, <3>1, NamesTypes DEF LearnName
  <2>6. registers' \subseteq Registers /\ registersFile' \subseteq Registers
        /\ sending' = sending /\ nameChain' = nameChain /\ restarts' = restarts
        /\ taken' = taken
    BY <1>3, NamesTypes DEF LearnName
  <2> QED
    BY <2>3, <2>4, <2>5, <2>6 DEF NamesInv, NamesTypeOK, Distinct
<1> QED
  BY <1>2, <1>3

LEMMA RestartNamesKeeps == ASSUME NamesInv, RestartNames PROVE NamesInv'
<1>1. PICK names \in {namesFile, << >>} : namesFile' = names /\ book' = Restored(names, nameChain)
  BY DEF RestartNames
<1>2. << >> \in Seq(Row) /\ << >> \in Seq(Registers)
  OBVIOUS
<1>3. names \in Seq(Row)
  BY <1>1, <1>2, NamesTypes
<1>4. Distinct(book')
  BY <1>1, <1>3, NamesTypes, RestoredDistinct
<1>5. NoBlock \in [txs : Seq(Registers), local : BOOLEAN, step : {"none", "admitted", "learning"}]
  BY <1>2 DEF NoBlock
<1>6. restarts' \in 0..MaxRestarts
  <2>1. restarts < MaxRestarts /\ restarts' = restarts + 1
    BY Zenon DEF RestartNames
  <2>2. MaxRestarts \in Nat /\ restarts \in 0..MaxRestarts
    BY NamesAssumption DEF NamesInv, NamesTypeOK
  <2> QED
    BY <2>1, <2>2
<1>7. registers' \subseteq Registers /\ registersFile' \subseteq Registers
  BY NamesTypes DEF RestartNames, Reloaded
<1> QED
  BY <1>1, <1>3, <1>4, <1>5, <1>6, <1>7 DEF RestartNames, NamesInv, NamesTypeOK, Distinct

LEMMA RewindKeeps == ASSUME NamesInv, Rewind PROVE NamesInv'
<1>1. PICK h \in 0..(Len(nameChain) - 1) :
         /\ nameChain' = SubSeq(nameChain, 1, h)
         /\ book' = ReplayNames(book, nameChain')
  BY DEF Rewind
<1>2. nameChain' \in Seq(NameBlock)
  BY <1>1, NamesTypes
<1>3. Distinct(book')
  BY <1>1, <1>2, NamesTypes, ReplayNamesKeeps
<1>4. restarts' \in 0..MaxRestarts
  <2>1. restarts < MaxRestarts /\ restarts' = restarts + 1
    BY Zenon DEF Rewind
  <2>2. MaxRestarts \in Nat /\ restarts \in 0..MaxRestarts
    BY NamesAssumption DEF NamesInv, NamesTypeOK
  <2> QED
    BY <2>1, <2>2
<1>5. registers' \subseteq Registers /\ registersFile' \subseteq Registers
  BY NamesTypes DEF Rewind, Reloaded
<1>6. /\ namesFile' = namesFile
      /\ sending' = sending
      /\ inHand' = inHand
      /\ taken' = taken
  BY Zenon DEF Rewind
<1>7. book' \in Seq(Row)
  BY <1>3 DEF Distinct
<1>8. NamesTypeOK'
  BY <1>2, <1>4, <1>5, <1>6, <1>7 DEF NamesInv, NamesTypeOK, NameBlock
<1> QED
  BY <1>3, <1>8 DEF NamesInv

LEMMA FileKeeps ==
    ASSUME NamesInv, ReloadNames \/ \E t \in Registers : WriteGrant(t) PROVE NamesInv'
<1>1. CASE ReloadNames
  <2>1. Distinct(book')
    BY <1>1, NamesTypes, AbsorbFileKeeps DEF ReloadNames
  <2> QED
    BY <1>1, <2>1 DEF ReloadNames, NamesInv, NamesTypeOK, Distinct
<1>2. ASSUME NEW t \in Registers, WriteGrant(t) PROVE NamesInv'
  <2>1. namesFile' \in Seq(Row)
    BY <1>2, NamesTypes, RowOfRegister, GrantedTyped DEF WriteGrant
  <2> QED
    BY <1>2, <2>1 DEF WriteGrant, NamesInv, NamesTypeOK, Distinct
<1> QED
  BY <1>1, <1>2

LEMMA NamesNextKeeps == ASSUME NamesInv, [NamesNext]_nameVars PROVE NamesInv'
<1>1. CASE UNCHANGED nameVars
  BY <1>1 DEF nameVars, NamesInv, NamesTypeOK, Distinct
<1> QED
  BY <1>1, SendKeeps, AdmitBlockKeeps, StoreBlockKeeps, LearnNameKeeps, RestartNamesKeeps,
     RewindKeeps, FileKeeps DEF NamesNext

\* The invariant of the names: the book is distinct, and what it may be made
\* from again has its type.
THEOREM NamesInvariant == NamesSpec => []NamesInv
BY NamesInitInv, NamesNextKeeps, PTL DEF NamesSpec

\* The book, the file, the blocks and what is in hand keep their types.
THEOREM NamesTypeCorrect == NamesSpec => []NamesTypeOK
<1>1. NamesInv => NamesTypeOK
  BY DEF NamesInv
<1> QED
  BY <1>1, NamesInvariant, PTL

\* The book never gives a name two addresses or an address two names, whatever
\* sends race, blocks overwrite and files a start finds.
THEOREM NamesOneToOne == NamesSpec => []BookOneToOne
<1>1. NamesInv => BookOneToOne
  BY DEF NamesInv, Distinct, BookOneToOne
<1> QED
  BY <1>1, NamesInvariant, PTL

-----------------------------------------------------------------------------
(* What the folds of the book keep and add *)

\* A row that has not the name of r and another address, or the reverse.
Agrees(x, r) == x.name = r.name <=> x.addr = r.addr

\* Rows that agree and share a name are one.
LEMMA AgreeingRows == \A x, r \in Row : Agrees(x, r) /\ x.name = r.name => x = r
BY DEF Agrees, Row

\* The rows of a book, with one row more.
LEMMA RowsAppend ==
    ASSUME NEW S, NEW s \in Seq(S), NEW x \in S
    PROVE  /\ ToSet(Append(s, x)) = ToSet(s) \union {x}
           /\ ToSet(s) \subseteq S /\ Append(s, x) \in Seq(S)
<1>1. /\ Len(s) \in Nat /\ DOMAIN s = 1..Len(s) /\ Append(s, x) \in Seq(S)
      /\ DOMAIN Append(s, x) = 1..(Len(s) + 1)
      /\ \A i \in 1..Len(s) : Append(s, x)[i] = s[i] /\ s[i] \in S
      /\ Append(s, x)[Len(s) + 1] = x
  OBVIOUS
<1>2. \A i \in 1..(Len(s) + 1) : i \in 1..Len(s) \/ i = Len(s) + 1
  BY <1>1
<1>3. Len(s) + 1 \in 1..(Len(s) + 1) /\ 1..Len(s) \subseteq 1..(Len(s) + 1)
  BY <1>1
<1> QED
  BY <1>1, <1>2, <1>3 DEF ToSet

\* What setting a row does to the rows.
LEMMA SetRowRows ==
    ASSUME NEW bk \in Seq(Row), NEW row \in Row
    PROVE  /\ row \in ToSet(SetRow(bk, row))
           /\ ToSet(SetRow(bk, row)) \subseteq ToSet(bk) \union {row}
           /\ \A r \in ToSet(bk) : r.name # row.name => r \in ToSet(SetRow(bk, row))
<1>1. CASE Named(bk, row.name) = {}
  BY <1>1, RowsAppend DEF SetRow
<1>2. CASE Named(bk, row.name) # {}
  <2> DEFINE new == [i \in DOMAIN bk |-> IF i \in Named(bk, row.name) THEN row ELSE bk[i]]
  <2>1. SetRow(bk, row) = new /\ DOMAIN new = DOMAIN bk
    BY <1>2 DEF SetRow
  <2>2. PICK k \in DOMAIN bk : k \in Named(bk, row.name)
    BY <1>2 DEF Named
  <2>3. new[k] = row
    BY <2>2
  <2>4. \A i \in DOMAIN bk : new[i] = row \/ new[i] = bk[i]
    OBVIOUS
  <2>5. \A i \in DOMAIN bk : bk[i].name # row.name => new[i] = bk[i]
    BY DEF Named
  <2> HIDE DEF new
  <2> QED
    BY <2>1, <2>2, <2>3, <2>4, <2>5 DEF ToSet
<1> QED
  BY <1>1, <1>2

\* What remember_name does to the rows.
LEMMA RememberRows ==
    ASSUME NEW bk \in Seq(Row), NEW row \in Row, NEW overwrite \in BOOLEAN
    PROVE  /\ Remember(bk, row, overwrite) \in Seq(Row)
           /\ ToSet(Remember(bk, row, overwrite)) \subseteq ToSet(bk) \union {row}
           /\ \A r \in ToSet(bk) :
                ~overwrite \/ Agrees(row, r) => r \in ToSet(Remember(bk, row, overwrite))
           /\ (\A x \in ToSet(bk) : Agrees(x, row)) => row \in ToSet(Remember(bk, row, overwrite))
<1>1. Remember(bk, row, overwrite) \in {bk, SetRow(bk, row)}
  BY DEF Remember
<1>2. Remember(bk, row, overwrite) \in Seq(Row)
  BY <1>1, SetRowTyped
<1>3. ToSet(Remember(bk, row, overwrite)) \subseteq ToSet(bk) \union {row}
  BY <1>1, SetRowRows
<1>4. \A r \in ToSet(bk) : r \in Row /\ \E i \in DOMAIN bk : bk[i] = r
  BY DEF ToSet
<1>5. ASSUME NEW r \in ToSet(bk), ~overwrite \/ Agrees(row, r)
      PROVE  r \in ToSet(Remember(bk, row, overwrite))
  <2>1. CASE ~Accepts(bk, row, overwrite)
    BY <2>1 DEF Remember
  <2>2. CASE Accepts(bk, row, overwrite) /\ r.name # row.name
    BY <2>2, SetRowRows DEF Remember
  <2>3. CASE Accepts(bk, row, overwrite) /\ r.name = row.name
    <3>1. r.addr = row.addr
      <4>1. CASE overwrite
        BY <1>5, <2>3, <4>1 DEF Agrees
      <4>2. CASE ~overwrite
        BY <1>4, <2>3, <4>2 DEF Accepts, Named
      <4> QED
        BY <4>1, <4>2
    <3>2. r = row
      BY <1>4, <2>3, <3>1 DEF Row
    <3> QED
      BY <2>3, <3>2, SetRowRows DEF Remember
  <2> QED
    BY <2>1, <2>2, <2>3
<1>6. ASSUME \A x \in ToSet(bk) : Agrees(x, row)
      PROVE  row \in ToSet(Remember(bk, row, overwrite))
  <2>1. \A i \in DOMAIN bk : bk[i].name = row.name <=> bk[i].addr = row.addr
    BY <1>6 DEF ToSet, Agrees
  <2>2. Accepts(bk, row, overwrite)
    BY <2>1 DEF Accepts, AddressFree, Owned, Named
  <2> QED
    BY <2>2, SetRowRows DEF Remember
<1> QED
  BY <1>2, <1>3, <1>5, <1>6


\* A book made of bk by rows that took nothing from it.
Grows(new, bk, rows) ==
    /\ new \in Seq(Row)
    /\ ToSet(bk) \subseteq ToSet(new)
    /\ ToSet(new) \subseteq ToSet(bk) \union rows

LEMMA GrowsBoth ==
    ASSUME NEW bk, NEW mid, NEW new, NEW R1, NEW R2,
           Grows(mid, bk, R1), Grows(new, mid, R2)
    PROVE  Grows(new, bk, R1 \union R2)
<1> DEFINE B == ToSet(bk)
           M == ToSet(mid)
           N == ToSet(new)
<1>1. new \in Seq(Row) /\ B \subseteq M /\ M \subseteq B \union R1 /\ M \subseteq N /\ N \subseteq M \union R2
  BY DEF Grows
<1> HIDE DEF B, M, N
<1>2. B \subseteq N /\ N \subseteq B \union (R1 \union R2)
  BY <1>1
<1> QED
  BY <1>1, <1>2 DEF Grows, B, N

LEMMA GrowsNot == \A bk \in Seq(Row) : \A rows : Grows(bk, bk, rows)
BY DEF Grows

\* A row that is remembered without overwriting.
LEMMA RememberGrows ==
    ASSUME NEW bk \in Seq(Row), NEW row \in Row
    PROVE  Grows(Remember(bk, row, FALSE), bk, {row})
<1> DEFINE new == Remember(bk, row, FALSE)
<1>1. /\ new \in Seq(Row) /\ ToSet(new) \subseteq ToSet(bk) \union {row}
      /\ \A r \in ToSet(bk) : r \in ToSet(new)
  BY RememberRows
<1> HIDE DEF new
<1>2. Grows(new, bk, {row})
  BY <1>1 DEF Grows
<1> QED
  BY <1>2 DEF new

FileAbsorbs(rows) == \A bk \in Seq(Row) : Grows(AbsorbFile(bk, rows), bk, ToSet(rows))

RowsOfNew == INSTANCE FoldTheorems WITH Op <- RememberNew, P <- FileAbsorbs

\* Rows of names.json take nothing from a book.
LEMMA FileAbsorbed == \A rows \in Seq(Row) : FileAbsorbs(rows)
<1>1. \A bk, rows : AbsorbFile(bk, rows) = RowsOfNew!Fold(bk, rows)
  BY DEF AbsorbFile, RowsOfNew!Fold, FoldLeft, RowsOfNew!FoldLeft, MapThenFoldSet,
         RowsOfNew!MapThenFoldSet, Max, RowsOfNew!Max
<1>2. FileAbsorbs(<< >>)
  <2>1. \A bk : AbsorbFile(bk, << >>) = bk
    BY <1>1, RowsOfNew!FoldEmpty
  <2> QED
    BY <2>1, GrowsNot DEF FileAbsorbs
<1>3. ASSUME NEW rows \in Seq(Row), NEW row \in Row, FileAbsorbs(rows)
      PROVE  FileAbsorbs(Append(rows, row))
  <2> SUFFICES ASSUME NEW bk \in Seq(Row)
               PROVE  Grows(AbsorbFile(bk, Append(rows, row)), bk, ToSet(Append(rows, row)))
    BY DEF FileAbsorbs
  <2> DEFINE mid == AbsorbFile(bk, rows)
  <2>1. AbsorbFile(bk, Append(rows, row)) = Remember(mid, row, FALSE)
    BY <1>1, RowsOfNew!FoldAppend DEF RememberNew
  <2>2. Grows(mid, bk, ToSet(rows))
    BY <1>3 DEF FileAbsorbs
  <2>3. mid \in Seq(Row)
    BY <2>2 DEF Grows
  <2> DEFINE new == Remember(mid, row, FALSE)
  <2> HIDE DEF mid
  <2>4. Grows(new, mid, {row})
    BY <2>3, RememberGrows
  <2> HIDE DEF new
  <2>5. Grows(new, bk, ToSet(rows) \union {row})
    BY <2>2, <2>4, GrowsBoth
  <2>6. ToSet(Append(rows, row)) = ToSet(rows) \union {row}
    BY RowsAppend
  <2>7. AbsorbFile(bk, Append(rows, row)) = new
    BY <2>1 DEF new
  <2> QED
    BY <2>5, <2>6, <2>7
<1> QED
  BY <1>2, <1>3, RowsOfNew!SeqInduction

\* What a book made of bk by rows may hold, keeps and finds: a row no row disputes
\* stays, and one that is sought is there.
Takes(new, bk, rows, sought) ==
    /\ new \in Seq(Row)
    /\ ToSet(new) \subseteq ToSet(bk) \union rows
    /\ \A r \in ToSet(bk) : (\A x \in rows : Agrees(x, r)) => r \in ToSet(new)
    /\ \A r \in sought : (\A x \in ToSet(bk) \union rows : Agrees(x, r)) => r \in ToSet(new)

LEMMA TakesBoth ==
    ASSUME NEW bk, NEW mid, NEW new, NEW R1, NEW R2, NEW S1, NEW S2,
           Takes(mid, bk, R1, S1), Takes(new, mid, R2, S2)
    PROVE  Takes(new, bk, R1 \union R2, S1 \union S2)
<1> DEFINE B == ToSet(bk)
           M == ToSet(mid)
           N == ToSet(new)
<1>1. /\ M \subseteq B \union R1
      /\ \A r \in B : (\A x \in R1 : Agrees(x, r)) => r \in M
      /\ \A r \in S1 : (\A x \in B \union R1 : Agrees(x, r)) => r \in M
  BY DEF Takes
<1>2. /\ N \subseteq M \union R2
      /\ \A r \in M : (\A x \in R2 : Agrees(x, r)) => r \in N
      /\ \A r \in S2 : (\A x \in M \union R2 : Agrees(x, r)) => r \in N
  BY DEF Takes
<1>3. new \in Seq(Row)
  BY DEF Takes
<1> HIDE DEF B, M, N
<1>4. N \subseteq B \union (R1 \union R2)
  BY <1>1, <1>2
<1>5. \A r \in B : (\A x \in R1 \union R2 : Agrees(x, r)) => r \in N
  BY <1>1, <1>2
<1>6. \A r \in S1 : (\A x \in B \union (R1 \union R2) : Agrees(x, r)) => r \in N
  BY <1>1, <1>2
<1>7. \A r \in S2 : (\A x \in B \union (R1 \union R2) : Agrees(x, r)) => r \in N
  BY <1>1, <1>2
<1> QED
  BY <1>3, <1>4, <1>5, <1>6, <1>7 DEF Takes, B, N

LEMMA TakesNothing == \A bk \in Seq(Row) : Takes(bk, bk, {}, {})
BY DEF Takes

LEMMA TakesFewer ==
    \A new, bk, rows, sought, fewer :
      Takes(new, bk, rows, sought) /\ fewer \subseteq sought => Takes(new, bk, rows, fewer)
BY DEF Takes

ChainAbsorbs(rows) == \A bk \in Seq(Row) : Takes(AbsorbChain(bk, rows), bk, ToSet(rows), ToSet(rows))

RowsOfOver == INSTANCE FoldTheorems WITH Op <- RememberOver, P <- ChainAbsorbs

LEMMA ChainAbsorbed == \A rows \in Seq(Row) : ChainAbsorbs(rows)
<1>1. \A bk, rows : AbsorbChain(bk, rows) = RowsOfOver!Fold(bk, rows)
  BY DEF AbsorbChain, RowsOfOver!Fold, FoldLeft, RowsOfOver!FoldLeft, MapThenFoldSet,
         RowsOfOver!MapThenFoldSet, Max, RowsOfOver!Max
<1>2. ChainAbsorbs(<< >>)
  <2>1. \A bk : AbsorbChain(bk, << >>) = bk
    BY <1>1, RowsOfOver!FoldEmpty
  <2>2. ToSet(<< >>) = {}
    BY DEF ToSet
  <2> QED
    BY <2>1, <2>2, TakesNothing DEF ChainAbsorbs
<1>3. ASSUME NEW rows \in Seq(Row), NEW row \in Row, ChainAbsorbs(rows)
      PROVE  ChainAbsorbs(Append(rows, row))
  <2> SUFFICES ASSUME NEW bk \in Seq(Row)
               PROVE  Takes(AbsorbChain(bk, Append(rows, row)), bk, ToSet(Append(rows, row)),
                            ToSet(Append(rows, row)))
    BY DEF ChainAbsorbs
  <2> DEFINE mid == AbsorbChain(bk, rows)
             new == Remember(mid, row, TRUE)
  <2>1. AbsorbChain(bk, Append(rows, row)) = new
    BY <1>1, RowsOfOver!FoldAppend DEF RememberOver
  <2>2. Takes(mid, bk, ToSet(rows), ToSet(rows))
    BY <1>3 DEF ChainAbsorbs
  <2>3. ToSet(Append(rows, row)) = ToSet(rows) \union {row}
    BY RowsAppend
  <2>4. mid \in Seq(Row)
    BY <2>2 DEF Takes
  <2> HIDE DEF mid
  <2>5. Takes(new, mid, {row}, {row})
    <3>1. /\ new \in Seq(Row)
          /\ ToSet(new) \subseteq ToSet(mid) \union {row}
          /\ \A r \in ToSet(mid) : Agrees(row, r) => r \in ToSet(new)
          /\ (\A x \in ToSet(mid) : Agrees(x, row)) => row \in ToSet(new)
      BY <2>4, RememberRows
    <3> HIDE DEF new
    <3> QED
      BY <3>1 DEF Takes
  <2> HIDE DEF new
  <2> QED
    BY <2>1, <2>2, <2>3, <2>5, TakesBoth
<1> QED
  BY <1>2, <1>3, RowsOfOver!SeqInduction

\* What a block says of names.
BlockRows(b) == RowsIn(ToSet(b.txs)) \union ToSet(b.names)

LEMMA RowsOfRows == \A txs \in Seq(Registers) : ToSet(RowsOf(txs)) = RowsIn(ToSet(txs))
BY DEF RowsOf, RowsIn, ToSet

LEMMA BlockTakes ==
    ASSUME NEW b \in NameBlock, NEW bk \in Seq(Row)
    PROVE  Takes(AbsorbBlock(bk, b), bk, BlockRows(b), RowsIn(ToSet(b.txs)))
<1>1. RowsOf(b.txs) \in Seq(Row) /\ b.names \in Seq(Row) /\ b.txs \in Seq(Registers)
  BY RowsOfTyped DEF NameBlock
<1> DEFINE mid == AbsorbChain(bk, RowsOf(b.txs))
<1>2. Takes(mid, bk, RowsIn(ToSet(b.txs)), RowsIn(ToSet(b.txs)))
  BY <1>1, ChainAbsorbed, RowsOfRows DEF ChainAbsorbs
<1>3. mid \in Seq(Row)
  BY <1>2 DEF Takes
<1> HIDE DEF mid
<1>4. Takes(AbsorbChain(mid, b.names), mid, ToSet(b.names), ToSet(b.names))
  BY <1>1, <1>3, ChainAbsorbed DEF ChainAbsorbs
<1>5. AbsorbBlock(bk, b) = AbsorbChain(mid, b.names)
  BY DEF AbsorbBlock, mid
<1>6. Takes(AbsorbBlock(bk, b), bk, BlockRows(b), RowsIn(ToSet(b.txs)) \union ToSet(b.names))
  BY <1>2, <1>4, <1>5, TakesBoth DEF BlockRows
<1> QED
  BY <1>6, TakesFewer

\* A chain with one block more has its registers and its rows too.
LEMMA ChainAppend ==
    ASSUME NEW blocks \in Seq(NameBlock), NEW b \in NameBlock
    PROVE  /\ MinedNames(Append(blocks, b)) = MinedNames(blocks) \union ToSet(b.txs)
           /\ ChainRows(Append(blocks, b)) = ChainRows(blocks) \union BlockRows(b)
<1>1. ToSet(Append(blocks, b)) = ToSet(blocks) \union {b}
  BY RowsAppend
<1>2. MinedNames(Append(blocks, b)) = MinedNames(blocks) \union ToSet(b.txs)
  BY <1>1 DEF MinedNames
<1> DEFINE snaps(S) == UNION {ToSet(c.names) : c \in S}
<1>3. \A S : snaps(S \union {b}) = snaps(S) \union ToSet(b.names)
  OBVIOUS
<1>4. RowsIn(MinedNames(blocks) \union ToSet(b.txs)) = RowsIn(MinedNames(blocks)) \union RowsIn(ToSet(b.txs))
  BY DEF RowsIn
<1>5. \A c : ChainRows(c) = RowsIn(MinedNames(c)) \union snaps(ToSet(c))
  BY DEF ChainRows
<1> HIDE DEF snaps
<1>6. snaps(ToSet(Append(blocks, b))) = snaps(ToSet(blocks)) \union ToSet(b.names)
  BY <1>1, <1>3
<1>7. RowsIn(MinedNames(Append(blocks, b))) = RowsIn(MinedNames(blocks)) \union RowsIn(ToSet(b.txs))
  BY <1>2, <1>4
<1>8. /\ ChainRows(Append(blocks, b))
           = RowsIn(MinedNames(Append(blocks, b))) \union snaps(ToSet(Append(blocks, b)))
      /\ ChainRows(blocks) = RowsIn(MinedNames(blocks)) \union snaps(ToSet(blocks))
  BY <1>5
<1>9. ChainRows(Append(blocks, b)) = ChainRows(blocks) \union BlockRows(b)
  BY <1>6, <1>7, <1>8 DEF BlockRows
<1> QED
  BY <1>2, <1>9

ReplayTakes(blocks) ==
    \A bk \in Seq(Row) :
      Takes(ReplayNames(bk, blocks), bk, ChainRows(blocks), RowsIn(MinedNames(blocks)))

RowsOfBlocks == INSTANCE FoldTheorems WITH Op <- AbsorbBlock, P <- ReplayTakes

LEMMA ReplayTaken == \A blocks \in Seq(NameBlock) : ReplayTakes(blocks)
<1>1. \A bk, blocks : ReplayNames(bk, blocks) = RowsOfBlocks!Fold(bk, blocks)
  BY DEF ReplayNames, RowsOfBlocks!Fold, FoldLeft, RowsOfBlocks!FoldLeft, MapThenFoldSet,
         RowsOfBlocks!MapThenFoldSet, Max, RowsOfBlocks!Max
<1>2. ReplayTakes(<< >>)
  <2>1. \A bk : ReplayNames(bk, << >>) = bk
    BY <1>1, RowsOfBlocks!FoldEmpty
  <2>2. ToSet(<< >>) = {}
    BY DEF ToSet
  <2>3. MinedNames(<< >>) = {}
    BY <2>2 DEF MinedNames
  <2>4. RowsIn({}) = {}
    BY DEF RowsIn
  <2>5. ChainRows(<< >>) = {}
    BY <2>2, <2>3, <2>4 DEF ChainRows
  <2> QED
    BY <2>1, <2>3, <2>4, <2>5, TakesNothing DEF ReplayTakes
<1>3. ASSUME NEW blocks \in Seq(NameBlock), NEW b \in NameBlock, ReplayTakes(blocks)
      PROVE  ReplayTakes(Append(blocks, b))
  <2> SUFFICES ASSUME NEW bk \in Seq(Row)
               PROVE  Takes(ReplayNames(bk, Append(blocks, b)), bk, ChainRows(Append(blocks, b)),
                            RowsIn(MinedNames(Append(blocks, b))))
    BY DEF ReplayTakes
  <2> DEFINE mid == ReplayNames(bk, blocks)
             new == AbsorbBlock(mid, b)
  <2>1. ReplayNames(bk, Append(blocks, b)) = new
    BY <1>1, RowsOfBlocks!FoldAppend
  <2>2. Takes(mid, bk, ChainRows(blocks), RowsIn(MinedNames(blocks)))
    BY <1>3 DEF ReplayTakes
  <2>3. mid \in Seq(Row)
    BY <2>2 DEF Takes
  <2> HIDE DEF mid
  <2>4. Takes(new, mid, BlockRows(b), RowsIn(ToSet(b.txs)))
    BY <2>3, BlockTakes
  <2> HIDE DEF new
  <2>5. Takes(new, bk, ChainRows(blocks) \union BlockRows(b),
              RowsIn(MinedNames(blocks)) \union RowsIn(ToSet(b.txs)))
    BY <2>2, <2>4, TakesBoth
  <2>6. RowsIn(MinedNames(blocks) \union ToSet(b.txs))
          = RowsIn(MinedNames(blocks)) \union RowsIn(ToSet(b.txs))
    BY DEF RowsIn
  <2> QED
    BY <2>1, <2>5, <2>6, ChainAppend
<1> QED
  BY <1>2, <1>3, RowsOfBlocks!SeqInduction

-----------------------------------------------------------------------------
(* What a grant, a snapshot and a save add *)

\* Admission remembers only what names.json grants.
LEMMA LearntGrows ==
    ASSUME NEW bk \in Seq(Row), NEW t \in Registers PROVE Grows(Learnt(bk, t), bk, GrantRows)
<1>1. CASE NameOf[t] \in Reserved
  <2>1. RowOf(t) \in Row /\ RowOf(t) \in GrantRows
    BY <1>1, RowOfRegister DEF GrantRows, RowsIn
  <2>2. Grows(Remember(bk, RowOf(t), FALSE), bk, {RowOf(t)})
    BY <2>1, RememberGrows
  <2>3. Learnt(bk, t) = Remember(bk, RowOf(t), FALSE)
    BY <1>1 DEF Learnt
  <2> QED
    BY <2>1, <2>2, <2>3 DEF Grows
<1>2. CASE NameOf[t] \notin Reserved
  BY <1>2, GrowsNot DEF Learnt
<1> QED
  BY <1>1, <1>2

LearntGrow(txs) == \A bk \in Seq(Row) : Grows(LearntAll(bk, txs), bk, GrantRows)

RowsOfLearnt == INSTANCE FoldTheorems WITH Op <- Learnt, P <- LearntGrow

LEMMA LearntAllGrows == \A txs \in Seq(Registers) : LearntGrow(txs)
<1>1. \A bk, txs : LearntAll(bk, txs) = RowsOfLearnt!Fold(bk, txs)
  BY DEF LearntAll, RowsOfLearnt!Fold, FoldLeft, RowsOfLearnt!FoldLeft, MapThenFoldSet,
         RowsOfLearnt!MapThenFoldSet, Max, RowsOfLearnt!Max
<1>2. LearntGrow(<< >>)
  <2>1. \A bk : LearntAll(bk, << >>) = bk
    BY <1>1, RowsOfLearnt!FoldEmpty
  <2> QED
    BY <2>1, GrowsNot DEF LearntGrow
<1>3. ASSUME NEW txs \in Seq(Registers), NEW t \in Registers, LearntGrow(txs)
      PROVE  LearntGrow(Append(txs, t))
  <2> SUFFICES ASSUME NEW bk \in Seq(Row) PROVE Grows(LearntAll(bk, Append(txs, t)), bk, GrantRows)
    BY DEF LearntGrow
  <2> DEFINE mid == LearntAll(bk, txs)
  <2>1. LearntAll(bk, Append(txs, t)) = Learnt(mid, t)
    BY <1>1, RowsOfLearnt!FoldAppend
  <2>2. Grows(mid, bk, GrantRows)
    BY <1>3 DEF LearntGrow
  <2>3. mid \in Seq(Row)
    BY <2>2 DEF Grows
  <2> HIDE DEF mid
  <2>4. Grows(Learnt(mid, t), mid, GrantRows)
    BY <2>3, LearntGrows
  <2>5. Grows(Learnt(mid, t), bk, GrantRows \union GrantRows)
    BY <2>2, <2>4, GrowsBoth
  <2> QED
    BY <2>1, <2>5
<1> QED
  BY <1>2, <1>3, RowsOfLearnt!SeqInduction

SetAll(bk, rows) == FoldLeft(SetRow, bk, rows)

SetAllRows(rows) ==
    \A bk \in Seq(Row) : /\ SetAll(bk, rows) \in Seq(Row)
                         /\ ToSet(SetAll(bk, rows)) \subseteq ToSet(bk) \union ToSet(rows)

RowsOfSetRow == INSTANCE FoldTheorems WITH Op <- SetRow, P <- SetAllRows

\* A snapshot has the rows of the book and of the block.
LEMMA SnapshotRows ==
    ASSUME NEW bk \in Seq(Row), NEW txs \in Seq(Registers)
    PROVE  ToSet(Snapshot(bk, txs)) \subseteq ToSet(bk) \union RowsIn(ToSet(txs))
<1>1. \A b, rows : SetAll(b, rows) = RowsOfSetRow!Fold(b, rows)
  BY DEF SetAll, RowsOfSetRow!Fold, FoldLeft, RowsOfSetRow!FoldLeft, MapThenFoldSet,
         RowsOfSetRow!MapThenFoldSet, Max, RowsOfSetRow!Max
<1>2. SetAllRows(<< >>)
  <2>1. \A b : SetAll(b, << >>) = b
    BY <1>1, RowsOfSetRow!FoldEmpty
  <2> QED
    BY <2>1 DEF SetAllRows
<1>3. ASSUME NEW rows \in Seq(Row), NEW row \in Row, SetAllRows(rows)
      PROVE  SetAllRows(Append(rows, row))
  <2> SUFFICES ASSUME NEW b \in Seq(Row)
               PROVE  /\ SetAll(b, Append(rows, row)) \in Seq(Row)
                      /\ ToSet(SetAll(b, Append(rows, row))) \subseteq ToSet(b) \union ToSet(Append(rows, row))
    BY DEF SetAllRows
  <2> DEFINE mid == SetAll(b, rows)
  <2>1. SetAll(b, Append(rows, row)) = SetRow(mid, row)
    BY <1>1, RowsOfSetRow!FoldAppend
  <2>2. mid \in Seq(Row) /\ ToSet(mid) \subseteq ToSet(b) \union ToSet(rows)
    BY <1>3 DEF SetAllRows
  <2> HIDE DEF mid
  <2>3. SetRow(mid, row) \in Seq(Row) /\ ToSet(SetRow(mid, row)) \subseteq ToSet(mid) \union {row}
    BY <2>2, SetRowTyped, SetRowRows
  <2>4. ToSet(Append(rows, row)) = ToSet(rows) \union {row}
    BY RowsAppend
  <2> QED
    BY <2>1, <2>2, <2>3, <2>4
<1>4. \A rows \in Seq(Row) : SetAllRows(rows)
  BY <1>2, <1>3, RowsOfSetRow!SeqInduction
<1>5. Snapshot(bk, txs) = SetAll(bk, RowsOf(txs))
  BY DEF Snapshot, SetAll
<1> QED
  BY <1>4, <1>5, RowsOfTyped, RowsOfRows DEF SetAllRows

PartsFewer(rows) ==
    /\ FoldLeft(AddReserved, << >>, rows) \in Seq(Row)
    /\ FoldLeft(AddOther, << >>, rows) \in Seq(Row)
    /\ ToSet(FoldLeft(AddReserved, << >>, rows)) \subseteq ToSet(rows)
    /\ ToSet(FoldLeft(AddOther, << >>, rows)) \subseteq ToSet(rows)

RowsOfReserved == INSTANCE FoldTheorems WITH Op <- AddReserved, P <- PartsFewer
RowsOfOther == INSTANCE FoldTheorems WITH Op <- AddOther, P <- PartsFewer

\* The two parts of names.json have only the rows of the book.
LEMMA PartsRows == \A rows \in Seq(Row) : PartsFewer(rows)
<1> DEFINE first(rows) == FoldLeft(AddReserved, << >>, rows)
           second(rows) == FoldLeft(AddOther, << >>, rows)
<1>1. \A rows : first(rows) = RowsOfReserved!Fold(<< >>, rows) /\ second(rows) = RowsOfOther!Fold(<< >>, rows)
  BY DEF RowsOfReserved!Fold, RowsOfOther!Fold, FoldLeft, RowsOfReserved!FoldLeft,
         RowsOfOther!FoldLeft, MapThenFoldSet, RowsOfReserved!MapThenFoldSet,
         RowsOfOther!MapThenFoldSet, Max, RowsOfReserved!Max, RowsOfOther!Max
<1>2. \A rows : PartsFewer(rows) <=> /\ first(rows) \in Seq(Row) /\ second(rows) \in Seq(Row)
                                     /\ ToSet(first(rows)) \subseteq ToSet(rows)
                                     /\ ToSet(second(rows)) \subseteq ToSet(rows)
  BY DEF PartsFewer
<1> HIDE DEF first, second
<1>3. PartsFewer(<< >>)
  <2>1. first(<< >>) = << >> /\ second(<< >>) = << >>
    BY <1>1, RowsOfReserved!FoldEmpty, RowsOfOther!FoldEmpty
  <2>2. << >> \in Seq(Row)
    OBVIOUS
  <2> QED
    BY <1>2, <2>1, <2>2
<1>4. ASSUME NEW rows \in Seq(Row), NEW row \in Row, PartsFewer(rows)
      PROVE  PartsFewer(Append(rows, row))
  <2>1. first(Append(rows, row)) = AddReserved(first(rows), row)
    BY <1>1, RowsOfReserved!FoldAppend
  <2>2. second(Append(rows, row)) = AddOther(second(rows), row)
    BY <1>1, RowsOfOther!FoldAppend
  <2>3. first(Append(rows, row)) \in {first(rows), Append(first(rows), row)}
    BY <2>1 DEF AddReserved
  <2>4. second(Append(rows, row)) \in {second(rows), Append(second(rows), row)}
    BY <2>2 DEF AddOther
  <2>5. /\ first(rows) \in Seq(Row) /\ second(rows) \in Seq(Row)
        /\ ToSet(first(rows)) \subseteq ToSet(rows) /\ ToSet(second(rows)) \subseteq ToSet(rows)
    BY <1>2, <1>4
  <2>6. /\ ToSet(Append(rows, row)) = ToSet(rows) \union {row}
        /\ ToSet(Append(first(rows), row)) = ToSet(first(rows)) \union {row}
        /\ ToSet(Append(second(rows), row)) = ToSet(second(rows)) \union {row}
        /\ Append(first(rows), row) \in Seq(Row) /\ Append(second(rows), row) \in Seq(Row)
    BY <2>5, RowsAppend
  <2> QED
    BY <1>2, <2>3, <2>4, <2>5, <2>6
<1> QED
  BY <1>3, <1>4, RowsOfReserved!SeqInduction

LEMMA RowsConcat ==
    ASSUME NEW a \in Seq(Row), NEW b \in Seq(Row)
    PROVE  a \o b \in Seq(Row) /\ ToSet(a \o b) \subseteq ToSet(a) \union ToSet(b)
<1>1. /\ a \o b \in Seq(Row) /\ Len(a) \in Nat /\ Len(b) \in Nat
      /\ DOMAIN a = 1..Len(a) /\ DOMAIN b = 1..Len(b) /\ DOMAIN (a \o b) = 1..(Len(a) + Len(b))
  OBVIOUS
<1>2. ASSUME NEW i \in DOMAIN (a \o b) PROVE (a \o b)[i] \in ToSet(a) \union ToSet(b)
  <2>1. CASE i <= Len(a)
    <3>1. (a \o b)[i] = a[i] /\ i \in DOMAIN a
      BY <1>1, <2>1
    <3> QED
      BY <3>1 DEF ToSet
  <2>2. CASE ~(i <= Len(a))
    <3>1. (a \o b)[i] = b[i - Len(a)] /\ i - Len(a) \in DOMAIN b
      BY <1>1, <2>2
    <3> QED
      BY <3>1 DEF ToSet
  <2> QED
    BY <2>1, <2>2
<1> QED
  BY <1>1, <1>2 DEF ToSet

\* What save_names and a grant may write.
LEMMA SavedRows == \A bk \in Seq(Row) : ToSet(Saved(bk)) \subseteq ToSet(bk)
<1> SUFFICES ASSUME NEW bk \in Seq(Row) PROVE ToSet(Saved(bk)) \subseteq ToSet(bk)
  OBVIOUS
<1> DEFINE first == FoldLeft(AddReserved, << >>, bk)
           second == FoldLeft(AddOther, << >>, bk)
<1>1. /\ first \in Seq(Row) /\ second \in Seq(Row)
      /\ ToSet(first) \subseteq ToSet(bk) /\ ToSet(second) \subseteq ToSet(bk)
  BY PartsRows DEF PartsFewer
<1>2. Saved(bk) = first \o second
  BY DEF Saved
<1> HIDE DEF first, second
<1> QED
  BY <1>1, <1>2, RowsConcat

LEMMA GrantedRows ==
    ASSUME NEW rows \in Seq(Row), NEW row \in Row
    PROVE  ToSet(Granted(rows, row)) \subseteq ToSet(rows) \union {row}
<1> DEFINE first == FoldLeft(AddReserved, << >>, rows)
           second == FoldLeft(AddOther, << >>, rows)
<1>1. /\ first \in Seq(Row) /\ second \in Seq(Row)
      /\ ToSet(first) \subseteq ToSet(rows) /\ ToSet(second) \subseteq ToSet(rows)
  BY PartsRows DEF PartsFewer
<1>2. Granted(rows, row) = IF Named(rows, row.name) = {} THEN first \o <<row>> \o second
                           ELSE SetRow(rows, row)
  BY DEF Granted
<1> HIDE DEF first, second
<1>3. <<row>> \in Seq(Row) /\ ToSet(<<row>>) = {row}
  BY DEF ToSet
<1>4. first \o <<row>> \in Seq(Row) /\ ToSet(first \o <<row>>) \subseteq ToSet(first) \union {row}
  BY <1>1, <1>3, RowsConcat
<1>5. ToSet((first \o <<row>>) \o second) \subseteq ToSet(first) \union {row} \union ToSet(second)
  BY <1>1, <1>4, RowsConcat
<1> QED
  BY <1>1, <1>2, <1>5, SetRowRows
-----------------------------------------------------------------------------
(* A mined name is held *)

\* Every row comes from a grant or from a register that left rows.
Accounted == GrantRows \union RowsIn(taken)

RowsAccounted ==
    ToSet(book) \union ToSet(namesFile) \union ChainRows(nameChain) \subseteq Accounted

\* What the blocks hold was mined, and what submitblock is busy with is in one.
Records ==
    /\ MinedNames(nameChain) \subseteq taken
    /\ inHand.step = "learning" => ToSet(inHand.txs) \subseteq MinedNames(nameChain)

HeldInv == NamesInv /\ RowsAccounted /\ Records /\ MinedNameHeld

\* The rows no row of the book, of names.json, of a block or of a grant disputes.
LEMMA UndisputedRow ==
    ASSUME NEW t, NEW rows PROVE Undisputed(t, rows) <=> \A x \in rows : Agrees(x, RowOf(t))
BY DEF Undisputed, Agrees, RowOf

LEMMA UndisputedFewer ==
    ASSUME NEW t, NEW rows, NEW fewer, fewer \subseteq rows, Undisputed(t, rows)
    PROVE  Undisputed(t, fewer)
BY DEF Undisputed

LEMMA RowsInMore ==
    /\ \A S, T : S \subseteq T => RowsIn(S) \subseteq RowsIn(T)
    /\ \A S, T : RowsIn(S \union T) = RowsIn(S) \union RowsIn(T)
    /\ \A t : RowsIn({t}) = {RowOf(t)}
    /\ \A S : \A t \in S : RowOf(t) \in RowsIn(S)
BY DEF RowsIn

\* A sequence is its head and its tail.
LEMMA HeadAndTail ==
    ASSUME NEW S, NEW s \in Seq(S), s # << >>
    PROVE  /\ Head(s) \in S /\ Head(s) \in ToSet(s) /\ Tail(s) \in Seq(S)
           /\ ToSet(s) = {Head(s)} \union ToSet(Tail(s))
           /\ Len(s) > 1 \/ ToSet(s) = {Head(s)}
<1> DEFINE h == Head(s)
           r == Tail(s)
           n == Len(s)
<1>1. /\ n \in Nat \ {0} /\ DOMAIN s = 1..n /\ h = s[1] /\ h \in S
      /\ r \in Seq(S) /\ DOMAIN r = 1..(n - 1) /\ \A i \in 1..(n - 1) : r[i] = s[i + 1]
  OBVIOUS
<1> HIDE DEF h, r, n
<1>2. h \in ToSet(s)
  <2>1. 1 \in 1..n
    BY <1>1
  <2> QED
    BY <1>1, <2>1 DEF ToSet
<1>3. ASSUME NEW x \in ToSet(r) PROVE x \in ToSet(s)
  <2>1. PICK i \in 1..(n - 1) : x = r[i]
    BY <1>1 DEF ToSet
  <2>2. i + 1 \in 1..n /\ x = s[i + 1]
    BY <1>1, <2>1
  <2> QED
    BY <1>1, <2>2 DEF ToSet
<1>4. ASSUME NEW x \in ToSet(s) PROVE x = h \/ (x \in ToSet(r) /\ n > 1)
  <2>1. PICK i \in 1..n : x = s[i]
    BY <1>1 DEF ToSet
  <2>2. CASE i = 1
    BY <1>1, <2>1, <2>2
  <2>3. CASE i # 1
    <3> DEFINE k == i - 1
    <3>1. k \in 1..(n - 1) /\ k + 1 = i /\ n > 1
      BY <1>1, <2>3
    <3> HIDE DEF k
    <3>2. r[k] = x
      BY <1>1, <2>1, <3>1
    <3> QED
      BY <1>1, <3>1, <3>2 DEF ToSet
  <2> QED
    BY <2>2, <2>3
<1> QED
  BY <1>1, <1>2, <1>3, <1>4 DEF h, r, n

\* A prefix of the chain says less.
LEMMA PrefixRows ==
    ASSUME NEW blocks \in Seq(NameBlock), NEW h \in 0..(Len(blocks) - 1)
    PROVE  /\ SubSeq(blocks, 1, h) \in Seq(NameBlock)
           /\ MinedNames(SubSeq(blocks, 1, h)) \subseteq MinedNames(blocks)
           /\ ChainRows(SubSeq(blocks, 1, h)) \subseteq ChainRows(blocks)
<1> DEFINE pre == SubSeq(blocks, 1, h)
<1>1. h \in Nat /\ Len(blocks) \in Nat /\ h <= Len(blocks)
  OBVIOUS
<1>2. pre \in Seq(NameBlock) /\ DOMAIN pre = 1..h /\ \A i \in 1..h : pre[i] = blocks[i]
  BY <1>1
<1>3. \A i \in 1..h : i \in DOMAIN blocks
  BY <1>1
<1> HIDE DEF pre
<1>4. ToSet(pre) \subseteq ToSet(blocks)
  BY <1>2, <1>3 DEF ToSet
<1>5. MinedNames(pre) \subseteq MinedNames(blocks)
  BY <1>4 DEF MinedNames
<1>6. ChainRows(pre) \subseteq ChainRows(blocks)
  BY <1>4, <1>5, RowsInMore DEF ChainRows
<1> QED
  BY <1>2, <1>5, <1>6 DEF pre

\* A step leaves the registers that left rows.
LEMMA SendRecords ==
    ASSUME NamesInv, Records, NEW t \in Registers, AdmitSend(t) \/ RememberSend(t)
    PROVE  Records' /\ taken \subseteq taken'
<1>1. CASE AdmitSend(t)
  BY <1>1 DEF AdmitSend, Records
<1>2. CASE RememberSend(t)
  <2>1. taken \subseteq taken'
    BY <1>2 DEF RememberSend
  <2>2. UNCHANGED <<nameChain, inHand>>
    BY <1>2 DEF RememberSend
  <2> QED
    BY <2>1, <2>2 DEF Records
<1> QED
  BY <1>1, <1>2

LEMMA BlockRecords ==
    ASSUME NamesInv, Records,
           (\E local \in BOOLEAN : AdmitBlock(local)) \/ StoreBlock \/ LearnName \/ LearnNothing
    PROVE  Records' /\ taken \subseteq taken'
<1>1. ASSUME NEW local \in BOOLEAN, AdmitBlock(local) PROVE Records' /\ taken \subseteq taken'
  <2>1. inHand'.step = "admitted"
    BY <1>1 DEF AdmitBlock
  <2> QED
    BY <1>1, <2>1 DEF AdmitBlock, Records
<1>2. CASE StoreBlock
  <2> DEFINE b == [txs |-> inHand.txs, names |-> Snapshot(book, inHand.txs)]
  <2>1. b \in NameBlock
    BY NamesTypes, SnapshotTyped DEF NameBlock
  <2>2. nameChain' = Append(nameChain, b)
    BY <1>2 DEF StoreBlock
  <2>3. b.txs = inHand.txs
    OBVIOUS
  <2> HIDE DEF b
  <2>4. MinedNames(nameChain') = MinedNames(nameChain) \union ToSet(inHand.txs)
    BY <2>1, <2>2, <2>3, NamesTypes, ChainAppend
  <2>5. /\ inHand'.txs = inHand.txs /\ taken' = taken \union ToSet(inHand.txs)
    BY <1>2 DEF StoreBlock, NamesInv, NamesTypeOK
  <2> QED
    BY <2>4, <2>5 DEF Records
<1>3. CASE LearnName
  <2>1. inHand.txs \in Seq(Registers) /\ inHand.txs # << >> /\ inHand.step = "learning"
    BY <1>3, NamesTypes DEF LearnName
  <2>2. Head(inHand.txs) \in ToSet(inHand.txs) /\ ToSet(Tail(inHand.txs)) \subseteq ToSet(inHand.txs)
    BY <2>1, HeadAndTail
  <2>4. inHand'.step = "learning" => inHand'.txs = Tail(inHand.txs)
    BY <1>3 DEF LearnName, NoBlock, NamesInv, NamesTypeOK
  <2>5. UNCHANGED <<nameChain, taken>>
    BY <1>3 DEF LearnName
  <2> QED
    BY <2>1, <2>2, <2>4, <2>5 DEF Records
<1>4. CASE LearnNothing
  BY <1>4 DEF LearnNothing, NoBlock, Records
<1> QED
  BY <1>1, <1>2, <1>3, <1>4

LEMMA OtherRecords ==
    ASSUME NamesInv, Records,
           RestartNames \/ Rewind \/ ReloadNames \/ \E t \in Registers : WriteGrant(t)
    PROVE  Records' /\ taken \subseteq taken'
<1>1. CASE RestartNames
  <2>1. inHand'.step # "learning"
    BY <1>1 DEF RestartNames, NoBlock
  <2> QED
    BY <1>1, <2>1 DEF RestartNames, Records
<1>2. CASE Rewind
  <2>1. PICK h \in 0..(Len(nameChain) - 1) : nameChain' = SubSeq(nameChain, 1, h)
    BY <1>2 DEF Rewind
  <2>2. MinedNames(nameChain') \subseteq MinedNames(nameChain)
    BY <2>1, NamesTypes, PrefixRows
  <2>3. inHand'.step # "learning"
    BY <1>2 DEF Rewind, NoBlock
  <2> QED
    BY <1>2, <2>2, <2>3 DEF Rewind, Records
<1>3. CASE ReloadNames
  BY <1>3 DEF ReloadNames, Records
<1>4. ASSUME NEW t \in Registers, WriteGrant(t) PROVE Records' /\ taken \subseteq taken'
  BY <1>4 DEF WriteGrant, Records
<1> QED
  BY <1>1, <1>2, <1>3, <1>4

LEMMA RecordsKept ==
    ASSUME NamesInv, Records, [NamesNext]_nameVars PROVE Records' /\ taken \subseteq taken'
<1>1. CASE UNCHANGED nameVars
  BY <1>1 DEF nameVars, Records
<1> QED
  BY <1>1, SendRecords, BlockRecords, OtherRecords DEF NamesNext

LEMMA AccountedGrows == ASSUME taken \subseteq taken' PROVE Accounted \subseteq Accounted'
BY RowsInMore DEF Accounted

\* A step keeps what is mined where the book had it.
KeptHere ==
    \A t \in MinedNames(nameChain) \intersect MinedNames(nameChain') :
      RowOf(t) \in ToSet(book) /\ Undisputed(t, ToSet(namesFile) \union ChainRows(nameChain'))
        => RowOf(t) \in ToSet(book')

HeldStep == RowsAccounted' /\ MinedNameHeld' /\ KeptHere

\* What a mined register needs of the rows.
LEMMA HeldAs ==
    MinedNameHeld <=> \A t \in MinedNames(nameChain) \ Unlearnt :
                        Undisputed(t, Accounted) => RowOf(t) \in ToSet(book)
BY DEF MinedNameHeld, Accounted

LEMMA HeldAsNext ==
    MinedNameHeld' <=> \A t \in MinedNames(nameChain') \ Unlearnt' :
                         Undisputed(t, Accounted') => RowOf(t) \in ToSet(book')
BY DEF MinedNameHeld, Accounted

\* A step that takes no row from the book and nothing new off submitblock's hands.
LEMMA GrowingStep ==
    ASSUME HeldInv, taken \subseteq taken', ToSet(book) \subseteq ToSet(book'),
           MinedNames(nameChain') \ Unlearnt' \subseteq MinedNames(nameChain) \ Unlearnt
    PROVE  MinedNameHeld' /\ KeptHere
<1>1. KeptHere
  BY DEF KeptHere
<1>2. ASSUME NEW t \in MinedNames(nameChain') \ Unlearnt', Undisputed(t, Accounted')
      PROVE  RowOf(t) \in ToSet(book')
  <2>1. Undisputed(t, Accounted)
    BY <1>2, AccountedGrows, UndisputedFewer
  <2> QED
    BY <2>1, HeldAs DEF HeldInv
<1> QED
  BY <1>1, <1>2, HeldAsNext

LEMMA SendHolds ==
    ASSUME HeldInv, NEW t \in Registers, AdmitSend(t) \/ RememberSend(t) PROVE HeldStep
<1> DEFINE B == ToSet(book)
           F == ToSet(namesFile)
           C == ChainRows(nameChain)
<1>1. taken \subseteq taken' /\ Accounted \subseteq Accounted'
  BY SendRecords, AccountedGrows DEF HeldInv
<1>2. nameChain' = nameChain /\ inHand' = inHand
  BY DEF AdmitSend, RememberSend
<1>3. B \subseteq Accounted /\ F \subseteq Accounted /\ C \subseteq Accounted
  BY DEF HeldInv, RowsAccounted
<1>4. book \in Seq(Row) /\ RowOf(t) \in Row
  BY NamesTypes, RowOfRegister DEF HeldInv
<1>5. /\ B \subseteq ToSet(book') /\ ToSet(book') \subseteq Accounted'
      /\ ToSet(namesFile') \subseteq Accounted'
  <2>1. CASE AdmitSend(t)
    <3>1. Grows(book', book, GrantRows)
      BY <1>4, <2>1, LearntGrows DEF AdmitSend
    <3>2. B \subseteq ToSet(book') /\ ToSet(book') \subseteq B \union GrantRows
      BY <3>1 DEF Grows
    <3>3. namesFile' = namesFile
      BY <2>1 DEF AdmitSend
    <3>4. GrantRows \subseteq Accounted'
      BY DEF Accounted
    <3> QED
      BY <1>1, <1>3, <3>2, <3>3, <3>4
  <2>2. CASE RememberSend(t) /\ book' = book /\ namesFile' = namesFile
    BY <1>1, <1>3, <2>2
  <2>3. CASE RememberSend(t) /\ ~(book' = book /\ namesFile' = namesFile)
    <3>1. /\ book' = Remember(book, RowOf(t), FALSE) /\ namesFile' = Saved(book')
          /\ t \in taken'
      BY <2>3 DEF RememberSend
    <3>2. Grows(book', book, {RowOf(t)})
      BY <1>4, <3>1, RememberGrows
    <3>3. /\ B \subseteq ToSet(book') /\ ToSet(book') \subseteq B \union {RowOf(t)}
          /\ book' \in Seq(Row)
      BY <3>2 DEF Grows
    <3>4. t \in taken'
      BY <3>1
    <3>5. RowOf(t) \in Accounted'
      BY <3>4 DEF Accounted, RowsIn
    <3>6. ToSet(namesFile') \subseteq ToSet(book')
      BY <3>1, <3>3, SavedRows
    <3> QED
      BY <1>1, <1>3, <3>3, <3>5, <3>6
  <2> QED
    BY <2>1, <2>2, <2>3
<1>6. RowsAccounted'
  BY <1>1, <1>2, <1>3, <1>5 DEF RowsAccounted
<1>7. MinedNameHeld' /\ KeptHere
  BY <1>1, <1>2, <1>5, GrowingStep DEF Unlearnt
<1> QED
  BY <1>6, <1>7 DEF HeldStep

LEMMA AdmitBlockHolds ==
    ASSUME HeldInv, NEW local \in BOOLEAN, AdmitBlock(local) PROVE HeldStep
<1>1. PICK txs \in BlockTxs(local) : book' = IF local THEN LearntAll(book, txs) ELSE book
  BY DEF AdmitBlock
<1>2. /\ nameChain' = nameChain /\ namesFile' = namesFile /\ inHand = NoBlock
      /\ inHand'.step = "admitted"
  BY DEF AdmitBlock
<1>3. taken \subseteq taken' /\ Accounted \subseteq Accounted'
  BY BlockRecords, AccountedGrows DEF HeldInv
<1>4. book \in Seq(Row)
  BY NamesTypes DEF HeldInv
<1>5. txs \in Seq(Registers)
  <2>1. PICK k \in 0..MaxRegisters : txs \in [1..k -> Registers \ MinedNames(nameChain)]
    BY DEF BlockTxs
  <2> QED
    BY <2>1, NamesAssumption
<1>6. Grows(book', book, GrantRows)
  <2>1. Grows(LearntAll(book, txs), book, GrantRows)
    BY <1>4, <1>5, LearntAllGrows DEF LearntGrow
  <2> QED
    BY <1>1, <1>4, <2>1, GrowsNot
<1>7. ToSet(book) \subseteq ToSet(book') /\ ToSet(book') \subseteq ToSet(book) \union GrantRows
  BY <1>6 DEF Grows
<1>8. GrantRows \subseteq Accounted'
  BY DEF Accounted
<1>9. RowsAccounted'
  BY <1>2, <1>3, <1>7, <1>8 DEF RowsAccounted, HeldInv
<1>10. Unlearnt = {} /\ Unlearnt' = {}
  BY <1>2 DEF Unlearnt, NoBlock
<1>11. MinedNameHeld' /\ KeptHere
  BY <1>2, <1>3, <1>7, <1>10, GrowingStep
<1> QED
  BY <1>9, <1>11 DEF HeldStep

LEMMA StoreBlockHolds == ASSUME HeldInv, StoreBlock PROVE HeldStep
<1> DEFINE b == [txs |-> inHand.txs, names |-> Snapshot(book, inHand.txs)]
<1>1. book \in Seq(Row) /\ nameChain \in Seq(NameBlock) /\ inHand.txs \in Seq(Registers)
  BY NamesTypes DEF HeldInv
<1>2. b \in NameBlock
  BY <1>1, SnapshotTyped DEF NameBlock
<1>3. nameChain' = Append(nameChain, b) /\ book' = book /\ namesFile' = namesFile
  BY DEF StoreBlock
<1>4. b.txs = inHand.txs /\ ToSet(b.names) \subseteq ToSet(book) \union RowsIn(ToSet(inHand.txs))
  BY <1>1, SnapshotRows
<1>5. taken \subseteq taken' /\ Accounted \subseteq Accounted'
  BY BlockRecords, AccountedGrows DEF HeldInv
<1> HIDE DEF b
<1>6. /\ MinedNames(nameChain') = MinedNames(nameChain) \union ToSet(inHand.txs)
      /\ ChainRows(nameChain') = ChainRows(nameChain) \union BlockRows(b)
  BY <1>1, <1>2, <1>3, <1>4, ChainAppend
<1>7. RowsIn(ToSet(inHand.txs)) \subseteq Accounted'
  <2>1. ToSet(inHand.txs) \subseteq taken'
    BY DEF StoreBlock
  <2> QED
    BY <2>1, RowsInMore DEF Accounted
<1>8. BlockRows(b) \subseteq ToSet(book) \union RowsIn(ToSet(inHand.txs))
  BY <1>4 DEF BlockRows
<1>9. RowsAccounted'
  BY <1>3, <1>5, <1>6, <1>7, <1>8 DEF RowsAccounted, HeldInv
<1>10. Unlearnt = {} /\ Unlearnt' = ToSet(inHand.txs)
  BY DEF StoreBlock, Unlearnt, HeldInv, NamesInv, NamesTypeOK
<1>11. MinedNameHeld' /\ KeptHere
  BY <1>3, <1>5, <1>6, <1>10, GrowingStep
<1> QED
  BY <1>9, <1>11 DEF HeldStep

LEMMA LearnNothingHolds == ASSUME HeldInv, LearnNothing PROVE HeldStep
<1>1. taken \subseteq taken' /\ Accounted \subseteq Accounted'
  BY BlockRecords, AccountedGrows DEF HeldInv
<1>2. book' = book /\ namesFile' = namesFile /\ nameChain' = nameChain
  BY DEF LearnNothing
<1>3. RowsAccounted'
  BY <1>1, <1>2 DEF RowsAccounted, HeldInv
<1>4. ToSet(<< >>) = {}
  BY DEF ToSet
<1>5. Unlearnt = {} /\ Unlearnt' = {}
  BY <1>4 DEF LearnNothing, Unlearnt, NoBlock
<1>6. MinedNameHeld' /\ KeptHere
  BY <1>1, <1>2, <1>5, GrowingStep
<1> QED
  BY <1>3, <1>6 DEF HeldStep

\* The block's register is remembered; a peer's may overwrite what it disputes.
LEMMA LearnNameHolds == ASSUME HeldInv, LearnName PROVE HeldStep
<1> DEFINE t == Head(inHand.txs)
           row == RowOf(t)
<1>1. inHand.txs \in Seq(Registers) /\ inHand.txs # << >> /\ inHand.step = "learning"
  BY NamesTypes DEF LearnName, HeldInv
<1>2. t \in Registers /\ t \in ToSet(inHand.txs)
  BY <1>1, HeadAndTail
<1>3. \A u \in ToSet(inHand.txs) : u = t \/ u \in ToSet(Tail(inHand.txs))
  BY <1>1, HeadAndTail
<1>4. Len(inHand.txs) > 1 \/ ToSet(inHand.txs) = {t}
  BY <1>1, HeadAndTail
<1>5. row \in Row
  BY <1>2, RowOfRegister
<1>6. book \in Seq(Row) /\ inHand.local \in BOOLEAN
  BY NamesTypes DEF HeldInv, NamesInv, NamesTypeOK
<1>7. /\ book' = Remember(book, row, ~inHand.local) /\ nameChain' = nameChain
      /\ namesFile' = Saved(book') \/ namesFile' = namesFile
  BY DEF LearnName
<1>8. taken \subseteq taken' /\ Accounted \subseteq Accounted'
  BY BlockRecords, AccountedGrows DEF HeldInv
<1>9. t \in MinedNames(nameChain) /\ t \in taken
  BY <1>1, <1>2 DEF HeldInv, Records
<1>10. row \in Accounted /\ row \in ChainRows(nameChain)
  <2>1. row \in RowsIn(taken) /\ row \in RowsIn(MinedNames(nameChain))
    BY <1>9 DEF RowsIn
  <2> QED
    BY <2>1 DEF Accounted, ChainRows
<1> HIDE DEF row
<1>11. /\ book' \in Seq(Row)
       /\ ToSet(book') \subseteq ToSet(book) \union {row}
       /\ \A r \in ToSet(book) : Agrees(row, r) => r \in ToSet(book')
       /\ (\A x \in ToSet(book) : Agrees(x, row)) => row \in ToSet(book')
  BY <1>5, <1>6, <1>7, RememberRows
<1>12. ToSet(namesFile') \subseteq ToSet(book') \union ToSet(namesFile)
  BY <1>7, <1>11, SavedRows
<1>13. RowsAccounted'
  BY <1>7, <1>8, <1>10, <1>11, <1>12 DEF RowsAccounted, HeldInv
<1>14. KeptHere
  <2>1. ASSUME NEW u \in MinedNames(nameChain), RowOf(u) \in ToSet(book),
               Undisputed(u, ToSet(namesFile) \union ChainRows(nameChain'))
        PROVE  RowOf(u) \in ToSet(book')
    <3>1. Agrees(row, RowOf(u))
      BY <1>7, <1>10, <2>1, UndisputedRow
    <3> QED
      BY <1>11, <2>1, <3>1
  <2> QED
    BY <2>1 DEF KeptHere
<1>15. ASSUME NEW u \in MinedNames(nameChain') \ Unlearnt', Undisputed(u, Accounted')
       PROVE  RowOf(u) \in ToSet(book')
  <2>1. \A x \in Accounted : Agrees(x, RowOf(u))
    BY <1>8, <1>15, UndisputedRow
  <2>2. CASE u = t
    <3>1. \A x \in ToSet(book) : Agrees(x, row)
      BY <2>1, <2>2 DEF row, HeldInv, RowsAccounted
    <3> QED
      BY <1>11, <2>2, <3>1 DEF row
  <2>3. CASE u # t
    <3>1. u \notin ToSet(inHand.txs)
      <4>1. CASE Len(inHand.txs) > 1
        <5>1. inHand' = [inHand EXCEPT !.txs = Tail(inHand.txs)]
          BY <4>1 DEF LearnName
        <5>2. inHand'.step = "learning" /\ inHand'.txs = Tail(inHand.txs)
          BY <1>1, <5>1 DEF HeldInv, NamesInv, NamesTypeOK
        <5>3. Unlearnt' = ToSet(Tail(inHand.txs))
          BY <5>2 DEF Unlearnt
        <5> QED
          BY <1>3, <1>15, <2>3, <5>3
      <4>2. CASE ~(Len(inHand.txs) > 1)
        BY <1>4, <2>3, <4>2
      <4> QED
        BY <4>1, <4>2
    <3>2. u \in MinedNames(nameChain) \ Unlearnt
      BY <1>1, <1>7, <1>15, <3>1 DEF Unlearnt
    <3>3. Undisputed(u, Accounted)
      BY <2>1, UndisputedRow
    <3>4. RowOf(u) \in ToSet(book)
      BY <3>2, <3>3, HeldAs DEF HeldInv
    <3>5. Agrees(row, RowOf(u))
      BY <1>10, <2>1
    <3> QED
      BY <1>11, <3>4, <3>5
  <2> QED
    BY <2>2, <2>3
<1>16. MinedNameHeld'
  BY <1>15, HeldAsNext
<1> QED
  BY <1>13, <1>14, <1>16 DEF HeldStep

\* What is left when the blocks are read over a book.
LEMMA ReplayHolds ==
    ASSUME NEW bk \in Seq(Row), NEW blocks \in Seq(NameBlock)
    PROVE  /\ ToSet(ReplayNames(bk, blocks)) \subseteq ToSet(bk) \union ChainRows(blocks)
           /\ \A t \in MinedNames(blocks) :
                Undisputed(t, ToSet(bk) \union ChainRows(blocks))
                  => RowOf(t) \in ToSet(ReplayNames(bk, blocks))
           /\ \A t : RowOf(t) \in ToSet(bk) /\ Undisputed(t, ChainRows(blocks))
                  => RowOf(t) \in ToSet(ReplayNames(bk, blocks))
<1> DEFINE new == ReplayNames(bk, blocks)
<1>1. Takes(new, bk, ChainRows(blocks), RowsIn(MinedNames(blocks)))
  BY ReplayTaken DEF ReplayTakes
<1> HIDE DEF new
<1>2. /\ ToSet(new) \subseteq ToSet(bk) \union ChainRows(blocks)
      /\ \A r \in ToSet(bk) : (\A x \in ChainRows(blocks) : Agrees(x, r)) => r \in ToSet(new)
      /\ \A r \in RowsIn(MinedNames(blocks)) :
           (\A x \in ToSet(bk) \union ChainRows(blocks) : Agrees(x, r)) => r \in ToSet(new)
  BY <1>1 DEF Takes
<1>3. ASSUME NEW t \in MinedNames(blocks), Undisputed(t, ToSet(bk) \union ChainRows(blocks))
      PROVE  RowOf(t) \in ToSet(new)
  BY <1>2, <1>3, UndisputedRow, RowsInMore
<1>4. ASSUME NEW t, RowOf(t) \in ToSet(bk), Undisputed(t, ChainRows(blocks))
      PROVE  RowOf(t) \in ToSet(new)
  BY <1>2, <1>4, UndisputedRow
<1> QED
  BY <1>2, <1>3, <1>4 DEF new

LEMMA RestartHolds == ASSUME HeldInv, RestartNames PROVE HeldStep
<1>1. PICK names \in {namesFile, << >>} : namesFile' = names /\ book' = Restored(names, nameChain)
  BY DEF RestartNames
<1>2. nameChain' = nameChain /\ Unlearnt' = {}
  BY DEF RestartNames, Unlearnt, NoBlock
<1>3. namesFile \in Seq(Row) /\ nameChain \in Seq(NameBlock)
  BY NamesTypes DEF HeldInv
<1>4. << >> \in Seq(Row) /\ ToSet(<< >>) = {}
  BY DEF ToSet
<1>5. names \in Seq(Row) /\ ToSet(names) \subseteq ToSet(namesFile)
  BY <1>1, <1>3, <1>4
<1> DEFINE bk == AbsorbFile(<< >>, names)
<1>6. Grows(bk, << >>, ToSet(names))
  BY <1>4, <1>5, FileAbsorbed DEF FileAbsorbs
<1>7. bk \in Seq(Row) /\ ToSet(bk) \subseteq ToSet(names)
  BY <1>4, <1>6 DEF Grows
<1>8. book' = ReplayNames(bk, nameChain)
  BY <1>1 DEF Restored
<1> HIDE DEF bk
<1>9. taken \subseteq taken' /\ Accounted \subseteq Accounted'
  BY OtherRecords, AccountedGrows DEF HeldInv
<1>10. ToSet(namesFile) \subseteq Accounted /\ ChainRows(nameChain) \subseteq Accounted
  BY DEF HeldInv, RowsAccounted
<1>11. /\ ToSet(book') \subseteq ToSet(bk) \union ChainRows(nameChain)
       /\ \A t \in MinedNames(nameChain) :
            Undisputed(t, ToSet(bk) \union ChainRows(nameChain)) => RowOf(t) \in ToSet(book')
  BY <1>3, <1>7, <1>8, ReplayHolds
<1>12. RowsAccounted'
  BY <1>1, <1>2, <1>5, <1>7, <1>9, <1>10, <1>11 DEF RowsAccounted
<1>13. ToSet(bk) \union ChainRows(nameChain) \subseteq ToSet(namesFile) \union ChainRows(nameChain')
       /\ ToSet(bk) \union ChainRows(nameChain) \subseteq Accounted'
  BY <1>2, <1>5, <1>7, <1>9, <1>10
<1>14. KeptHere
  <2>1. ASSUME NEW t \in MinedNames(nameChain),
               Undisputed(t, ToSet(namesFile) \union ChainRows(nameChain'))
        PROVE  RowOf(t) \in ToSet(book')
    <3>1. Undisputed(t, ToSet(bk) \union ChainRows(nameChain))
      BY <1>13, <2>1, UndisputedFewer
    <3> QED
      BY <1>11, <3>1
  <2> QED
    BY <2>1 DEF KeptHere
<1>15. MinedNameHeld'
  <2>1. ASSUME NEW t \in MinedNames(nameChain') \ Unlearnt', Undisputed(t, Accounted')
        PROVE  RowOf(t) \in ToSet(book')
    <3>1. Undisputed(t, ToSet(bk) \union ChainRows(nameChain))
      BY <1>13, <2>1, UndisputedFewer
    <3> QED
      BY <1>2, <1>11, <3>1
  <2> QED
    BY <2>1, HeldAsNext
<1> QED
  BY <1>12, <1>14, <1>15 DEF HeldStep

LEMMA RewindHolds == ASSUME HeldInv, Rewind PROVE HeldStep
<1>1. PICK h \in 0..(Len(nameChain) - 1) :
         nameChain' = SubSeq(nameChain, 1, h) /\ book' = ReplayNames(book, nameChain')
  BY DEF Rewind
<1>2. namesFile' = namesFile /\ Unlearnt' = {}
  BY DEF Rewind, Unlearnt, NoBlock
<1>3. book \in Seq(Row) /\ nameChain \in Seq(NameBlock)
  BY NamesTypes DEF HeldInv
<1>4. /\ nameChain' \in Seq(NameBlock)
      /\ ChainRows(nameChain') \subseteq ChainRows(nameChain)
  BY <1>1, <1>3, PrefixRows
<1>5. taken \subseteq taken' /\ Accounted \subseteq Accounted'
  BY OtherRecords, AccountedGrows DEF HeldInv
<1>6. /\ ToSet(book) \subseteq Accounted /\ ToSet(namesFile) \subseteq Accounted
      /\ ChainRows(nameChain) \subseteq Accounted
  BY DEF HeldInv, RowsAccounted
<1>7. /\ ToSet(book') \subseteq ToSet(book) \union ChainRows(nameChain')
      /\ \A t \in MinedNames(nameChain') :
           Undisputed(t, ToSet(book) \union ChainRows(nameChain')) => RowOf(t) \in ToSet(book')
      /\ \A t : RowOf(t) \in ToSet(book) /\ Undisputed(t, ChainRows(nameChain'))
           => RowOf(t) \in ToSet(book')
  BY <1>1, <1>3, <1>4, ReplayHolds
<1>8. RowsAccounted'
  BY <1>2, <1>4, <1>5, <1>6, <1>7 DEF RowsAccounted
<1>9. KeptHere
  BY <1>7, UndisputedFewer DEF KeptHere
<1>10. ToSet(book) \union ChainRows(nameChain') \subseteq Accounted'
  BY <1>4, <1>5, <1>6
<1>11. MinedNameHeld'
  <2>1. ASSUME NEW t \in MinedNames(nameChain') \ Unlearnt', Undisputed(t, Accounted')
        PROVE  RowOf(t) \in ToSet(book')
    BY <1>7, <1>10, <2>1, UndisputedFewer
  <2> QED
    BY <2>1, HeldAsNext
<1> QED
  BY <1>8, <1>9, <1>11 DEF HeldStep

LEMMA FileHolds ==
    ASSUME HeldInv, ReloadNames \/ \E t \in Registers : WriteGrant(t) PROVE HeldStep
<1>1. taken \subseteq taken' /\ Accounted \subseteq Accounted'
  BY OtherRecords, AccountedGrows DEF HeldInv
<1>2. book \in Seq(Row) /\ namesFile \in Seq(Row)
  BY NamesTypes DEF HeldInv
<1>3. CASE ReloadNames
  <2>1. Grows(book', book, ToSet(namesFile))
    BY <1>2, <1>3, FileAbsorbed DEF FileAbsorbs, ReloadNames
  <2>2. ToSet(book) \subseteq ToSet(book') /\ ToSet(book') \subseteq ToSet(book) \union ToSet(namesFile)
    BY <2>1 DEF Grows
  <2>3. namesFile' = namesFile /\ nameChain' = nameChain /\ inHand' = inHand
    BY <1>3 DEF ReloadNames
  <2>4. RowsAccounted'
    BY <1>1, <2>2, <2>3 DEF RowsAccounted, HeldInv
  <2>5. MinedNameHeld' /\ KeptHere
    BY <1>1, <2>2, <2>3, GrowingStep DEF Unlearnt
  <2> QED
    BY <2>4, <2>5 DEF HeldStep
<1>4. ASSUME NEW t \in Registers, WriteGrant(t) PROVE HeldStep
  <2>1. /\ book' = book /\ nameChain' = nameChain /\ inHand' = inHand
        /\ namesFile' = Granted(namesFile, RowOf(t)) /\ NameOf[t] \in Reserved
    BY <1>4 DEF WriteGrant
  <2>2. ToSet(namesFile') \subseteq ToSet(namesFile) \union {RowOf(t)}
    BY <1>2, <2>1, RowOfRegister, GrantedRows
  <2>3. RowOf(t) \in Accounted'
    BY <2>1 DEF Accounted, GrantRows, RowsIn
  <2>4. RowsAccounted'
    BY <1>1, <2>1, <2>2, <2>3 DEF RowsAccounted, HeldInv
  <2>5. MinedNameHeld' /\ KeptHere
    BY <1>1, <2>1, GrowingStep DEF Unlearnt
  <2> QED
    BY <2>4, <2>5 DEF HeldStep
<1> QED
  BY <1>3, <1>4

LEMMA HeldInit == ASSUME NamesInit PROVE HeldInv
<1>1. namesFile \in Grants /\ namesFile \in Seq(Row)
  BY NamesAssumption DEF NamesInit
<1>2. << >> \in Seq(Row) /\ ToSet(<< >>) = {}
  BY DEF ToSet
<1>3. Grows(book, << >>, ToSet(namesFile))
  BY <1>1, <1>2, FileAbsorbed DEF FileAbsorbs, NamesInit
<1>4. ToSet(book) \subseteq ToSet(namesFile)
  BY <1>2, <1>3 DEF Grows
<1>5. ToSet(namesFile) \subseteq Accounted
  BY <1>1 DEF Accounted, GrantRows
<1>6. MinedNames(nameChain) = {}
  BY <1>2 DEF NamesInit, MinedNames
<1>7. ChainRows(nameChain) = {}
  BY <1>2, <1>6 DEF NamesInit, ChainRows, RowsIn
<1>8. RowsAccounted
  BY <1>4, <1>5, <1>7 DEF RowsAccounted
<1>9. Records
  BY <1>6 DEF NamesInit, Records, NoBlock
<1>10. MinedNameHeld
  BY <1>6 DEF MinedNameHeld
<1> QED
  BY <1>8, <1>9, <1>10, NamesInitInv DEF HeldInv

LEMMA HeldNext == ASSUME HeldInv, [NamesNext]_nameVars PROVE HeldInv' /\ KeptHere
<1>1. NamesInv' /\ Records'
  BY NamesNextKeeps, RecordsKept DEF HeldInv
<1>2. HeldStep
  <2>1. CASE UNCHANGED nameVars
    <3>1. taken' = taken /\ Unlearnt' = Unlearnt /\ UNCHANGED <<book, namesFile, nameChain>>
      BY <2>1 DEF nameVars, Unlearnt
    <3>2. MinedNameHeld' /\ KeptHere
      BY <3>1, GrowingStep
    <3>3. RowsAccounted'
      BY <3>1 DEF RowsAccounted, Accounted, HeldInv
    <3> QED
      BY <3>2, <3>3 DEF HeldStep
  <2> QED
    BY <2>1, SendHolds, AdmitBlockHolds, StoreBlockHolds, LearnNameHolds, LearnNothingHolds,
       RestartHolds, RewindHolds, FileHolds DEF NamesNext
<1> QED
  BY <1>1, <1>2 DEF HeldStep, HeldInv

\* A mined name is in the book, whatever the order of sends, blocks, snapshots,
\* starts, rewinds and grants, unless another row that a grant or a register left
\* disputes it.
THEOREM MinedHeld == NamesSpec => []MinedNameHeld
<1>1. NamesInit => HeldInv
  BY HeldInit
<1>2. HeldInv /\ [NamesNext]_nameVars => HeldInv'
  BY HeldNext
<1>3. HeldInv => MinedNameHeld
  BY DEF HeldInv
<1> QED
  BY <1>1, <1>2, <1>3, PTL DEF NamesSpec

\* A name held by the address that mined it is not taken from it by a step while
\* no block, snapshot or row of names.json gives it away.
THEOREM MinedKept == NamesSpec => MinedNameKept
<1>1. NamesInit => HeldInv
  BY HeldInit
<1>2. HeldInv /\ [NamesNext]_nameVars => HeldInv'
  BY HeldNext
<1>3. HeldInv /\ [NamesNext]_nameVars
        => [\A t \in MinedNames(nameChain) \intersect MinedNames(nameChain') :
              RowOf(t) \in ToSet(book) /\ Undisputed(t, ToSet(namesFile) \union ChainRows(nameChain'))
                => RowOf(t) \in ToSet(book')]_nameVars
  BY HeldNext DEF KeptHere
<1> QED
  BY <1>1, <1>2, <1>3, PTL DEF NamesSpec, MinedNameKept
=============================================================================
