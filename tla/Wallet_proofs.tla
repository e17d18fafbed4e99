--------------------------- MODULE Wallet_proofs ---------------------------
(***************************************************************************)
(* Money in the hands of a user.  Validator purse: what was paid out stays *)
(* paid out and the last save is found, for any number of rewards and      *)
(* crashes, as long as no file operation fails.  Wallet: the chain holds   *)
(* what the address began with, less the fees, and a command that was      *)
(* alone is accepted, for any commands, coins, amounts and units.  Sums    *)
(* are folds, and the lemmas about them go by induction over lists and     *)
(* finite sets.                                                            *)
(***************************************************************************)
EXTENDS Purse, Wallet, FiniteSetTheorems, TLAPS

-----------------------------------------------------------------------------
(* The validator purse *)

AnyBook == [balance : Nat, earned : Nat, withdrawn : Nat, last : Nat]

\* A book accounts for all it earned.
Balanced(b) == b \in AnyBook /\ b.balance + b.withdrawn = b.earned

\* What a start would find withdrawn.
Withdrawn(f) == IF f = Missing THEN 0 ELSE f.book.withdrawn

\* Whatever fails, a file that can be read holds a balanced book.
Typed ==
    /\ Balanced(purse)
    /\ purseFile.kind = "book" => Balanced(purseFile.book)
    /\ tmpFile.kind = "book" => Balanced(tmpFile.book)
    /\ saving \in [step : {"none", "backup", "copy", "open", "write", "rename"}, pays : Nat]
    /\ saving.step = "none" => saving = PurseIdle
    /\ ~purseOpen => saving = PurseIdle
    /\ paid \in Nat /\ failures \in Nat

\* Until a file operation fails: the file is the last save, what is about to be
\* renamed over it is the book in memory, and both have what was paid out.
Intact ==
    failures = 0 =>
      /\ purseFile = Missing \/ purseFile.kind = "book"
      /\ purseFile = saved
      /\ saving.step = "rename" => tmpFile = Content(purse)
      /\ paid <= Withdrawn(purseFile)
      /\ purseOpen => paid + saving.pays <= purse.withdrawn

PurseInv == Typed /\ Intact

\* The kinds of files are told apart, and a book is found in the file it is in.
LEMMA FileKinds ==
    /\ PurseIdle.step = "none" /\ PurseIdle.pays = 0
    /\ Missing.kind # "book" /\ Torn.kind # "book"
    /\ \A b : Content(b).kind = "book" /\ Content(b).book = b /\ Content(b) # Missing
<1>1. \A b : Content(b).kind = "book" /\ Content(b).book = b
  BY DEF Content
<1>2. Missing.kind # "book" /\ Torn.kind # "book"
  BY DEF Missing, Torn
<1> QED
  BY <1>1, <1>2 DEF PurseIdle

LEMMA FreshIsBalanced == Balanced(FreshPurse) /\ FreshPurse.withdrawn = 0
  BY DEF Balanced, AnyBook, FreshPurse

LEMMA InitPurseInv == PurseInit => PurseInv
<1> SUFFICES ASSUME PurseInit PROVE PurseInv
  OBVIOUS
<1>1. Typed
  BY FreshIsBalanced, FileKinds DEF PurseInit, Typed, PurseIdle
<1>2. Intact
  BY FileKinds DEF PurseInit, Intact, Withdrawn
<1> QED
  BY <1>1, <1>2 DEF PurseInv
-----------------------------------------------------------------------------
(* The calls *)

\* A book from which amount is taken accounts for it.
LEMMA TakenBook ==
    ASSUME NEW b \in AnyBook, NEW amount \in Nat, amount <= b.balance, Balanced(b),
           NEW c, c = [b EXCEPT !.balance = @ - amount, !.withdrawn = @ + amount]
    PROVE  Balanced(c) /\ c.withdrawn = b.withdrawn + amount
<1>1. c = [balance |-> b.balance - amount, earned |-> b.earned,
           withdrawn |-> b.withdrawn + amount, last |-> b.last]
  BY DEF AnyBook
<1>2. b.balance \in Nat /\ b.earned \in Nat /\ b.withdrawn \in Nat /\ b.last \in Nat
  BY DEF AnyBook
<1>3. b.balance - amount \in Nat /\ b.withdrawn + amount \in Nat
  BY <1>2
<1>4. c \in AnyBook
  BY <1>1, <1>2, <1>3 DEF AnyBook
<1> QED
  BY <1>1, <1>2, <1>4 DEF Balanced

\* load_from_disk: the book in the file has what was paid out.
LEMMA OpenKeeps == ASSUME PurseInv, Open PROVE PurseInv'
<1> USE DEF PurseInv, Open
<1>1. saving.pays = 0 /\ saving = PurseIdle
  BY FileKinds DEF Typed
<1>2. Balanced(purse')
  BY FreshIsBalanced DEF Typed
<1>3. Typed'
  BY <1>1, <1>2 DEF Typed
<1>4. ASSUME failures = 0 PROVE paid + saving.pays <= purse'.withdrawn
  <2>1. CASE purseFile = Missing
    <3>1. purse' = FreshPurse
      BY <2>1, FileKinds
    <3>2. paid \in Nat /\ paid <= 0
      BY <1>4, <2>1 DEF Typed, Intact, Withdrawn
    <3> QED
      BY <1>1, <3>1, <3>2, FreshIsBalanced
  <2>2. CASE purseFile # Missing
    BY <1>1, <1>4, <2>2 DEF Typed, Intact, Withdrawn
  <2> QED
    BY <2>1, <2>2
<1>5. Intact'
  BY <1>1, <1>4, FileKinds DEF Intact
<1> QED
  BY <1>3, <1>5

LEMMA AddRewardKeeps == ASSUME PurseInv, AddReward PROVE PurseInv'
<1>1. PICK height \in purse.last + 1 .. MaxRewardBlock, r \in 1..MaxReward :
        purse' = [purse EXCEPT !.balance = @ + r, !.earned = @ + r, !.last = height]
  BY DEF AddReward
<1>2. /\ saving = PurseIdle /\ purse \in AnyBook
      /\ UNCHANGED <<purseFile, tmpFile, saving, purseOpen, paid, saved, failures>>
  BY DEF AddReward, Called, PurseInv, Typed, Balanced
<1>3. r \in Nat /\ height \in Nat
  BY <1>1, <1>2, PurseAssumption DEF AnyBook
<1>4. Balanced(purse') /\ purse'.withdrawn = purse.withdrawn
  <2>1. purse' = [balance |-> purse.balance + r, earned |-> purse.earned + r,
                  withdrawn |-> purse.withdrawn, last |-> height]
    BY <1>1, <1>2 DEF AnyBook
  <2>2. /\ purse.balance \in Nat /\ purse.earned \in Nat /\ purse.withdrawn \in Nat
        /\ purse.balance + purse.withdrawn = purse.earned
    BY DEF PurseInv, Typed, Balanced, AnyBook
  <2>3. purse' \in AnyBook
    BY <1>3, <2>1, <2>2 DEF AnyBook
  <2> QED
    BY <1>3, <2>1, <2>2, <2>3 DEF Balanced
<1> QED
  BY <1>2, <1>4, FileKinds DEF PurseInv, Typed, Intact

LEMMA SavingType == ASSUME NEW amount \in Nat
    PROVE /\ Saving(amount) \in [step : {"backup", "open"}, pays : Nat]
          /\ Saving(amount).pays = amount
          /\ Saving(amount) # PurseIdle
          /\ Saving(amount).step # "none" /\ Saving(amount).step # "rename"
  BY DEF Saving, FirstStep, PurseIdle

\* withdraw saves before it counts as paid.
LEMMA WithdrawKeeps == ASSUME PurseInv, Withdraw PROVE PurseInv'
<1>1. PICK amount \in Withdrawable :
        LET taken == IF amount = 0 THEN purse.balance ELSE amount IN
        /\ purse' = [purse EXCEPT !.balance = @ - taken, !.withdrawn = @ + taken]
        /\ saving' = AfterWithdraw(taken)
        /\ paid' = IF saving' = PurseIdle THEN paid + taken ELSE paid
  BY DEF Withdraw
<1> DEFINE taken == IF amount = 0 THEN purse.balance ELSE amount
<1>2. /\ saving = PurseIdle /\ purse \in AnyBook /\ purseOpen
      /\ UNCHANGED <<purseFile, tmpFile, purseOpen, saved, failures>>
  BY DEF Withdraw, Called, PurseInv, Typed, Balanced
<1>3. taken \in Nat /\ taken <= purse.balance
  BY <1>2 DEF Withdrawable, AnyBook
<1>4. saving' = Saving(taken) /\ paid' = paid
  BY <1>1, <1>3, SavingType DEF AfterWithdraw
<1>5. Balanced(purse') /\ purse'.withdrawn = purse.withdrawn + taken
  <2>1. purse' = [purse EXCEPT !.balance = @ - taken, !.withdrawn = @ + taken]
    BY <1>1
  <2> HIDE DEF taken
  <2> QED
    BY <1>2, <1>3, <2>1, TakenBook DEF PurseInv, Typed
<1>6. Typed'
  BY <1>2, <1>3, <1>4, <1>5, SavingType DEF PurseInv, Typed
<1>7. ASSUME failures = 0 PROVE paid + saving'.pays <= purse'.withdrawn
  BY <1>2, <1>3, <1>4, <1>5, <1>7, SavingType, FileKinds DEF PurseInv, Typed, Intact, AnyBook
<1>8. Intact'
  BY <1>2, <1>3, <1>4, <1>7, SavingType DEF PurseInv, Intact
<1> QED
  BY <1>6, <1>8 DEF PurseInv

LEMMA SaveKeeps == ASSUME PurseInv, Save PROVE PurseInv'
<1>1. /\ saving = PurseIdle /\ purseOpen /\ saving' = Saving(0)
      /\ UNCHANGED <<purse, purseFile, tmpFile, purseOpen, paid, saved, failures>>
  BY DEF Save, Called
<1> QED
  BY <1>1, SavingType, FileKinds DEF PurseInv, Typed, Intact

\* reset starts to count anew, saved or not.
LEMMA ResetKeeps == ASSUME PurseInv, Reset PROVE PurseInv'
<1>1. /\ purse' = FreshPurse /\ paid' = 0 /\ purseOpen
      /\ saving' = Saving(0) \/ saving' = PurseIdle
      /\ UNCHANGED <<purseFile, tmpFile, purseOpen, saved, failures>>
  BY DEF Reset, Called
<1>2. saving'.pays = 0 /\ saving'.step # "rename"
  BY <1>1, SavingType, FileKinds
<1>3. Typed'
  BY <1>1, SavingType, FileKinds, FreshIsBalanced DEF PurseInv, Typed, PurseIdle
<1>4. failures = 0 => 0 <= Withdrawn(purseFile)
  BY DEF PurseInv, Typed, Intact, Balanced, AnyBook, Withdrawn
<1>5. Intact'
  BY <1>1, <1>2, <1>4, FreshIsBalanced DEF PurseInv, Intact, Withdrawn
<1> QED
  BY <1>3, <1>5 DEF PurseInv
-----------------------------------------------------------------------------
(* save_to_disk *)

\* One step on: what withdraw will return stays the same.
LEMMA StepOn ==
    ASSUME PurseInv, NEW from, NEW to \in {"copy", "open", "write", "rename"}, AtStep(from, to)
    PROVE  /\ saving' \in [step : {"copy", "open", "write", "rename"}, pays : Nat]
           /\ saving'.step = to /\ saving'.pays = saving.pays
           /\ purseOpen
  BY DEF PurseInv, Typed, AtStep

LEMMA BackupKeeps == ASSUME PurseInv, BackupOpens \/ BackupCopies PROVE PurseInv'
<1>1. /\ AtStep("backup", "copy") \/ AtStep("copy", "open")
      /\ UNCHANGED <<purse, purseFile, tmpFile, purseOpen, paid, saved, failures>>
  BY DEF BackupOpens, BackupCopies
<1>2. /\ saving' \in [step : {"copy", "open", "write", "rename"}, pays : Nat]
      /\ saving'.step \in {"copy", "open"} /\ saving'.pays = saving.pays /\ purseOpen
  BY <1>1, StepOn
<1> QED
  BY <1>1, <1>2 DEF PurseInv, Typed, Intact

LEMMA TmpOpensKeeps == ASSUME PurseInv, TmpOpens PROVE PurseInv'
<1>1. /\ AtStep("open", "write") /\ tmpFile' = Torn
      /\ UNCHANGED <<purse, purseFile, purseOpen, paid, saved, failures>>
  BY DEF TmpOpens, Target
<1>2. /\ saving' \in [step : {"copy", "open", "write", "rename"}, pays : Nat]
      /\ saving'.step = "write" /\ saving'.pays = saving.pays /\ purseOpen
  BY <1>1, StepOn
<1> QED
  BY <1>1, <1>2, FileKinds DEF PurseInv, Typed, Intact

LEMMA TmpWritesKeeps == ASSUME PurseInv, TmpWrites PROVE PurseInv'
<1>1. /\ AtStep("write", "rename")
      /\ \/ tmpFile' = Content(purse) /\ failures' = failures
         \/ tmpFile' = Torn /\ failures' = failures + 1
      /\ UNCHANGED <<purse, purseFile, purseOpen, paid, saved>>
  BY DEF TmpWrites, Target
<1>2. /\ saving' \in [step : {"copy", "open", "write", "rename"}, pays : Nat]
      /\ saving'.step = "rename" /\ saving'.pays = saving.pays /\ purseOpen
  BY <1>1, StepOn
<1>3. Typed'
  BY <1>1, <1>2, FileKinds DEF PurseInv, Typed
<1>4. Intact'
  BY <1>1, <1>2 DEF PurseInv, Typed, Intact
<1> QED
  BY <1>3, <1>4 DEF PurseInv

\* The rename puts the book in memory, with the withdrawal, in the file.
LEMMA RenamesKeeps == ASSUME PurseInv, Renames PROVE PurseInv'
<1>1. /\ purseOpen /\ saving.step = "rename" /\ saving' = PurseIdle
      /\ paid' = paid + saving.pays /\ purseFile' = tmpFile /\ tmpFile' = Missing
      /\ saved' = Content(purse) /\ UNCHANGED <<purse, purseOpen, failures>>
  BY DEF Renames, Returns
<1>2. Typed'
  BY <1>1, FileKinds DEF PurseInv, Typed, PurseIdle
<1>3. ASSUME failures = 0
      PROVE  /\ purseFile' = Content(purse)
             /\ paid' <= purse.withdrawn /\ purse.withdrawn \in Nat /\ paid' \in Nat
  BY <1>1, <1>3 DEF PurseInv, Typed, Intact, Balanced, AnyBook
<1>4. Intact'
  BY <1>1, <1>3, FileKinds DEF Intact, Withdrawn
<1> QED
  BY <1>2, <1>4 DEF PurseInv

LEMMA SaveFailsKeeps == ASSUME PurseInv, SaveFails PROVE PurseInv'
<1>1. /\ saving' = PurseIdle /\ paid' = paid + saving.pays /\ failures' = failures + 1
      /\ UNCHANGED <<purse, purseFile, tmpFile, purseOpen, saved>>
  BY DEF SaveFails, Returns
<1>2. Typed'
  BY <1>1, FileKinds DEF PurseInv, Typed, PurseIdle
<1>3. Intact'
  BY <1>1 DEF PurseInv, Typed, Intact
<1> QED
  BY <1>2, <1>3 DEF PurseInv

LEMMA PurseCrashKeeps == ASSUME PurseInv, PurseCrash PROVE PurseInv'
<1>1. /\ purseOpen' = FALSE /\ saving' = PurseIdle
      /\ UNCHANGED <<purse, purseFile, tmpFile, paid, saved, failures>>
  BY DEF PurseCrash
<1> QED
  BY <1>1, FileKinds DEF PurseInv, Typed, Intact, PurseIdle
-----------------------------------------------------------------------------
LEMMA PurseNextKeeps == ASSUME PurseInv, [PurseNext]_purseVars PROVE PurseInv'
<1>1. CASE UNCHANGED purseVars
  BY <1>1 DEF purseVars, PurseInv, Typed, Intact
<1> QED
  BY <1>1, OpenKeeps, AddRewardKeeps, WithdrawKeeps, SaveKeeps, ResetKeeps, BackupKeeps,
     TmpOpensKeeps, TmpWritesKeeps, RenamesKeeps, SaveFailsKeeps, PurseCrashKeeps
     DEF PurseNext

\* The inductive invariant holds throughout (all of validator_purse.cpp).
THEOREM PurseInvariant == PurseSpec => []PurseInv
  BY InitPurseInv, PurseNextKeeps, PTL DEF PurseSpec

\* What withdraw paid out does not come back over a crash.
THEOREM PaymentsStay == PurseSpec => []PaidStaysPaid
<1>1. PurseInv => PaidStaysPaid
  BY FileKinds DEF PurseInv, Typed, Intact, PaidStaysPaid, Called, Balanced, AnyBook
<1> QED
  BY <1>1, PurseInvariant, PTL

\* A start finds the book of the last save_to_disk.
THEOREM SavesAreFound == PurseSpec => []LastSaveFound
<1>1. PurseInv => LastSaveFound
  BY DEF PurseInv, Intact, LastSaveFound
<1> QED
  BY <1>1, PurseInvariant, PTL
-----------------------------------------------------------------------------
(* The bounds of what the purse counts *)

\* A book of blocks rewarded once each.
Bounded(b) ==
    Balanced(b) /\ b.last <= MaxRewardBlock /\ b.earned <= b.last * MaxReward

BoundedFile(f) == f \in {Missing, Torn} \/ \E b : Bounded(b) /\ f = Content(b)

\* Every book is bounded, in memory, in a file and in the history.
PurseBounded ==
    /\ Bounded(purse) /\ dirty \in BOOLEAN /\ purseOpen \in BOOLEAN
    /\ BoundedFile(purseFile) /\ BoundedFile(tmpFile) /\ BoundedFile(bakFile) /\ BoundedFile(saved)
    /\ saving.pays \in PurseAmounts
    /\ failures \in 0..MaxFailures /\ crashes \in 0..MaxCrashes

LEMMA TimesType == \A a, b \in Nat : a * b \in Nat
OBVIOUS

LEMMA TimesMore ==
    ASSUME NEW a \in Nat, NEW b \in Nat, NEW m \in Nat, a <= b
    PROVE  a * m \in Nat /\ b * m \in Nat /\ a * m <= b * m
<1>1. PICK d \in Nat : b = a + d
  <2>1. b - a \in Nat /\ b = a + (b - a)
    OBVIOUS
  <2> QED
    BY <2>1
<1>2. b * m = a * m + d * m
  BY <1>1
<1>3. a * m \in Nat /\ d * m \in Nat
  BY <1>1, TimesType
<1> QED
  BY <1>2, <1>3

\* What a bounded book counts is in range.
LEMMA BoundedBook ==
    ASSUME NEW b, Bounded(b)
    PROVE  b \in Books /\ b.balance \in PurseAmounts
<1>1. /\ b \in AnyBook /\ b.balance + b.withdrawn = b.earned
      /\ b.balance \in Nat /\ b.withdrawn \in Nat /\ b.earned \in Nat /\ b.last \in Nat
      /\ MaxRewardBlock \in Nat /\ MaxReward \in Nat
  BY PurseAssumption DEF Bounded, Balanced, AnyBook
<1>2. /\ b.last <= MaxRewardBlock /\ b.earned <= b.last * MaxReward
      /\ b.last * MaxReward \in Nat /\ MaxRewardBlock * MaxReward \in Nat
      /\ b.last * MaxReward <= MaxRewardBlock * MaxReward
  BY <1>1, TimesMore DEF Bounded
<1> DEFINE cap == MaxRewardBlock * MaxReward
<1>3. cap \in Nat /\ b.earned <= cap
  <2>1. \A x, y, z \in Nat : x <= y /\ y <= z => x <= z
    OBVIOUS
  <2> QED
    BY <1>1, <1>2, <2>1
<1>4. PurseAmounts = 0..cap
  BY DEF PurseAmounts
<1> HIDE DEF cap
<1>5. b.balance \in 0..cap /\ b.withdrawn \in 0..cap /\ b.earned \in 0..cap
  BY <1>1, <1>3
<1> QED
  BY <1>1, <1>2, <1>4, <1>5 DEF Books, AnyBook

LEMMA FreshIsBounded == Bounded(FreshPurse)
<1>1. FreshPurse.last = 0 /\ FreshPurse.earned = 0 /\ 0 * MaxReward = 0
  BY PurseAssumption DEF FreshPurse
<1> QED
  BY <1>1, FreshIsBalanced, PurseAssumption DEF Bounded

\* One more block, rewarded with r.
LEMMA RewardedIsBounded ==
    ASSUME Bounded(purse), NEW height \in purse.last + 1 .. MaxRewardBlock,
           NEW r \in 1..MaxReward, NEW b, Balanced(b),
           b.last = height, b.earned = purse.earned + r
    PROVE  Bounded(b)
<1>1. /\ purse.last \in Nat /\ purse.earned \in Nat /\ MaxReward \in Nat /\ MaxRewardBlock \in Nat
      /\ purse.earned <= purse.last * MaxReward
  BY PurseAssumption DEF Bounded, Balanced, AnyBook
<1>2. height \in Nat /\ purse.last + 1 <= height /\ height <= MaxRewardBlock /\ r \in Nat /\ r <= MaxReward
  BY <1>1
<1>3. (purse.last + 1) * MaxReward = purse.last * MaxReward + MaxReward
  BY <1>1
<1>4. (purse.last + 1) * MaxReward <= height * MaxReward /\ height * MaxReward \in Nat
  BY <1>1, <1>2, TimesMore
<1>5. purse.last * MaxReward \in Nat
  BY <1>1, TimesType
<1>6. purse.earned + r <= height * MaxReward
  <2> DEFINE before == purse.last * MaxReward
             after == height * MaxReward
             next == (purse.last + 1) * MaxReward
  <2>1. before \in Nat /\ after \in Nat /\ next = before + MaxReward /\ next <= after
    BY <1>3, <1>4, <1>5
  <2>2. purse.earned <= before
    BY <1>1
  <2> HIDE DEF before, after, next
  <2>3. purse.earned + r <= after
    BY <1>1, <1>2, <2>1, <2>2
  <2> QED
    BY <2>3 DEF after
<1> QED
  BY <1>2, <1>6 DEF Bounded

LEMMA InitPurseBounded == PurseInit => PurseBounded
<1> SUFFICES ASSUME PurseInit PROVE PurseBounded
  OBVIOUS
<1>1. MaxRewardBlock * MaxReward \in Nat
  BY PurseAssumption, TimesType
<1>2. saving.pays \in PurseAmounts
  BY <1>1, FileKinds DEF PurseInit, PurseAmounts
<1>3. Bounded(purse) /\ failures \in 0..MaxFailures /\ crashes \in 0..MaxCrashes
  BY FreshIsBounded, PurseAssumption DEF PurseInit
<1>4. BoundedFile(purseFile) /\ BoundedFile(tmpFile) /\ BoundedFile(bakFile) /\ BoundedFile(saved)
  BY DEF PurseInit, BoundedFile
<1>5. dirty \in BOOLEAN /\ purseOpen \in BOOLEAN
  BY DEF PurseInit
<1> QED
  BY <1>2, <1>3, <1>4, <1>5 DEF PurseBounded

LEMMA PurseStaysBounded ==
    ASSUME PurseInv, PurseBounded, [PurseNext]_purseVars
    PROVE  PurseBounded'
<1>1. Balanced(purse')
  BY PurseNextKeeps DEF PurseInv, Typed
<1>2. 0 \in PurseAmounts /\ \A n \in PurseAmounts : Saving(n).pays \in PurseAmounts
  BY PurseAssumption, TimesType DEF Saving, PurseAmounts
<1>3. PurseIdle.pays \in PurseAmounts
  BY <1>2, FileKinds
<1>4. CASE Open
  <2>1. Bounded(purse')
    <3>1. CASE purseFile.kind = "book"
      BY <1>4, <3>1, FileKinds DEF Open, PurseBounded, BoundedFile
    <3>2. CASE purseFile.kind # "book"
      BY <1>4, <3>2, FreshIsBounded DEF Open
    <3> QED
      BY <3>1, <3>2
  <2> QED
    BY <1>4, <2>1 DEF Open, PurseBounded
<1>5. CASE AddReward
  <2>1. PICK height \in purse.last + 1 .. MaxRewardBlock, r \in 1..MaxReward :
          purse' = [purse EXCEPT !.balance = @ + r, !.earned = @ + r, !.last = height]
    BY <1>5 DEF AddReward
  <2>2. purse \in AnyBook /\ Bounded(purse)
    BY DEF PurseBounded, Bounded, Balanced
  <2>3. purse'.last = height /\ purse'.earned = purse.earned + r
    BY <2>1, <2>2 DEF AnyBook
  <2>4. Bounded(purse')
    BY <1>1, <2>2, <2>3, RewardedIsBounded
  <2> QED
    BY <1>5, <2>4 DEF AddReward, PurseBounded
<1>6. CASE Withdraw
  <2>1. PICK amount \in Withdrawable :
          LET taken == IF amount = 0 THEN purse.balance ELSE amount IN
          /\ purse' = [purse EXCEPT !.balance = @ - taken, !.withdrawn = @ + taken]
          /\ saving' = AfterWithdraw(taken)
    BY <1>6 DEF Withdraw
  <2> DEFINE taken == IF amount = 0 THEN purse.balance ELSE amount
  <2>2. purse \in AnyBook /\ Bounded(purse) /\ purse.balance \in PurseAmounts
    BY BoundedBook DEF PurseBounded, Bounded, Balanced
  <2>3. taken \in PurseAmounts
    BY <2>2, PurseAssumption, TimesType DEF Withdrawable, PurseAmounts
  <2>4. saving'.pays \in PurseAmounts
    BY <1>2, <2>1, <2>3 DEF AfterWithdraw
  <2>5. purse'.last = purse.last /\ purse'.earned = purse.earned
    BY <2>1, <2>2 DEF AnyBook
  <2>6. Bounded(purse')
    BY <1>1, <2>2, <2>5 DEF Bounded
  <2> QED
    BY <1>6, <2>4, <2>6 DEF Withdraw, PurseBounded
<1>7. CASE Save
  BY <1>2, <1>7 DEF Save, PurseBounded
<1>8. CASE Reset
  BY <1>2, <1>3, <1>8, FreshIsBounded DEF Reset, PurseBounded
<1>9. CASE BackupOpens \/ BackupCopies \/ TmpOpens \/ TmpWrites
  <2>1. saving'.pays = saving.pays
    BY <1>9 DEF BackupOpens, BackupCopies, TmpOpens, TmpWrites, AtStep, PurseInv, Typed
  <2>2. BoundedFile(Torn) /\ BoundedFile(Content(purse))
    BY DEF BoundedFile, PurseBounded
  <2>3. UNCHANGED <<purse, dirty, purseFile, purseOpen, saved, crashes>>
    BY <1>9 DEF BackupOpens, BackupCopies, TmpOpens, TmpWrites, Target
  <2>4. BoundedFile(tmpFile') /\ BoundedFile(bakFile')
    BY <1>9, <2>2 DEF BackupOpens, BackupCopies, TmpOpens, TmpWrites, Target, PurseBounded
  <2>5. failures' \in 0..MaxFailures
    BY <1>9, PurseAssumption
       DEF BackupOpens, BackupCopies, TmpOpens, TmpWrites, Target, PurseBounded
  <2>6. BoundedFile(purseFile') /\ BoundedFile(saved') /\ Bounded(purse')
    BY <2>3 DEF PurseBounded
  <2>7. dirty' \in BOOLEAN /\ purseOpen' \in BOOLEAN
    BY <2>3 DEF PurseBounded
  <2>8. saving'.pays \in PurseAmounts /\ crashes' \in 0..MaxCrashes
    BY <2>1, <2>3 DEF PurseBounded
  <2> QED
    BY <2>4, <2>5, <2>6, <2>7, <2>8 DEF PurseBounded
<1>10. CASE Renames
  <2>1. /\ saving' = PurseIdle /\ purseFile' = tmpFile /\ tmpFile' = Missing
        /\ dirty' = FALSE /\ saved' = Content(purse)
        /\ UNCHANGED <<purse, bakFile, purseOpen, failures, crashes>>
    BY <1>10 DEF Renames, Returns
  <2>2. BoundedFile(Missing) /\ BoundedFile(Content(purse))
    BY DEF BoundedFile, PurseBounded
  <2>3. BoundedFile(purseFile') /\ BoundedFile(tmpFile') /\ BoundedFile(bakFile') /\ BoundedFile(saved')
    BY <2>1, <2>2 DEF PurseBounded
  <2>4. saving'.pays \in PurseAmounts
    BY <1>3, <2>1
  <2>5. dirty' \in BOOLEAN /\ purseOpen' \in BOOLEAN
    BY <2>1 DEF PurseBounded
  <2>6. /\ Bounded(purse')
        /\ failures' \in 0..MaxFailures /\ crashes' \in 0..MaxCrashes
    BY <2>1 DEF PurseBounded
  <2> QED
    BY <2>3, <2>4, <2>5, <2>6 DEF PurseBounded
<1>11. CASE SaveFails
  <2>1. /\ saving' = PurseIdle /\ failures < MaxFailures /\ failures' = failures + 1
        /\ UNCHANGED <<purse, dirty, purseFile, tmpFile, bakFile, purseOpen, saved, crashes>>
    BY <1>11 DEF SaveFails, Returns
  <2>2. saving'.pays \in PurseAmounts
    BY <1>3, <2>1
  <2>3. failures' \in 0..MaxFailures
    BY <2>1, PurseAssumption DEF PurseBounded
  <2>4. dirty' \in BOOLEAN /\ purseOpen' \in BOOLEAN
    BY <2>1 DEF PurseBounded
  <2> QED
    BY <2>1, <2>2, <2>3, <2>4 DEF PurseBounded
<1>12. CASE PurseCrash
  <2>1. /\ saving' = PurseIdle /\ purseOpen' = FALSE
        /\ crashes < MaxCrashes /\ crashes' = crashes + 1
        /\ UNCHANGED <<purse, dirty, purseFile, tmpFile, bakFile, saved, failures>>
    BY <1>12 DEF PurseCrash
  <2>2. saving'.pays \in PurseAmounts
    BY <1>3, <2>1
  <2>3. crashes' \in 0..MaxCrashes
    BY <2>1, PurseAssumption DEF PurseBounded
  <2>4. dirty' \in BOOLEAN /\ purseOpen' \in BOOLEAN
    BY <2>1 DEF PurseBounded
  <2> QED
    BY <2>1, <2>2, <2>3, <2>4 DEF PurseBounded
<1>13. CASE UNCHANGED purseVars
  BY <1>13 DEF purseVars, PurseBounded
<1> QED
  BY <1>4, <1>5, <1>6, <1>7, <1>8, <1>9, <1>10, <1>11, <1>12, <1>13 DEF PurseNext

\* The type invariant (validator_purse.hpp): no book counts more than the blocks it
\* was rewarded for.
THEOREM PurseTypeCorrect == PurseSpec => []PurseTypeOK
<1>1. ASSUME NEW f, BoundedFile(f) PROVE f \in Files
  <2>1. ASSUME NEW b, Bounded(b) PROVE Content(b) \in [kind : {"book"}, book : Books]
    BY <2>1, BoundedBook DEF Content
  <2> QED
    BY <1>1, <2>1 DEF BoundedFile, Files
<1>2. PurseInv /\ PurseBounded => PurseTypeOK
  <2> SUFFICES ASSUME PurseInv, PurseBounded PROVE PurseTypeOK
    OBVIOUS
  <2>1. purse \in Books
    BY BoundedBook DEF PurseBounded
  <2>2. {purseFile, tmpFile, bakFile, saved} \subseteq Files
    BY <1>1 DEF PurseBounded
  <2>3. saving \in [step : {"none", "backup", "copy", "open", "write", "rename"},
                    pays : PurseAmounts]
    BY DEF PurseInv, Typed, PurseBounded
  <2> QED
    BY <2>1, <2>2, <2>3 DEF PurseInv, Typed, PurseBounded, PurseTypeOK
<1>3. PurseInit => PurseBounded
  BY InitPurseBounded
<1>4. PurseInv /\ PurseBounded /\ [PurseNext]_purseVars => PurseBounded'
  BY PurseStaysBounded
<1> QED
  BY <1>2, <1>3, <1>4, PurseInvariant, PTL DEF PurseSpec
-----------------------------------------------------------------------------
(* Wallet: sums of amounts, in a list and over any finite set *)

\* A function whose values add up.
AddsUp(f) ==
    /\ IsFiniteSet(DOMAIN f)
    /\ f = [x \in DOMAIN f |-> f[x]]
    /\ \A x \in DOMAIN f : f[x] \in Nat

\* What is shown of every list of amounts.
Scales(s) ==
    /\ Summed(s) \in Nat
    /\ \A u \in Nat : Summed([i \in DOMAIN s |-> s[i] * u]) = Summed(s) * u

\* Sums are folds with Add.
OfAdd == INSTANCE FoldTheorems WITH Op <- Add, P <- Scales

LEMMA SummedFolds == \A s : Summed(s) = OfAdd!Fold(0, s)
BY DEF Summed, OfAdd!Fold, FoldLeft, OfAdd!FoldLeft, MapThenFoldSet,
       OfAdd!MapThenFoldSet, Max, OfAdd!Max

LEMMA WorthFolds == \A f : Worth(f) = OfAdd!Folded(0, f)
BY DEF Worth, OfAdd!Folded, FoldFunction, OfAdd!FoldFunction, FoldFunctionOnSet,
       OfAdd!FoldFunctionOnSet, MapThenFoldSet, OfAdd!MapThenFoldSet

\* The sum of a list, element by element.
LEMMA SummedNone == Summed(<< >>) = 0
BY SummedFolds, OfAdd!FoldEmpty

LEMMA SummedNext ==
    ASSUME NEW s \in Seq(Nat), NEW x \in Nat
    PROVE  Summed(Append(s, x)) = Summed(s) + x
BY SummedFolds, OfAdd!FoldAppend DEF Add

\* The places of a list with one element more.
LEMMA NextPlaces ==
    ASSUME NEW T, NEW s \in Seq(T), NEW x \in T
    PROVE  /\ DOMAIN Append(s, x) = DOMAIN s \union {Len(s) + 1}
           /\ Len(s) + 1 \notin DOMAIN s
           /\ Append(s, x)[Len(s) + 1] = x
           /\ \A i \in DOMAIN s : Append(s, x)[i] = s[i]
<1>1. DOMAIN s = 1..Len(s) /\ Len(s) \in Nat /\ Append(s, x) \in Seq(T)
      /\ Len(Append(s, x)) = Len(s) + 1
  OBVIOUS
<1>2. DOMAIN Append(s, x) = 1..(Len(s) + 1)
  BY <1>1
<1> QED
  BY <1>1, <1>2

\* A sum of amounts is an amount, and is counted in a smaller unit as its parts.
LEMMA SummedScales == \A s \in Seq(Nat) : Scales(s)
<1>1. Scales(<< >>)
  <2>1. \A u \in Nat : [i \in DOMAIN << >> |-> << >>[i] * u] = << >>
    OBVIOUS
  <2> QED
    BY <2>1, SummedNone DEF Scales
<1>2. ASSUME NEW s \in Seq(Nat), NEW x \in Nat, Scales(s)
      PROVE  Scales(Append(s, x))
  <2>1. Summed(Append(s, x)) = Summed(s) + x /\ Summed(s) \in Nat
    BY <1>2, SummedNext DEF Scales
  <2>2. ASSUME NEW u \in Nat
        PROVE  Summed([i \in DOMAIN Append(s, x) |-> Append(s, x)[i] * u])
                 = Summed(Append(s, x)) * u
    <3> DEFINE t == [i \in DOMAIN s |-> s[i] * u]
    <3>1. \A a, b \in Nat : a * b \in Nat
      OBVIOUS
    <3>2. x * u \in Nat /\ \A i \in DOMAIN s : s[i] * u \in Nat
      BY <3>1
    <3>3. t \in Seq(Nat) /\ Len(t) = Len(s) /\ DOMAIN s = 1..Len(s) /\ Len(s) \in Nat
      BY <3>2
    <3>4. [i \in DOMAIN Append(s, x) |-> Append(s, x)[i] * u] = Append(t, x * u)
      <4>1. Append(t, x * u) \in Seq(Nat) /\ Len(Append(t, x * u)) = Len(s) + 1
        BY <3>2, <3>3
      <4>2. DOMAIN Append(t, x * u) = DOMAIN Append(s, x)
        BY <3>3, <4>1
      <4>3. \A i \in DOMAIN Append(s, x) : Append(t, x * u)[i] = Append(s, x)[i] * u
        <5>1. /\ \A i \in DOMAIN t : Append(t, x * u)[i] = t[i]
              /\ Append(t, x * u)[Len(t) + 1] = x * u
          <6> HIDE DEF t
          <6> QED
            BY <3>2, <3>3, NextPlaces
        <5>2. /\ DOMAIN Append(s, x) = DOMAIN s \union {Len(s) + 1}
              /\ Append(s, x)[Len(s) + 1] = x
              /\ \A i \in DOMAIN s : Append(s, x)[i] = s[i]
          BY NextPlaces
        <5>3. \A i \in DOMAIN s : t[i] = s[i] * u
          OBVIOUS
        <5>4. DOMAIN t = DOMAIN s /\ Len(t) = Len(s)
          BY <3>3
        <5> HIDE DEF t
        <5> QED
          BY <5>1, <5>2, <5>3, <5>4
      <4> QED
        BY <4>1, <4>2, <4>3
    <3>5. Summed(Append(t, x * u)) = Summed(t) + x * u
      <4> HIDE DEF t
      <4> QED
        BY <3>2, <3>3, SummedNext
    <3>6. Summed(t) = Summed(s) * u
      BY <1>2 DEF Scales
    <3>7. (Summed(s) + x) * u = Summed(s) * u + x * u
      BY <2>1
    <3> QED
      BY <2>1, <3>4, <3>5, <3>6, <3>7
  <2> QED
    BY <2>1, <2>2 DEF Scales
<1> DEFINE N == Nat
<1>3. \A s \in Seq(N), x \in N : Scales(s) => Scales(Append(s, x))
  BY <1>2
<1> HIDE DEF N
<1>4. \A s \in Seq(N) : Scales(s)
  BY <1>1, <1>3, OfAdd!SeqInduction
<1> QED
  BY <1>4 DEF N

LEMMA SummedType == \A s \in Seq(Nat) : Summed(s) \in Nat
BY SummedScales DEF Scales

LEMMA FiniteIsFinite == \A S : IsFiniteSet(S) <=> OfAdd!IsFiniteSet(S)
BY DEF IsFiniteSet, OfAdd!IsFiniteSet

\* The sum of a function, argument by argument.
LEMMA WorthNone == \A f : DOMAIN f = {} => Worth(f) = 0
BY WorthFolds, OfAdd!FoldedNone

LEMMA WorthTake ==
    ASSUME NEW f, AddsUp(f)
    PROVE  /\ Worth(f) \in Nat
           /\ \A y \in DOMAIN f : Worth(f) = f[y] + Worth(OfAdd!Without(f, y))
<1> DEFINE N == Nat
<1>1. OfAdd!AnyOrder(N)
  BY DEF OfAdd!AnyOrder, Add
<1>2. OfAdd!IsFiniteSet(DOMAIN f) /\ 0 \in N /\ \A x \in DOMAIN f : f[x] \in N
  BY FiniteIsFinite DEF AddsUp
<1> HIDE DEF N
<1>3. /\ OfAdd!Folded(0, f) \in N
      /\ \A y \in DOMAIN f : OfAdd!Folded(0, f)
                              = Add(f[y], OfAdd!Folded(0, OfAdd!Without(f, y)))
  BY <1>1, <1>2, OfAdd!FoldedTake
<1> QED
  BY <1>3, WorthFolds DEF Add, N

\* One value more.
LEMMA WorthNext ==
    ASSUME NEW f, NEW y \in DOMAIN f, NEW e, AddsUp(e), f[y] \in Nat,
           y \notin DOMAIN e, f = [x \in DOMAIN f |-> f[x]],
           DOMAIN f = DOMAIN e \union {y}, \A x \in DOMAIN e : f[x] = e[x]
    PROVE  AddsUp(f) /\ Worth(f) = f[y] + Worth(e)
<1>1. AddsUp(f)
  BY FS_AddElement DEF AddsUp
<1>2. OfAdd!Without(f, y) = e
  <2>1. DOMAIN f \ {y} = DOMAIN e
    OBVIOUS
  <2>2. [x \in DOMAIN f \ {y} |-> f[x]] = [x \in DOMAIN e |-> e[x]]
    BY <2>1
  <2> QED
    BY <2>2 DEF AddsUp, OfAdd!Without
<1> QED
  BY <1>1, <1>2, WorthTake

\* The values of a function on two parts of its domain.
LEMMA WorthParts ==
    ASSUME NEW f, AddsUp(f), NEW S, NEW T, DOMAIN f = S \union T, S \cap T = {}
    PROVE  /\ AddsUp([x \in S |-> f[x]]) /\ AddsUp([x \in T |-> f[x]])
           /\ Worth(f) = Worth([x \in S |-> f[x]]) + Worth([x \in T |-> f[x]])
<1> DEFINE u == [x \in S |-> f[x]]
           v == [x \in T |-> f[x]]
           N == Nat
<1>1. AddsUp(u) /\ AddsUp(v)
  <2>1. IsFiniteSet(S) /\ IsFiniteSet(T)
    BY FS_Subset DEF AddsUp
  <2> QED
    BY <2>1 DEF AddsUp
<1>2. OfAdd!Both(u, v) = f
  <2>1. OfAdd!Both(u, v) = [x \in DOMAIN f |-> f[x]]
    BY DEF OfAdd!Both
  <2> QED
    BY <2>1 DEF AddsUp
<1>3. OfAdd!AnyOrder(N) /\ OfAdd!Groups(N, 0) /\ 0 \in N
  BY DEF OfAdd!AnyOrder, OfAdd!Groups, Add
<1>4. /\ OfAdd!IsFiniteSet(DOMAIN u) /\ OfAdd!IsFiniteSet(DOMAIN v)
      /\ v = [x \in DOMAIN v |-> v[x]]
      /\ \A x \in DOMAIN u : u[x] \in N
      /\ \A x \in DOMAIN v : v[x] \in N
      /\ DOMAIN u \cap DOMAIN v = {}
  BY <1>1, FiniteIsFinite DEF AddsUp
<1> HIDE DEF N, u, v
<1>5. OfAdd!Folded(0, OfAdd!Both(u, v)) = Add(OfAdd!Folded(0, u), OfAdd!Folded(0, v))
  BY <1>3, <1>4, OfAdd!FoldedBoth
<1>6. Worth(f) = Worth(u) + Worth(v)
  BY <1>2, <1>5, WorthFolds DEF Add
<1> QED
  BY <1>1, <1>6 DEF u, v

\* The values at the places of a list without repetitions.
SpreadOn(q) ==
    \A v : AddsUp(v) /\ DOMAIN v = ToSet(q) /\ IsInjective(q)
             => Worth(v) = Summed([i \in DOMAIN q |-> v[q[i]]])

OfSpread == INSTANCE FoldTheorems WITH Op <- Add, P <- SpreadOn

\* A function summed along a list that has each argument once.
LEMMA WorthSpread ==
    ASSUME NEW T, NEW q \in Seq(T), IsInjective(q),
           NEW v, AddsUp(v), DOMAIN v = ToSet(q)
    PROVE  Worth(v) = Summed([i \in DOMAIN q |-> v[q[i]]])
<1>1. SpreadOn(<< >>)
  <2> SUFFICES ASSUME NEW w, DOMAIN w = ToSet(<< >>)
               PROVE  Worth(w) = Summed([i \in DOMAIN << >> |-> w[<< >>[i]]])
    BY DEF SpreadOn
  <2>1. DOMAIN w = {}
    BY DEF ToSet
  <2>2. [i \in DOMAIN << >> |-> w[<< >>[i]]] = << >>
    OBVIOUS
  <2> QED
    BY <2>1, <2>2, WorthNone, SummedNone
<1>2. ASSUME NEW s \in Seq(T), NEW x \in T, SpreadOn(s)
      PROVE  SpreadOn(Append(s, x))
  <2> DEFINE t == Append(s, x)
             n == Len(s) + 1
  <2> SUFFICES ASSUME NEW w, AddsUp(w), DOMAIN w = ToSet(t), IsInjective(t)
               PROVE  Worth(w) = Summed([i \in DOMAIN t |-> w[t[i]]])
    BY DEF SpreadOn
  <2> DEFINE e == [y \in ToSet(s) |-> w[y]]
             p == [i \in DOMAIN s |-> w[s[i]]]
  <2>1. /\ DOMAIN t = DOMAIN s \union {n} /\ n \notin DOMAIN s /\ t[n] = x
        /\ \A i \in DOMAIN s : t[i] = s[i]
    BY NextPlaces
  <2> HIDE DEF t
  <2>2. ToSet(t) = ToSet(s) \union {x}
    BY <2>1 DEF ToSet
  <2>3. x \notin ToSet(s) /\ IsInjective(s)
    BY <2>1 DEF ToSet, IsInjective
  <2>4. AddsUp(e) /\ Worth(w) = Worth(e) + w[x] /\ w[x] \in Nat
    <3>1. AddsUp(e)
      <4>1. IsFiniteSet(ToSet(s))
        BY <2>2, FS_Subset DEF AddsUp
      <4> QED
        BY <2>2, <4>1 DEF AddsUp
    <3>2. w[x] \in Nat /\ x \in DOMAIN w /\ w = [y \in DOMAIN w |-> w[y]]
      BY <2>2 DEF AddsUp
    <3>3. /\ x \notin DOMAIN e /\ DOMAIN w = DOMAIN e \union {x}
          /\ \A y \in DOMAIN e : w[y] = e[y]
      BY <2>2, <2>3
    <3> HIDE DEF e
    <3>4. Worth(w) = w[x] + Worth(e) /\ Worth(e) \in Nat
      BY <3>1, <3>2, <3>3, WorthNext, WorthTake
    <3> QED
      BY <3>1, <3>2, <3>4
  <2>5. Worth(e) = Summed(p)
    <3>1. Worth(e) = Summed([i \in DOMAIN s |-> e[s[i]]])
      <4>1. DOMAIN e = ToSet(s)
        OBVIOUS
      <4> HIDE DEF e
      <4> QED
        BY <1>2, <2>3, <2>4, <4>1 DEF SpreadOn
    <3>2. \A i \in DOMAIN s : e[s[i]] = w[s[i]]
      BY DEF ToSet
    <3> QED
      BY <3>1, <3>2
  <2>6. DOMAIN s = 1..Len(s) /\ Len(s) \in Nat
    OBVIOUS
  <2>7. p \in Seq(Nat) /\ Len(p) = Len(s) /\ DOMAIN p = DOMAIN s
    <3>1. \A i \in DOMAIN s : w[s[i]] \in Nat
      BY <2>2 DEF AddsUp, ToSet
    <3> QED
      BY <2>6, <3>1
  <2>8. [i \in DOMAIN t |-> w[t[i]]] = Append(p, w[x])
    <3>1. /\ DOMAIN Append(p, w[x]) = DOMAIN p \union {n} /\ Append(p, w[x])[n] = w[x]
          /\ \A i \in DOMAIN p : Append(p, w[x])[i] = p[i]
      <4> HIDE DEF p
      <4> QED
        BY <2>4, <2>7, NextPlaces
    <3>2. Append(p, w[x]) = [i \in DOMAIN Append(p, w[x]) |-> Append(p, w[x])[i]]
      <4> HIDE DEF p
      <4> QED
        BY <2>4, <2>7
    <3>3. DOMAIN Append(p, w[x]) = DOMAIN t
      BY <2>1, <2>7, <3>1
    <3>4. \A i \in DOMAIN t : Append(p, w[x])[i] = w[t[i]]
      BY <2>1, <2>7, <3>1
    <3> HIDE DEF p
    <3> QED
      BY <3>2, <3>3, <3>4
  <2> HIDE DEF p, e
  <2> QED
    BY <2>4, <2>5, <2>7, <2>8, SummedNext
<1>3. \A s \in Seq(T) : SpreadOn(s)
  BY <1>1, <1>2, OfSpread!SeqInduction
<1> QED
  BY <1>3 DEF SpreadOn

\* Lists without repetitions and with nothing in common, one for each of a set.
Apart(S, Q) ==
    /\ \A c \in S : Q[c] \in Seq(ToSet(Q[c])) /\ IsInjective(Q[c])
    /\ \A c, d \in S : c # d => ToSet(Q[c]) \intersect ToSet(Q[d]) = {}

AllOf(S, Q) == UNION {ToSet(Q[c]) : c \in S}

SumOf(q, v) == Summed([i \in DOMAIN q |-> v[q[i]]])

SumsOf(S, Q, v) == [c \in S |-> SumOf(Q[c], v)]

\* What the lists name, added up list by list.
Families(S) ==
    \A Q, v : Apart(S, Q) /\ AddsUp(v) /\ DOMAIN v = AllOf(S, Q)
                => AddsUp(SumsOf(S, Q, v)) /\ Worth(v) = Worth(SumsOf(S, Q, v))

OfFamily == INSTANCE FoldTheorems WITH Op <- Add, P <- Families

LEMMA WorthFamily == \A S : IsFiniteSet(S) => Families(S)
<1>1. Families({})
  <2> SUFFICES ASSUME NEW v, NEW Q, DOMAIN v = AllOf({}, Q)
               PROVE  AddsUp(SumsOf({}, Q, v)) /\ Worth(v) = Worth(SumsOf({}, Q, v))
    BY DEF Families
  <2> DEFINE sums == SumsOf({}, Q, v)
  <2>1. DOMAIN sums = {} /\ sums = [c \in DOMAIN sums |-> sums[c]] /\ DOMAIN v = {}
    BY DEF SumsOf, AllOf
  <2> HIDE DEF sums
  <2>2. AddsUp(sums) /\ Worth(v) = Worth(sums)
    BY <2>1, FS_EmptySet, WorthNone DEF AddsUp
  <2> QED
    BY <2>2 DEF sums
<1>2. ASSUME NEW S, NEW d, IsFiniteSet(S), Families(S), d \notin S
      PROVE  Families(S \union {d})
  <2> DEFINE D == S \union {d}
  <2> SUFFICES ASSUME NEW Q, NEW v, Apart(D, Q), AddsUp(v), DOMAIN v = AllOf(D, Q)
               PROVE  AddsUp(SumsOf(D, Q, v)) /\ Worth(v) = Worth(SumsOf(D, Q, v))
    BY DEF Families
  <2> DEFINE sums == SumsOf(D, Q, v)
             others == AllOf(S, Q)
             u == [o \in others |-> v[o]]
             w == [o \in ToSet(Q[d]) |-> v[o]]
             part == SumsOf(S, Q, u)
  <2>1. DOMAIN v = others \union ToSet(Q[d])
    BY DEF AllOf
  <2>2. others \intersect ToSet(Q[d]) = {} /\ Apart(S, Q)
    <3>1. \A c \in S : ToSet(Q[c]) \intersect ToSet(Q[d]) = {}
      BY <1>2 DEF Apart
    <3> QED
      BY <3>1 DEF Apart, AllOf
  <2>3. AddsUp(u) /\ AddsUp(w) /\ Worth(v) = Worth(u) + Worth(w)
    <3> HIDE DEF others
    <3> QED
      BY <2>1, <2>2, WorthParts
  <2>4. AddsUp(part) /\ Worth(u) = Worth(part)
    <3>1. DOMAIN u = others
      OBVIOUS
    <3> HIDE DEF u
    <3> QED
      BY <1>2, <2>2, <2>3, <3>1 DEF Families
  <2>5. Worth(w) = sums[d]
    <3>1. Worth(w) = Summed([i \in DOMAIN Q[d] |-> w[Q[d][i]]])
      <4>1. DOMAIN w = ToSet(Q[d]) /\ Q[d] \in Seq(ToSet(Q[d])) /\ IsInjective(Q[d])
        BY DEF Apart
      <4> HIDE DEF w
      <4> QED
        BY <2>3, <4>1, WorthSpread
    <3>2. \A i \in DOMAIN Q[d] : w[Q[d][i]] = v[Q[d][i]]
      BY DEF ToSet
    <3>3. sums[d] = SumOf(Q[d], v)
      BY DEF SumsOf
    <3> HIDE DEF w
    <3> QED
      BY <3>1, <3>2, <3>3 DEF SumOf
  <2>6. ASSUME NEW c \in S PROVE sums[c] = part[c]
    <3>1. \A i \in DOMAIN Q[c] : u[Q[c][i]] = v[Q[c][i]]
      BY DEF ToSet, AllOf
    <3>2. sums[c] = SumOf(Q[c], v) /\ part[c] = SumOf(Q[c], u)
      BY DEF SumsOf
    <3> HIDE DEF u
    <3> QED
      BY <3>1, <3>2 DEF SumOf
  <2>7. Worth(w) \in Nat /\ Worth(part) \in Nat
    <3> HIDE DEF w, part
    <3> QED
      BY <2>3, <2>4, WorthTake
  <2>8. /\ sums = [c \in DOMAIN sums |-> sums[c]] /\ d \in DOMAIN sums
        /\ DOMAIN sums = DOMAIN part \union {d} /\ d \notin DOMAIN part
        /\ \A c \in DOMAIN part : sums[c] = part[c]
    <3>1. DOMAIN sums = D /\ DOMAIN part = S /\ sums = [c \in DOMAIN sums |-> sums[c]]
      BY DEF SumsOf
    <3> HIDE DEF sums, part
    <3> QED
      BY <1>2, <2>6, <3>1
  <2> HIDE DEF sums, part, u, w
  <2>9. AddsUp(sums) /\ Worth(sums) = sums[d] + Worth(part)
    BY <2>4, <2>5, <2>7, <2>8, WorthNext
  <2>10. Worth(v) = Worth(sums)
    BY <2>3, <2>4, <2>5, <2>7, <2>9
  <2> QED
    BY <2>9, <2>10 DEF sums
<1>4. \A S : OfFamily!IsFiniteSet(S) <=> IsFiniteSet(S)
  BY DEF IsFiniteSet, OfFamily!IsFiniteSet
<1>5. \A T, x : OfFamily!IsFiniteSet(T) /\ Families(T) /\ x \notin T => Families(T \union {x})
  BY <1>2, <1>4
<1>6. \A S : OfFamily!IsFiniteSet(S) => Families(S)
  BY <1>1, <1>5, OfFamily!SetInduction
<1> QED
  BY <1>4, <1>6

\* Two values of everything, added.
PairsOn(S) ==
    \A f, g : AddsUp(f) /\ AddsUp(g) /\ DOMAIN f = S /\ DOMAIN g = S
                => LET both == [x \in S |-> f[x] + g[x]]
                   IN  AddsUp(both) /\ Worth(both) = Worth(f) + Worth(g)

OfPairs == INSTANCE FoldTheorems WITH Op <- Add, P <- PairsOn

LEMMA WorthPairs == \A S : IsFiniteSet(S) => PairsOn(S)
<1>1. PairsOn({})
  <2> SUFFICES ASSUME NEW f, DOMAIN f = {}, NEW g, DOMAIN g = {}
               PROVE  LET both == [x \in {} |-> f[x] + g[x]]
                      IN  AddsUp(both) /\ Worth(both) = Worth(f) + Worth(g)
    BY DEF PairsOn
  <2> DEFINE both == [x \in {} |-> f[x] + g[x]]
  <2>1. DOMAIN both = {} /\ both = [x \in DOMAIN both |-> both[x]]
    OBVIOUS
  <2> HIDE DEF both
  <2>2. AddsUp(both) /\ Worth(both) = Worth(f) + Worth(g)
    BY <2>1, FS_EmptySet, WorthNone DEF AddsUp
  <2> QED
    BY <2>2 DEF both
<1>2. ASSUME NEW S, NEW d, IsFiniteSet(S), PairsOn(S), d \notin S
      PROVE  PairsOn(S \union {d})
  <2> SUFFICES ASSUME NEW f, NEW g, AddsUp(f), AddsUp(g),
                      DOMAIN f = S \union {d}, DOMAIN g = S \union {d}
               PROVE LET both == [x \in S \union {d} |-> f[x] + g[x]]
                     IN  AddsUp(both) /\ Worth(both) = Worth(f) + Worth(g)
    BY DEF PairsOn
  <2> DEFINE both == [x \in S \union {d} |-> f[x] + g[x]]
             a == [x \in S |-> f[x]]
             b == [x \in S |-> g[x]]
             part == [x \in S |-> a[x] + b[x]]
  <2>1. AddsUp(a) /\ AddsUp(b)
    BY <1>2 DEF AddsUp
  <2>2. f[d] \in Nat /\ g[d] \in Nat /\ \A x \in S : f[x] \in Nat /\ g[x] \in Nat
    BY DEF AddsUp
  <2>3. Worth(f) = f[d] + Worth(a)
    <3>1. /\ f = [x \in DOMAIN f |-> f[x]] /\ d \notin DOMAIN a
          /\ DOMAIN f = DOMAIN a \union {d} /\ \A x \in DOMAIN a : f[x] = a[x]
      BY <1>2 DEF AddsUp
    <3> HIDE DEF a
    <3> QED
      BY <2>1, <2>2, <3>1, WorthNext
  <2>4. Worth(g) = g[d] + Worth(b)
    <3>1. /\ g = [x \in DOMAIN g |-> g[x]] /\ d \notin DOMAIN b
          /\ DOMAIN g = DOMAIN b \union {d} /\ \A x \in DOMAIN b : g[x] = b[x]
      BY <1>2 DEF AddsUp
    <3> HIDE DEF b
    <3> QED
      BY <2>1, <2>2, <3>1, WorthNext
  <2>5. AddsUp(part) /\ Worth(part) = Worth(a) + Worth(b)
    <3>1. DOMAIN a = S /\ DOMAIN b = S
      OBVIOUS
    <3> HIDE DEF a, b
    <3> QED
      BY <1>2, <2>1, <3>1 DEF PairsOn
  <2>6. Worth(a) \in Nat /\ Worth(b) \in Nat
    <3> HIDE DEF a, b
    <3> QED
      BY <2>1, WorthTake
  <2>7. /\ both = [x \in DOMAIN both |-> both[x]] /\ d \in DOMAIN both
        /\ DOMAIN both = DOMAIN part \union {d} /\ d \notin DOMAIN part
        /\ both[d] = f[d] + g[d] /\ both[d] \in Nat
        /\ \A x \in DOMAIN part : both[x] = part[x]
    BY <1>2, <2>2
  <2> HIDE DEF both, part, a, b
  <2>8. AddsUp(both) /\ Worth(both) = both[d] + Worth(part)
    BY <2>5, <2>7, WorthNext
  <2>9. Worth(both) = Worth(f) + Worth(g)
    BY <2>2, <2>3, <2>4, <2>5, <2>6, <2>7, <2>8
  <2> QED
    BY <2>8, <2>9 DEF both
<1>4. \A S : OfPairs!IsFiniteSet(S) <=> IsFiniteSet(S)
  BY DEF IsFiniteSet, OfPairs!IsFiniteSet
<1>5. \A T, x : OfPairs!IsFiniteSet(T) /\ PairsOn(T) /\ x \notin T => PairsOn(T \union {x})
  BY <1>2, <1>4
<1>6. \A S : OfPairs!IsFiniteSet(S) => PairsOn(S)
  BY <1>1, <1>5, OfPairs!SetInduction
<1> QED
  BY <1>4, <1>6

(* The inductive invariant of the wallet *)

Places == (Commands \union DOMAIN Coinbases) \X (Nat \ {0})

Paid == [addr : {Me, Other}, value : Nat]

SignedTxs == [kind : Kinds \union {"none"}, ins : Seq(Places), outs : Seq(Paid),
              fee : Nat, scale : Nat, typed : Nat]

Rows == [at : Places, worth : Nat]

Calls == [step : {"start", "list", "pick", "send", "accepted", "refused", "failed"},
          kind : Kinds \union {"none"}, scale : Nat, pay : Nat, fee : Nat, typed : Nat,
          rows : SUBSET Rows, late : BOOLEAN]

\* The types of the variables; all that is counted is finite.
WalletTyped ==
    /\ tipHeight \in Nat /\ tipHeight + 2 >= Activation
    /\ DOMAIN unspent \subseteq Places /\ IsFiniteSet(DOMAIN unspent)
    /\ mempool \subseteq Commands /\ IsFiniteSet(mempool)
    /\ DOMAIN mined \subseteq Commands /\ IsFiniteSet(DOMAIN mined)
    /\ \A c \in DOMAIN mined : mined[c] \in 1..tipHeight
    /\ signed \in [Commands -> SignedTxs]
    /\ call \in [Commands -> Calls]

\* A coin of the start, or an output of a transaction.
FromStart(o) == o[1] \in DOMAIN Coinbases /\ o[2] = 1
IsOut(o) == o[1] \in Commands /\ o[2] \in DOMAIN signed[o[1]].outs
OutOf(o) == signed[o[1]].outs[o[2]]

IsSigned(c) == signed[c].kind # "none"

\* A unit that a command can have read by now.
UnitSeen(u) == u \in {1, PiPerOldUnit} /\ (u # PiPerOldUnit => tipHeight + 1 >= Activation)

\* What an output is worth once it is in a block, and to who signed it.
PiOf(o) == IF FromStart(o) THEN Pi(Coinbases[o[1]], 1) ELSE Pi(OutOf(o).value, mined[o[1]])
FaceOf(o) ==
    IF FromStart(o) THEN Pi(Coinbases[o[1]], 1) ELSE OutOf(o).value * signed[o[1]].scale

\* An old transaction that can only be mined, or was mined, in a new block.
Doomed(c) ==
    /\ signed[c].scale # 1
    /\ IF c \in DOMAIN mined THEN mined[c] >= Activation ELSE tipHeight + 1 >= Activation

\* A coin of the start or an output of what was signed.
Exists(o) == FromStart(o) \/ (IsOut(o) /\ IsSigned(o[1]))

\* What is signed spends what exists, each once, and counts in a unit that was read.
SignedSound(tx) ==
    /\ \A i \in DOMAIN tx.ins : Exists(tx.ins[i])
    /\ IsInjective(tx.ins)
    /\ UnitSeen(tx.scale)

SpendsSigned == \A c \in Commands : IsSigned(c) => SignedSound(signed[c])

\* Where a command is and what became of its transaction.
Stage(c, k) ==
    /\ c \in mempool \union DOMAIN mined => k.step = "accepted"
    /\ k.step \in {"start", "list", "pick"} => signed[c] = NoTx
    /\ k.step \in {"send", "accepted"} => IsSigned(c) /\ signed[c].kind = k.kind
    /\ k.step \in {"list", "pick", "send"} => k.kind \in Kinds
    /\ k.step = "refused" => k.late \/ k.kind \in FlagKinds

\* The unit a command counts in is one it read, the last one unless it is late.
Counting(k) ==
    k.step \in {"list", "pick", "send"} =>
      /\ UnitSeen(k.scale)
      /\ ~k.late => /\ k.scale = UnitAt(tipHeight + 1)
                    /\ k.kind \notin FlagKinds => k.fee >= LeastFee(tipHeight + 1)

\* Nothing was mined since the command read the coins.
Fresh(k) == ~k.late \/ (tipHeight + 1 = Activation /\ k.scale # PiPerOldUnit)

\* The coins a command listed, each with what it is worth; all of them as long
\* as nothing was mined.
RowsTrue(k) ==
    k.step = "pick" =>
      /\ IsFiniteSet(k.rows)
      /\ \A r \in k.rows : /\ FromStart(r.at) \/ (IsOut(r.at) /\ r.at[1] \in DOMAIN mined)
                           /\ r.worth * k.scale = PiOf(r.at)
      /\ \A r, s \in k.rows : r.at = s.at => r = s
      /\ Fresh(k) => {r.at : r \in k.rows} = {o \in DOMAIN unspent : unspent[o].addr = Me}

\* What a command that was alone signed, the node takes.
StillGood(c, k) ==
    k.step = "send" /\ ~k.late /\ k.kind \notin FlagKinds
      => Funded(signed[c], tipHeight + 1) /\ ToSet(signed[c].ins) \intersect Spent = {}

CallSound(c, k) == Stage(c, k) /\ Counting(k) /\ RowsTrue(k) /\ StillGood(c, k)

\* What is known of each command.
CallsSound == \A c \in Commands : CallSound(c, call[c])

\* Every unspent output is a coin of the start or an output of a mined transaction.
Coined ==
    \A o \in DOMAIN unspent :
      \/ FromStart(o) /\ unspent[o] = [addr |-> Me, value |-> Coinbases[o[1]], born |-> 1]
      \/ /\ IsOut(o) /\ o[1] \in DOMAIN mined
         /\ unspent[o] = [addr |-> OutOf(o).addr, value |-> OutOf(o).value, born |-> mined[o[1]]]

\* What waits in the mempool spends no coin twice; what a block took and is still
\* there has its outputs in the chain already, unless they are spent again.
PoolSound ==
    /\ leaving = mempool \intersect DOMAIN mined
    /\ \A c \in leaving : mined[c] = tipHeight
    /\ \A c \in leaving : \A i \in DOMAIN signed[c].outs : <<c, i>> \in DOMAIN unspent \union Spent
    /\ \A c, d \in mempool : c # d => ToSet(signed[c].ins) \intersect ToSet(signed[d].ins) = {}
    /\ \A c \in mempool : signed[c].kind \notin FlagKinds

\* The fee and the unit of what was mined.
MinedSound ==
    \A c \in DOMAIN mined :
      /\ signed[c].fee >= LeastFee(mined[c])
      /\ mined[c] < Activation => signed[c].scale = PiPerOldUnit

\* A transaction spends what it pays, at the worth its signer counted with.
Exact ==
    \A c \in Commands :
      /\ IsSigned(c) /\ ~Doomed(c) /\ signed[c].kind \notin FlagKinds
      /\ \A i \in DOMAIN signed[c].ins :
           FromStart(signed[c].ins[i]) \/ ~Doomed(signed[c].ins[i][1])
      => Summed([i \in DOMAIN signed[c].ins |-> FaceOf(signed[c].ins[i])])
           = (OutSum(signed[c]) + signed[c].fee) * signed[c].scale

\* The inductive invariant.
WalletInv ==
    /\ WalletTyped /\ SpendsSigned /\ CallsSound /\ Coined
    /\ PoolSound /\ MinedSound /\ Exact /\ WealthKept
-----------------------------------------------------------------------------
(* Units and amounts *)

LEMMA DivideOne == \A a \in Nat : a \div 1 = a /\ a * 1 = a
OBVIOUS

LEMMA DivideSelf == \A a \in Nat \ {0} : a \div a = 1
OBVIOUS

LEMMA DivideType ==
    ASSUME NEW a \in Nat, NEW b \in Nat \ {0}
    PROVE  a \div b \in Nat
OBVIOUS

\* An amount that a unit divides is so many units.
LEMMA Divides ==
    ASSUME NEW a \in Nat, NEW b \in Nat \ {0}, a % b = 0
    PROVE  a \div b \in Nat /\ (a \div b) * b = a
OBVIOUS

LEMMA DividesSome ==
    ASSUME NEW a \in Nat \ {0}, NEW b \in Nat \ {0}, a % b = 0
    PROVE  a \div b >= 1
BY Divides

LEMMA Cancel ==
    ASSUME NEW a \in Nat, NEW b \in Nat, NEW u \in Nat \ {0}, a * u = b * u
    PROVE  a = b
OBVIOUS

\* What the assumption says of each constant.
LEMMA Limits ==
    /\ {PiPerOldUnit, MinFeePi, Activation, MaxInputs, MaxTipHeight} \subseteq Nat \ {0}
    /\ Activation > 2 /\ MinFeePi <= PiPerOldUnit
    /\ \A a \in Amounts \union TypedFees : a \in Nat \ {0}
    /\ Commands \intersect DOMAIN Coinbases = {}
    /\ IsFiniteSet(DOMAIN Coinbases) /\ \A c \in DOMAIN Coinbases : Coinbases[c] \in Nat
BY WalletAssumption

\* The unit and the least fee of a height.
LEMMA UnitsAt ==
    ASSUME NEW h \in Nat
    PROVE  /\ UnitAt(h) \in Nat \ {0} /\ UnitAt(h) \in {1, PiPerOldUnit}
           /\ h >= Activation => UnitAt(h) = 1 /\ LeastFee(h) = MinFeePi
           /\ h < Activation => UnitAt(h) = PiPerOldUnit /\ LeastFee(h) = 1
BY Limits DEF UnitAt, LeastFee

LEMMA LeastOfTwo ==
    ASSUME NEW a \in Nat, NEW b \in Nat
    PROVE  Min({a, b}) \in {a, b} /\ Min({a, b}) <= a /\ Min({a, b}) <= b
<1>1. \E x \in {a, b} : \A y \in {a, b} : x <= y
  <2>1. CASE a <= b
    BY <2>1
  <2>2. CASE ~(a <= b)
    BY <2>2
  <2> QED
    BY <2>1, <2>2
<1> QED
  BY <1>1 DEF Min

LEMMA SummedOne == \A x \in Nat : Summed(<<x>>) = x
<1> SUFFICES ASSUME NEW x \in Nat PROVE Summed(<<x>>) = x
  OBVIOUS
<1>1. <<x>> = Append(<< >>, x) /\ << >> \in Seq(Nat)
  OBVIOUS
<1>2. Summed(Append(<< >>, x)) = Summed(<< >>) + x
  BY <1>1, SummedNext
<1>3. Summed(<<x>>) = 0 + x
  BY <1>1, <1>2, SummedNone
<1> QED
  BY <1>3

LEMMA SummedTwo == \A x, y \in Nat : Summed(<<x, y>>) = x + y
<1> SUFFICES ASSUME NEW x \in Nat, NEW y \in Nat PROVE Summed(<<x, y>>) = x + y
  OBVIOUS
<1>1. <<x, y>> = Append(<<x>>, y) /\ <<x>> \in Seq(Nat)
  OBVIOUS
<1>2. Summed(Append(<<x>>, y)) = Summed(<<x>>) + y
  BY <1>1, SummedNext
<1> QED
  BY <1>1, <1>2, SummedOne

LEMMA JoinOnes ==
    ASSUME NEW S, NEW y \in S, NEW z \in S
    PROVE  <<y>> \o <<z>> = <<y, z>>
<1> DEFINE a == <<y>>
           t == <<y, z>>
<1>0. a \o <<z>> = Append(a, z)
  OBVIOUS
<1>1. a \in Seq(S) /\ Len(a) = 1 /\ a[1] = y
  OBVIOUS
<1>2. t \in Seq(S) /\ Len(t) = 2 /\ t[1] = y /\ t[2] = z
  OBVIOUS
<1> HIDE DEF a, t
<1>3. Append(a, z) = t
  BY <1>1, <1>2
<1> QED
  BY <1>0, <1>3 DEF a, t

\* A union of finitely many finite sets.
UnionsFinite(S) ==
    \A Q : (\A c \in S : IsFiniteSet(Q[c])) => IsFiniteSet(UNION {Q[c] : c \in S})

OfUnion == INSTANCE FoldTheorems WITH Op <- Add, P <- UnionsFinite

LEMMA FiniteUnions == \A S : IsFiniteSet(S) => UnionsFinite(S)
<1>1. UnionsFinite({})
  <2>1. \A Q : UNION {Q[c] : c \in {}} = {}
    OBVIOUS
  <2> QED
    BY <2>1, FS_EmptySet DEF UnionsFinite
<1>2. ASSUME NEW T, NEW x, UnionsFinite(T) PROVE UnionsFinite(T \union {x})
  <2> SUFFICES ASSUME NEW Q, \A c \in T \union {x} : IsFiniteSet(Q[c])
               PROVE  IsFiniteSet(UNION {Q[c] : c \in T \union {x}})
    BY DEF UnionsFinite
  <2>1. IsFiniteSet(UNION {Q[c] : c \in T}) /\ IsFiniteSet(Q[x])
    BY <1>2 DEF UnionsFinite
  <2> DEFINE A == UNION {Q[c] : c \in T}
  <2>2. UNION {Q[c] : c \in T \union {x}} = A \union Q[x]
    OBVIOUS
  <2> HIDE DEF A
  <2>3. IsFiniteSet(A \union Q[x])
    BY <2>1, FS_Union DEF A
  <2> QED
    BY <2>2, <2>3
<1>4. \A S : OfUnion!IsFiniteSet(S) <=> IsFiniteSet(S)
  BY DEF IsFiniteSet, OfUnion!IsFiniteSet
<1>5. \A T, x : OfUnion!IsFiniteSet(T) /\ UnionsFinite(T) /\ x \notin T => UnionsFinite(T \union {x})
  BY <1>2
<1>6. \A S : OfUnion!IsFiniteSet(S) => UnionsFinite(S)
  BY <1>1, <1>5, OfUnion!SetInduction
<1> QED
  BY <1>4, <1>6

\* Outpoints of the outputs of a set of commands.
OutputsOf(S) == UNION {{<<c, i>> : i \in DOMAIN signed[c].outs} : c \in S}

LEMMA FiniteOutputs ==
    ASSUME WalletTyped, NEW S \in SUBSET Commands, IsFiniteSet(S)
    PROVE  IsFiniteSet(OutputsOf(S)) /\ OutputsOf(S) \subseteq Places
<1> DEFINE Q == [c \in S |-> {<<c, i>> : i \in DOMAIN signed[c].outs}]
<1>1. ASSUME NEW c \in S
      PROVE  IsFiniteSet(Q[c]) /\ Q[c] \subseteq Places
  <2>1. signed[c].outs \in Seq(Paid)
    BY DEF WalletTyped, SignedTxs
  <2>2. PICK n \in Nat : DOMAIN signed[c].outs = 1..n
    BY <2>1
  <2> DEFINE f == [i \in 1..n |-> <<c, i>>]
  <2>3. f \in Surjection(1..n, Q[c])
    BY <2>2 DEF Surjection
  <2>4. IsFiniteSet(1..n)
    BY FS_Interval
  <2> HIDE DEF f, Q
  <2>5. IsFiniteSet(Q[c])
    BY <2>3, <2>4, FS_Surjection
  <2>6. Q[c] \subseteq Places
    BY <2>2 DEF Q, Places
  <2> QED
    BY <2>5, <2>6
<1>2. OutputsOf(S) = UNION {Q[c] : c \in S}
  BY DEF OutputsOf
<1> HIDE DEF Q
<1>3. IsFiniteSet(UNION {Q[c] : c \in S})
  BY <1>1, FiniteUnions DEF UnionsFinite
<1>4. UNION {Q[c] : c \in S} \subseteq Places
  BY <1>1
<1> QED
  BY <1>2, <1>3, <1>4
-----------------------------------------------------------------------------
(* What a command picks *)

\* A sorted list has every coin once.
LEMMA SortedOnce ==
    ASSUME NEW S, IsFiniteSet(S), NEW down, NEW q \in Sorted(S, down)
    PROVE  q \in Seq(S) /\ Len(q) = Cardinality(S) /\ IsInjective(q)
<1>1. Cardinality(S) \in Nat
  BY FS_CardinalityType
<1>2. q \in [1..Cardinality(S) -> S] /\ \A i, j \in 1..Cardinality(S) : i # j => q[i] # q[j]
  BY DEF Sorted, SetToSeqs
<1> QED
  BY <1>1, <1>2 DEF IsInjective

\* Nor has its beginning any coin twice.
LEMMA FirstOnce ==
    ASSUME NEW S, NEW q \in Seq(S), IsInjective(q), NEW n \in Nat, n <= Len(q)
    PROVE  SubSeq(q, 1, n) \in Seq(S) /\ IsInjective(SubSeq(q, 1, n))
<1>1. /\ SubSeq(q, 1, n) \in Seq(S) /\ DOMAIN SubSeq(q, 1, n) = 1..n
      /\ \A i \in 1..n : SubSeq(q, 1, n)[i] = q[i] /\ i \in DOMAIN q
  OBVIOUS
<1> QED
  BY <1>1 DEF IsInjective

\* The coins a command picks from are finitely many, each once, and spent by nobody.
LEMMA CoinsAre ==
    ASSUME WalletTyped, CallsSound, NEW c \in Commands, call[c].step = "pick"
    PROVE  /\ IsFiniteSet(Coins(c)) /\ Unreserved(c) \subseteq Coins(c)
           /\ \A r \in Coins(c) : r.at \in Places /\ r.worth \in Nat /\ r.at \notin Spent
           /\ \A r, s \in Coins(c) : r.at = s.at => r = s
<1>1. /\ IsFiniteSet(call[c].rows) /\ call[c].rows \subseteq Rows
      /\ \A r, s \in call[c].rows : r.at = s.at => r = s
  BY DEF CallsSound, CallSound, RowsTrue, WalletTyped, Calls
<1>2. Unreserved(c) \subseteq call[c].rows /\ IsFiniteSet(Unreserved(c))
  BY <1>1, FS_Subset DEF Unreserved
<1>3. Pending = OutputsOf(mempool) /\ IsFiniteSet(Pending) /\ Pending \subseteq Places
  <2>1. Pending = OutputsOf(mempool)
    BY DEF Pending, OutputsOf
  <2> QED
    BY <2>1, FiniteOutputs DEF WalletTyped
<1>4. ASSUME NEW p \in Pending
      PROVE  signed[p[1]].outs[p[2]].value \in Nat
  <2>1. PICK d \in mempool : p[1] = d /\ p[2] \in DOMAIN signed[d].outs
    BY DEF Pending
  <2>2. signed[d].outs \in Seq(Paid)
    BY DEF WalletTyped, SignedTxs
  <2>3. signed[d].outs[p[2]] \in Paid
    BY <2>1, <2>2
  <2> QED
    BY <2>1, <2>3 DEF Paid
<1>5. IsFiniteSet(PendingCoins(c))
  <2> DEFINE P == {p \in Pending \ Spent : signed[p[1]].outs[p[2]].addr = Me /\ ~Listed(c, p)}
             f == [o \in P |-> [at |-> o, worth |-> signed[o[1]].outs[o[2]].value, pool |-> TRUE]]
  <2>1. IsFiniteSet(P)
    BY <1>3, FS_Subset
  <2>2. f \in Surjection(P, PendingCoins(c))
    BY DEF Surjection, PendingCoins
  <2> HIDE DEF f, P
  <2> QED
    BY <2>1, <2>2, FS_Surjection
<1>6. IsFiniteSet(Coins(c)) /\ Unreserved(c) \subseteq Coins(c)
  BY <1>2, <1>5, FS_Union DEF Coins
<1>7. ASSUME NEW r \in Unreserved(c)
      PROVE  r.at \in Places /\ r.worth \in Nat /\ r.at \notin Spent /\ Listed(c, r.at)
             /\ r \in call[c].rows
  BY <1>1 DEF Unreserved, Rows, Listed
<1>8. ASSUME NEW r \in PendingCoins(c)
      PROVE  r.at \in Places /\ r.worth \in Nat /\ r.at \notin Spent /\ ~Listed(c, r.at)
             /\ r = [at |-> r.at, worth |-> signed[r.at[1]].outs[r.at[2]].value, pool |-> TRUE]
  BY <1>3, <1>4 DEF PendingCoins
<1>9. \A r \in Coins(c) : r \in Unreserved(c) \/ r \in PendingCoins(c)
  BY DEF Coins
<1>10. ASSUME NEW r \in Coins(c), NEW s \in Coins(c), r.at = s.at PROVE r = s
  <2>1. CASE r \in Unreserved(c)
    <3>1. s \in Unreserved(c)
      BY <1>7, <1>8, <1>9, <1>10, <2>1
    <3> QED
      BY <1>1, <1>7, <1>10, <2>1, <3>1
  <2>2. CASE r \in PendingCoins(c)
    <3>1. s \in PendingCoins(c)
      BY <1>7, <1>8, <1>9, <1>10, <2>2
    <3> QED
      BY <1>8, <1>10, <2>2, <3>1
  <2> QED
    BY <1>9, <2>1, <2>2
<1> QED
  BY <1>6, <1>7, <1>8, <1>9, <1>10

\* The values of a list of outputs.
Values(outs) == [i \in DOMAIN outs |-> outs[i].value]

\* With the change, a plan pays what it takes (Change).
LEMMA ChangeBack ==
    ASSUME NEW q, NEW need \in Nat, InAll(q) \in Nat, InAll(q) >= need
    PROVE  /\ Change(q, need) \in Seq(Paid)
           /\ Summed(Values(Change(q, need))) = InAll(q) - need
<1>1. CASE InAll(q) > need
  <2> DEFINE v == InAll(q) - need
             p == [addr |-> Me, value |-> v]
  <2>1. v \in Nat /\ p \in Paid /\ Change(q, need) = <<p>>
    BY <1>1 DEF Paid, Change
  <2>2. Values(<<p>>) = <<v>>
    BY DEF Values
  <2> HIDE DEF v, p
  <2>3. Summed(Values(Change(q, need))) = v
    BY <2>1, <2>2, SummedOne
  <2> QED
    BY <2>1, <2>3 DEF v
<1>2. CASE InAll(q) = need
  <2>1. Change(q, need) = << >>
    BY <1>2 DEF Change
  <2>2. Values(<< >>) = << >>
    BY DEF Values
  <2> QED
    BY <1>2, <2>1, <2>2, SummedNone
<1> QED
  BY <1>1, <1>2

LEMMA PaymentAndChange ==
    ASSUME NEW c, NEW q, NEW need \in Nat, InAll(q) \in Nat, InAll(q) >= need,
           call[c].pay \in Nat
    PROVE  LET outs == ToOther(c) \o Change(q, need)
           IN  /\ outs \in Seq(Paid)
               /\ Summed(Values(outs)) = call[c].pay + (InAll(q) - need)
<1> DEFINE pay == call[c].pay
           a == [addr |-> Other, value |-> pay]
           outs == ToOther(c) \o Change(q, need)
<1>0. a \in Paid /\ ToOther(c) = <<a>>
  BY DEF Paid, ToOther
<1>1. CASE InAll(q) > need
  <2> DEFINE v == InAll(q) - need
             p == [addr |-> Me, value |-> v]
  <2>1. v \in Nat /\ p \in Paid /\ Change(q, need) = <<p>>
    BY <1>1 DEF Paid, Change
  <2>2. Values(<<a, p>>) = <<pay, v>>
    BY DEF Values
  <2>3. outs = <<a, p>>
    <3>1. outs = <<a>> \o <<p>>
      BY <1>0, <2>1
    <3> HIDE DEF outs, a, p
    <3>2. <<a>> \o <<p>> = <<a, p>>
      BY <1>0, <2>1, JoinOnes
    <3> QED
      BY <3>1, <3>2
  <2> HIDE DEF v, p, a, outs
  <2>4. Summed(Values(outs)) = pay + v /\ outs \in Seq(Paid)
    BY <1>0, <2>1, <2>2, <2>3, SummedTwo
  <2> QED
    BY <2>4 DEF v, outs
<1>2. CASE InAll(q) = need
  <2>1. Change(q, need) = << >>
    BY <1>2 DEF Change
  <2>2. Values(<<a>>) = <<pay>>
    BY DEF Values
  <2>3. outs = <<a>>
    BY <1>0, <2>1
  <2> HIDE DEF a, outs
  <2>4. Summed(Values(outs)) = pay /\ outs \in Seq(Paid)
    BY <1>0, <2>2, <2>3, SummedOne
  <2> QED
    BY <1>2, <2>4 DEF outs
<1> QED
  BY <1>1, <1>2

\* What a command picks: coins it has seen, each once, and what it pays with them.
PlanFrom(c, plan, q) ==
    /\ q \in Seq(Coins(c)) /\ IsInjective(q)
    /\ plan.ins = [i \in DOMAIN q |-> q[i].at]
    /\ plan.outs \in Seq(Paid)
    /\ call[c].kind \notin FlagKinds => InAll(q) = OutSum(plan) + call[c].fee

LEMMA InAllType ==
    ASSUME NEW S, \A r \in S : r.worth \in Nat, NEW q \in Seq(S)
    PROVE  InAll(q) \in Nat
<1>1. DOMAIN q = 1..Len(q) /\ Len(q) \in Nat /\ \A i \in 1..Len(q) : q[i] \in S
  OBVIOUS
<1>2. [i \in DOMAIN q |-> q[i].worth] \in Seq(Nat)
  BY <1>1
<1> QED
  BY <1>2, SummedType DEF InAll

\* take_units returns coins of the block that cover the need.
LEMMA LargestAre ==
    ASSUME WalletTyped, CallsSound, NEW c \in Commands, call[c].step = "pick",
           NEW need \in Nat, NEW q \in LargestFirst(c, need)
    PROVE  /\ q \in Seq(Coins(c)) /\ IsInjective(q)
           /\ InAll(q) \in Nat /\ InAll(q) >= need
<1>1. /\ IsFiniteSet(Coins(c)) /\ Unreserved(c) \subseteq Coins(c)
      /\ \A r \in Coins(c) : r.worth \in Nat
  BY CoinsAre
<1>0. PICK p \in Sorted(Unreserved(c), TRUE) :
        \E n \in 1..Min({Len(p), MaxInputs}) : q = SubSeq(p, 1, n) /\ InAll(q) >= need
  <2> DEFINE starts(p) == {SubSeq(p, 1, n) : n \in 1..Min({Len(p), MaxInputs})}
  <2>1. q \in UNION {starts(p) : p \in Sorted(Unreserved(c), TRUE)} /\ InAll(q) >= need
    BY DEF LargestFirst
  <2>2. PICK p \in Sorted(Unreserved(c), TRUE) : q \in starts(p)
    BY <2>1
  <2> QED
    BY <2>1, <2>2
<1>2. PICK n \in 1..Min({Len(p), MaxInputs}) : q = SubSeq(p, 1, n) /\ InAll(q) >= need
  BY <1>0
<1>3. p \in Seq(Unreserved(c)) /\ IsInjective(p)
  BY <1>1, FS_Subset, SortedOnce
<1>4. n \in Nat /\ n <= Len(p)
  <2>1. Len(p) \in Nat /\ MaxInputs \in Nat
    BY <1>3, Limits
  <2> DEFINE m == Min({Len(p), MaxInputs})
  <2>2. m \in {Len(p), MaxInputs} /\ m <= Len(p)
    BY <2>1, LeastOfTwo
  <2>3. n \in 1..m
    OBVIOUS
  <2> HIDE DEF m
  <2> QED
    BY <2>1, <2>2, <2>3
<1>5. q \in Seq(Unreserved(c)) /\ IsInjective(q)
  BY <1>2, <1>3, <1>4, FirstOnce
<1>6. q \in Seq(Coins(c))
  BY <1>1, <1>5
<1> QED
  BY <1>1, <1>2, <1>5, <1>6, InAllType

\* Whatever the command, its plan spends coins it has seen and pays what they are worth.
LEMMA PlanSound ==
    ASSUME WalletTyped, CallsSound, NEW c \in Commands, call[c].step = "pick",
           NEW plan \in Plans(c)
    PROVE  \E q : PlanFrom(c, plan, q)
<1> DEFINE fee == call[c].fee
           pay == call[c].pay
           kind == call[c].kind
<1>1. fee \in Nat /\ pay \in Nat /\ kind \in Kinds
  BY DEF WalletTyped, Calls, CallsSound, CallSound, Stage
<1>2. /\ IsFiniteSet(Coins(c)) /\ Unreserved(c) \subseteq Coins(c)
      /\ \A r \in Coins(c) : r.worth \in Nat
  BY CoinsAre
<1>3. ASSUME NEW q, NEW outs, plan = Plan(q, outs)
      PROVE  /\ plan.ins = [i \in DOMAIN q |-> q[i].at] /\ plan.outs = outs
             /\ OutSum(plan) = Summed(Values(outs))
  <2>1. plan.ins = [i \in DOMAIN q |-> q[i].at] /\ plan.outs = outs
    BY <1>3 DEF Plan
  <2> QED
    BY <2>1 DEF OutSum, Values
<1>4. CASE kind = "send"
  <2> DEFINE need == pay + fee
  <2>1. PICK q \in LargestFirst(c, need) : plan = Plan(q, ToOther(c) \o Change(q, need))
    BY <1>4 DEF Plans, SendPlans
  <2>2. need \in Nat
    BY <1>1
  <2>3. q \in Seq(Coins(c)) /\ IsInjective(q) /\ InAll(q) \in Nat /\ InAll(q) >= need
    BY <2>2, LargestAre
  <2> DEFINE outs == ToOther(c) \o Change(q, need)
  <2>4. outs \in Seq(Paid) /\ Summed(Values(outs)) = pay + (InAll(q) - need)
    BY <1>1, <2>2, <2>3, PaymentAndChange
  <2>5. InAll(q) = Summed(Values(outs)) + fee
    <3> HIDE DEF outs
    <3> QED
      BY <1>1, <2>3, <2>4
  <2> HIDE DEF outs
  <2>6. PlanFrom(c, plan, q)
    BY <1>3, <2>1, <2>3, <2>4, <2>5 DEF PlanFrom, outs
  <2> QED
    BY <2>6
<1>5. CASE kind = "consolidate"
  <2> DEFINE n == Min({MaxInputs, Cardinality(Coins(c))})
  <2>1. PICK p \in Sorted(Coins(c), FALSE) :
          LET q == SubSeq(p, 1, n)
          IN  n >= 2 /\ InAll(q) > fee /\ plan = Plan(q, Change(q, fee))
    BY <1>5 DEF Plans, ConsolidatePlans
  <2> DEFINE q == SubSeq(p, 1, n)
  <2>2. p \in Seq(Coins(c)) /\ Len(p) = Cardinality(Coins(c)) /\ IsInjective(p)
    BY <1>2, SortedOnce
  <2>3. n \in Nat /\ n <= Len(p)
    <3>1. Len(p) \in Nat /\ MaxInputs \in Nat
      BY <2>2, Limits
    <3> QED
      BY <2>2, <3>1, LeastOfTwo
  <2>4. q \in Seq(Coins(c)) /\ IsInjective(q)
    <3> HIDE DEF n
    <3> QED
      BY <2>2, <2>3, FirstOnce
  <2>5. InAll(q) > fee /\ plan = Plan(q, Change(q, fee))
    BY <2>1
  <2> HIDE DEF q, n
  <2>6. InAll(q) \in Nat
    BY <1>2, <2>4, InAllType
  <2>7. Change(q, fee) \in Seq(Paid) /\ Summed(Values(Change(q, fee))) = InAll(q) - fee
    BY <1>1, <2>5, <2>6, ChangeBack
  <2>8. InAll(q) = Summed(Values(Change(q, fee))) + fee
    BY <1>1, <2>6, <2>7
  <2>9. PlanFrom(c, plan, q)
    BY <1>3, <2>4, <2>5, <2>7, <2>8 DEF PlanFrom
  <2> QED
    BY <2>9
<1>6. CASE kind = "register"
  <2>1. PICK r \in Coins(c) : r.worth >= 2 * fee /\ plan = Plan(<<r>>, Change(<<r>>, fee))
    BY <1>6 DEF Plans, RegisterPlans
  <2> DEFINE q == <<r>>
  <2>2. q \in Seq(Coins(c)) /\ IsInjective(q)
    BY DEF IsInjective
  <2>3. InAll(q) = r.worth
    <3>1. [i \in DOMAIN q |-> q[i].worth] = <<r.worth>>
      OBVIOUS
    <3> QED
      BY <1>2, <3>1, SummedOne DEF InAll
  <2>4. r.worth \in Nat /\ r.worth >= fee
    BY <1>1, <1>2, <2>1
  <2> HIDE DEF q
  <2>5. Change(q, fee) \in Seq(Paid) /\ Summed(Values(Change(q, fee))) = InAll(q) - fee
    BY <1>1, <2>3, <2>4, ChangeBack
  <2>6. InAll(q) = Summed(Values(Change(q, fee))) + fee
    BY <1>1, <2>3, <2>4, <2>5
  <2>7. plan = Plan(q, Change(q, fee))
    BY <2>1 DEF q
  <2>8. PlanFrom(c, plan, q)
    BY <1>3, <2>2, <2>5, <2>6, <2>7 DEF PlanFrom
  <2> QED
    BY <2>8
<1>7. CASE kind = "createflag"
  <2> DEFINE need == pay + fee
  <2>1. PICK q \in LargestFirst(c, need) : plan = Plan(q, Change(q, need))
    BY <1>7 DEF Plans, CreateFlagPlans
  <2>2. need \in Nat
    BY <1>1
  <2>3. q \in Seq(Coins(c)) /\ IsInjective(q) /\ InAll(q) \in Nat /\ InAll(q) >= need
    BY <2>2, LargestAre
  <2>4. Change(q, need) \in Seq(Paid)
    BY <2>2, <2>3, ChangeBack
  <2>5. PlanFrom(c, plan, q)
    BY <1>3, <1>7, <2>1, <2>3, <2>4 DEF PlanFrom, FlagKinds
  <2> QED
    BY <2>5
<1>8. CASE kind = "claimflag"
  <2>1. PICK q \in LargestFirst(c, fee) : plan = Plan(q, ToOther(c) \o Change(q, fee))
    BY <1>8 DEF Plans, ClaimFlagPlans
  <2>2. q \in Seq(Coins(c)) /\ IsInjective(q) /\ InAll(q) \in Nat /\ InAll(q) >= fee
    BY <1>1, LargestAre
  <2>3. ToOther(c) \o Change(q, fee) \in Seq(Paid)
    BY <1>1, <2>2, PaymentAndChange
  <2>4. PlanFrom(c, plan, q)
    BY <1>3, <1>8, <2>1, <2>2, <2>3 DEF PlanFrom, FlagKinds
  <2> QED
    BY <2>4
<1> QED
  BY <1>1, <1>4, <1>5, <1>6, <1>7, <1>8 DEF Kinds, FlagKinds

-----------------------------------------------------------------------------
(* The start *)

\* The address holds the coins of the start, and they are what it began with.
LEMMA InitWallet == WalletInit => WalletInv
<1> SUFFICES ASSUME WalletInit PROVE WalletInv
  OBVIOUS
<1> DEFINE D == DOMAIN Coinbases
<1>1. /\ tipHeight = Activation - 2 /\ mempool = {} /\ leaving = {} /\ mined = << >>
      /\ DOMAIN mined = {}
  BY DEF WalletInit
<1>2. DOMAIN unspent = {<<c, 1>> : c \in D}
      /\ \A o \in DOMAIN unspent :
           unspent[o] = [addr |-> Me, value |-> Coinbases[o[1]], born |-> 1]
  BY DEF WalletInit
<1>a. ASSUME NEW c \in D
      PROVE  /\ <<c, 1>> \in DOMAIN unspent
             /\ unspent[<<c, 1>>].value = Coinbases[c] /\ unspent[<<c, 1>>].born = 1
  <2>1. <<c, 1>> \in DOMAIN unspent /\ <<c, 1>>[1] = c
    BY <1>2
  <2>2. unspent[<<c, 1>>] = [addr |-> Me, value |-> Coinbases[c], born |-> 1]
    BY <1>2, <2>1
  <2> QED
    BY <2>1, <2>2
<1>3. NoTx \in SignedTxs /\ AtStart \in Calls
  BY DEF NoTx, SignedTxs, AtStart, Calls
<1>4. \A c \in Commands : signed[c] = NoTx /\ ~IsSigned(c) /\ call[c] = AtStart
  BY DEF WalletInit, IsSigned, NoTx
<1>5. IsFiniteSet(DOMAIN unspent)
  <2> DEFINE f == [c \in D |-> <<c, 1>>]
  <2>1. f \in Surjection(D, DOMAIN unspent)
    BY <1>2 DEF Surjection
  <2> HIDE DEF f
  <2> QED
    BY <2>1, Limits, FS_Surjection
<1>6. WalletTyped
  <2>1. DOMAIN unspent \subseteq Places
    BY <1>2 DEF Places
  <2>2. tipHeight \in Nat /\ tipHeight + 2 >= Activation
    BY <1>1, Limits
  <2>3. signed \in [Commands -> SignedTxs] /\ call \in [Commands -> Calls]
    BY <1>3 DEF WalletInit
  <2> QED
    BY <1>1, <1>5, <2>1, <2>2, <2>3, FS_EmptySet DEF WalletTyped
<1>7. SpendsSigned
  BY <1>4 DEF SpendsSigned
<1>8. CallsSound
  <2>1. AtStart.step = "start"
    BY DEF AtStart
  <2> QED
    BY <1>1, <1>4, <2>1 DEF CallsSound, CallSound, Stage, Counting, RowsTrue, StillGood
<1>9. Coined
  <2>1. \A o \in DOMAIN unspent : FromStart(o)
    BY <1>2 DEF FromStart
  <2> QED
    BY <1>2, <2>1 DEF Coined
<1>10. PoolSound /\ MinedSound
  BY <1>1 DEF PoolSound, MinedSound
<1>11. Exact
  BY <1>4 DEF Exact
<1>12. WealthKept
  <2> DEFINE held == [o \in DOMAIN unspent |-> Pi(unspent[o].value, unspent[o].born)]
             fees == [c \in DOMAIN mined |-> Pi(signed[c].fee, mined[c])]
             begun == [c \in D |-> Pi(Coinbases[c], 1)]
             Q == [c \in D |-> <<<<c, 1>>>>]
  <2>1. Worth(fees) = 0
    BY <1>1, WorthNone
  <2>2. AddsUp(held)
    <3>1. ASSUME NEW o \in DOMAIN unspent PROVE held[o] \in Nat
      <4>0. PICK c \in D : o = <<c, 1>>
        BY <1>2
      <4>1. unspent[o].value \in Nat /\ unspent[o].born = 1
        BY <1>a, <4>0, Limits
      <4> QED
        BY <4>1, UnitsAt, TimesType DEF Pi
    <3> QED
      BY <1>5, <3>1 DEF AddsUp
  <2>3. Apart(D, Q)
    <3>1. ASSUME NEW c \in D
          PROVE  /\ Q[c] \in Seq(ToSet(Q[c])) /\ IsInjective(Q[c]) /\ ToSet(Q[c]) = {<<c, 1>>}
      BY DEF ToSet, IsInjective
    <3> HIDE DEF Q
    <3> QED
      BY <3>1 DEF Apart
  <2>4. DOMAIN held = AllOf(D, Q)
    <3>1. \A c \in D : ToSet(Q[c]) = {<<c, 1>>}
      BY DEF ToSet
    <3>2. DOMAIN held = DOMAIN unspent
      OBVIOUS
    <3> HIDE DEF Q, held
    <3> QED
      BY <1>2, <3>1, <3>2 DEF AllOf
  <2>5. SumsOf(D, Q, held) = begun
    <3>1. ASSUME NEW c \in D PROVE SumOf(Q[c], held) = begun[c]
      <4>1. <<c, 1>> \in DOMAIN unspent
        BY <1>2
      <4>2. held[<<c, 1>>] = begun[c] /\ held[<<c, 1>>] \in Nat
        <5>2. held[<<c, 1>>] = begun[c]
          BY <1>a
        <5>3. \A o \in DOMAIN unspent : held[o] \in Nat
          BY <2>2 DEF AddsUp
        <5> HIDE DEF held
        <5> QED
          BY <4>1, <5>2, <5>3
      <4>3. [i \in DOMAIN Q[c] |-> held[Q[c][i]]] = <<held[<<c, 1>>]>>
        <5>1. Q[c] = <<<<c, 1>>>>
          OBVIOUS
        <5> HIDE DEF held, Q
        <5> QED
          BY <5>1
      <4> HIDE DEF held, begun, Q
      <4> QED
        BY <4>2, <4>3, SummedOne DEF SumOf
    <3> HIDE DEF held, Q
    <3> QED
      BY <3>1 DEF SumsOf
  <2>6. Worth(held) = Worth(begun) /\ AddsUp(begun)
    <3> HIDE DEF held, begun, Q, D
    <3> QED
      BY <2>2, <2>3, <2>4, <2>5, Limits, WorthFamily DEF Families, D
  <2>7. Worth(begun) \in Nat
    <3> HIDE DEF begun
    <3> QED
      BY <2>6, WorthTake
  <2>8. Worth(held) + Worth(fees) = Worth(begun)
    <3> HIDE DEF held, begun, fees
    <3> QED
      BY <2>1, <2>6, <2>7
  <2> QED
    BY <2>8 DEF WealthKept
<1> QED
  BY <1>6, <1>7, <1>8, <1>9, <1>10, <1>11, <1>12 DEF WalletInv
-----------------------------------------------------------------------------
(* Steps that change no more than a command *)

\* All but the commands stays.
OnlyCalls == UNCHANGED <<tipHeight, unspent, mempool, leaving, signed, mined>>

\* What is known of a command stands as long as only commands go on.
LEMMA SameSound ==
    ASSUME OnlyCalls, NEW c, NEW k, CallSound(c, k)
    PROVE  CallSound(c, k)'
<1>1. Pending' = Pending /\ Spent' = Spent
  BY DEF OnlyCalls, Pending, Spent
<1>2. Known' = Known
  BY <1>1 DEF OnlyCalls, Known
<1>3. \A o : PiOf(o)' = PiOf(o) /\ (IsOut(o)' <=> IsOut(o))
  BY DEF OnlyCalls, PiOf, IsOut, OutOf, FromStart
<1>4. Funded(signed[c], tipHeight + 1)' <=> Funded(signed[c], tipHeight + 1)
  BY <1>2 DEF OnlyCalls, Funded, OutSum, InSum, ValueAt
<1>5. Stage(c, k)' /\ Counting(k)'
  BY DEF OnlyCalls, CallSound, Stage, Counting, IsSigned, UnitSeen
<1>6. RowsTrue(k)'
  BY <1>3 DEF OnlyCalls, CallSound, RowsTrue, Fresh, FromStart
<1>7. StillGood(c, k)'
  BY <1>1, <1>4 DEF OnlyCalls, CallSound, StillGood
<1> QED
  BY <1>5, <1>6, <1>7 DEF CallSound

LEMMA RestStays ==
    ASSUME SpendsSigned /\ Coined /\ PoolSound /\ MinedSound /\ Exact /\ WealthKept, OnlyCalls
    PROVE  (SpendsSigned /\ Coined /\ PoolSound /\ MinedSound /\ Exact /\ WealthKept)'
<1>1. Spent' = Spent
  BY DEF OnlyCalls, Spent
<1>2. SpendsSigned'
  BY DEF OnlyCalls, SpendsSigned, SignedSound, Exists, IsSigned, IsOut, FromStart, UnitSeen
<1>3. Coined' /\ MinedSound'
  BY DEF OnlyCalls, Coined, MinedSound, FromStart, IsOut, OutOf
<1>4. PoolSound'
  BY <1>1 DEF OnlyCalls, PoolSound
<1>5. Exact'
  BY DEF OnlyCalls, Exact, IsSigned, Doomed, FaceOf, FromStart, OutOf, OutSum
<1>6. WealthKept'
  BY DEF OnlyCalls, WealthKept, Crossed
<1> QED
  BY <1>2, <1>3, <1>4, <1>5, <1>6

\* One command goes on.
LEMMA CallGoesOn ==
    ASSUME WalletInv, OnlyCalls, NEW c \in Commands, NEW k \in Calls, Step(c, k),
           CallSound(c, k)
    PROVE  WalletInv'
<1>1. call' \in [Commands -> Calls] /\ \A d \in Commands : call'[d] = IF d = c THEN k ELSE call[d]
  BY DEF WalletInv, WalletTyped, Step
<1>2. WalletTyped'
  BY <1>1 DEF WalletInv, WalletTyped, OnlyCalls
<1>3. CallsSound'
  <2>1. ASSUME NEW d \in Commands PROVE CallSound(d, call'[d])
    BY <1>1 DEF WalletInv, CallsSound
  <2> QED
    BY <2>1, SameSound DEF CallsSound
<1> QED
  BY <1>2, <1>3, RestStays DEF WalletInv

\* A command ends without a transaction.
LEMMA EndKeeps ==
    ASSUME WalletInv, OnlyCalls, NEW c \in Commands, NEW how \in {"failed", "refused"}, Ends(c, how),
           call[c].step \in {"list", "pick", "send"},
           how = "refused" => call[c].late \/ call[c].kind \in FlagKinds
    PROVE  WalletInv'
<1> DEFINE k == [AtStart EXCEPT !.step = how, !.kind = call[c].kind, !.late = call[c].late]
<1>1. call[c] \in Calls /\ CallSound(c, call[c])
  BY DEF WalletInv, WalletTyped, CallsSound
<1>2. k \in Calls /\ k.step = how /\ k.kind = call[c].kind /\ k.late = call[c].late
  BY <1>1 DEF Calls, AtStart
<1>3. Step(c, k)
  BY DEF Ends
<1> HIDE DEF k
<1>4. CallSound(c, k)
  <2>1. Stage(c, k)
    BY <1>1, <1>2 DEF CallSound, Stage
  <2>2. Counting(k) /\ RowsTrue(k) /\ StillGood(c, k)
    BY <1>2 DEF Counting, RowsTrue, StillGood
  <2> QED
    BY <2>1, <2>2 DEF CallSound
<1> QED
  BY <1>2, <1>3, <1>4, CallGoesOn

\* The unit read is that of the next block, and the fee is at least the least one.
LEMMA BeginKeeps == ASSUME WalletInv, NEW c \in Commands, Begin(c) PROVE WalletInv'
<1> DEFINE h == tipHeight + 1
           unit == UnitAt(h)
<1>0. h \in Nat /\ unit \in Nat \ {0} /\ unit \in {1, PiPerOldUnit}
      /\ (h >= Activation => unit = 1 /\ LeastFee(h) = MinFeePi)
      /\ (h < Activation => unit = PiPerOldUnit /\ LeastFee(h) = 1)
  BY UnitsAt DEF WalletInv, WalletTyped
<1> HIDE DEF unit
<1>1. PICK kind \in Kinds, typed \in Amounts, fee \in TypedFees :
        LET fixed == kind \in {"register"} \union FlagKinds
        IN  /\ kind = "send" => typed % unit = 0
            /\ ~fixed => fee % unit = 0 /\ fee >= LeastFee(h)
            /\ Step(c, [AtStart EXCEPT !.step = "list", !.kind = kind, !.scale = unit,
                         !.pay = IF kind \in FlagKinds THEN typed ELSE typed \div unit,
                         !.typed = typed,
                         !.fee = IF fixed THEN PiPerOldUnit \div unit ELSE fee \div unit])
  BY DEF Begin, unit
<1> DEFINE fixed == kind \in {"register"} \union FlagKinds
           pay == IF kind \in FlagKinds THEN typed ELSE typed \div unit
           given == IF fixed THEN PiPerOldUnit \div unit ELSE fee \div unit
           k == [AtStart EXCEPT !.step = "list", !.kind = kind, !.scale = unit, !.pay = pay,
                                !.typed = typed, !.fee = given]
<1>2. Step(c, k)
  BY <1>1
<1>3. typed \in Nat \ {0} /\ fee \in Nat \ {0} /\ PiPerOldUnit \in Nat \ {0}
      /\ MinFeePi \in Nat /\ MinFeePi <= PiPerOldUnit /\ Activation \in Nat
  BY Limits
<1>4. pay \in Nat /\ given \in Nat
  BY <1>0, <1>3, DivideType
<1>5. kind \notin FlagKinds => given >= LeastFee(h)
  <2>1. CASE h >= Activation
    <3>1. PiPerOldUnit \div unit = PiPerOldUnit /\ fee \div unit = fee
      BY <1>0, <1>3, <2>1, DivideOne
    <3>2. CASE fixed
      BY <1>0, <1>3, <2>1, <3>1, <3>2
    <3>3. CASE ~fixed
      BY <1>1, <3>1, <3>3
    <3> QED
      BY <3>2, <3>3
  <2>2. CASE h < Activation
    <3>1. PiPerOldUnit \div unit = 1
      BY <1>0, <1>3, <2>2, DivideSelf
    <3>2. CASE fixed
      BY <1>0, <2>2, <3>1, <3>2
    <3>3. CASE ~fixed
      <4>1. fee \div unit >= 1
        BY <1>0, <1>1, <1>3, <3>3, DividesSome
      <4> QED
        BY <1>0, <2>2, <3>3, <4>1
    <3> QED
      BY <3>2, <3>3
  <2> QED
    BY <1>0, <1>3, <2>1, <2>2
<1> HIDE DEF pay, given
<1>6. /\ k \in Calls /\ k.step = "list" /\ k.kind = kind /\ k.scale = unit /\ k.fee = given
      /\ k.late = FALSE
  BY <1>0, <1>3, <1>4 DEF Calls, AtStart
<1> HIDE DEF k
<1>7. OnlyCalls /\ call[c].step = "start"
  BY DEF Begin, OnlyCalls
<1>8. CallSound(c, k)
  <2>1. Stage(c, k)
    BY <1>6, <1>7 DEF WalletInv, CallsSound, CallSound, Stage
  <2>2. Counting(k)
    <3>1. UnitSeen(unit)
      BY <1>0, <1>3 DEF UnitSeen
    <3>2. k.scale = UnitAt(tipHeight + 1) /\ (k.kind \notin FlagKinds => k.fee >= LeastFee(h))
      BY <1>5, <1>6 DEF unit
    <3> QED
      BY <1>6, <3>1, <3>2 DEF Counting
  <2>3. RowsTrue(k) /\ StillGood(c, k)
    BY <1>6 DEF RowsTrue, StillGood
  <2> QED
    BY <2>1, <2>2, <2>3 DEF CallSound
<1> QED
  BY <1>2, <1>6, <1>7, <1>8, CallGoesOn

\* An unspent output is a coin that the chain knows the worth of.
LEMMA UnspentWorth ==
    ASSUME WalletTyped, Coined, NEW o \in DOMAIN unspent
    PROVE  /\ o \in Places
           /\ FromStart(o) \/ (IsOut(o) /\ o[1] \in DOMAIN mined)
           /\ unspent[o].value \in Nat /\ unspent[o].born \in Nat /\ unspent[o].born <= tipHeight
           /\ PiOf(o) = Pi(unspent[o].value, unspent[o].born) /\ PiOf(o) \in Nat
<1>0. tipHeight \in Nat /\ tipHeight >= 1
  <2>1. tipHeight \in Nat /\ Activation \in Nat /\ Activation > 2 /\ tipHeight + 2 >= Activation
    BY Limits DEF WalletTyped
  <2> QED
    BY <2>1
<1>1. CASE FromStart(o) /\ unspent[o] = [addr |-> Me, value |-> Coinbases[o[1]], born |-> 1]
  <2>1. PiOf(o) = Pi(unspent[o].value, unspent[o].born)
        /\ unspent[o].value \in Nat /\ unspent[o].born = 1
    BY <1>1, Limits DEF PiOf, FromStart
  <2>2. Pi(unspent[o].value, unspent[o].born) \in Nat
    BY <2>1, UnitsAt, TimesType DEF Pi
  <2> QED
    BY <1>0, <1>1, <2>1, <2>2 DEF WalletTyped
<1>2. CASE /\ IsOut(o) /\ o[1] \in DOMAIN mined
           /\ unspent[o] = [addr |-> OutOf(o).addr, value |-> OutOf(o).value, born |-> mined[o[1]]]
  <2>1. ~FromStart(o)
    BY <1>2, Limits DEF FromStart, IsOut
  <2>2. OutOf(o).value \in Nat
    <3>1. signed[o[1]].outs \in Seq(Paid)
      BY <1>2 DEF WalletTyped, SignedTxs, IsOut
    <3>2. OutOf(o) \in Paid
      BY <1>2, <3>1 DEF OutOf, IsOut
    <3> QED
      BY <3>2 DEF Paid
  <2>3. mined[o[1]] \in 1..tipHeight
    BY <1>2 DEF WalletTyped
  <2>4. /\ unspent[o].value \in Nat /\ unspent[o].born \in Nat /\ unspent[o].born <= tipHeight
        /\ PiOf(o) = Pi(unspent[o].value, unspent[o].born)
    BY <1>0, <1>2, <2>1, <2>2, <2>3 DEF PiOf
  <2>5. Pi(unspent[o].value, unspent[o].born) \in Nat
    BY <2>4, UnitsAt, TimesType DEF Pi
  <2> QED
    BY <1>2, <2>4, <2>5 DEF WalletTyped
<1> QED
  BY <1>1, <1>2 DEF Coined

\* What is listed is counted in whole units of the command.
LEMMA ListKeeps == ASSUME WalletInv, NEW c \in Commands, ListUnspent(c) PROVE WalletInv'
<1>1. OnlyCalls /\ call[c].step = "list"
  BY DEF ListUnspent, OnlyCalls
<1>2. CASE Ends(c, "failed")
  BY <1>1, <1>2, EndKeeps
<1> DEFINE u == call[c].scale
           rows == {[at |-> r.at, worth |-> r.pi \div u] : r \in ListedUnspent}
           k == [call[c] EXCEPT !.step = "pick", !.rows = rows]
<1>3. CASE (\A r \in ListedUnspent : r.pi % u = 0) /\ Step(c, k)
  <2>1. call[c] \in Calls /\ CallSound(c, call[c])
    BY DEF WalletInv, WalletTyped, CallsSound
  <2>2. u \in Nat \ {0}
    BY <1>1, <2>1, Limits DEF CallSound, Counting, UnitSeen
  <2>3. ASSUME NEW r \in ListedUnspent
        PROVE  /\ r.at \in DOMAIN unspent /\ unspent[r.at].addr = Me
               /\ r.pi = PiOf(r.at) /\ r.pi \in Nat
               /\ r.pi \div u \in Nat /\ (r.pi \div u) * u = r.pi
    <3>1. PICK o \in DOMAIN unspent :
            /\ unspent[o].addr = Me
            /\ r = [at |-> o, pi |-> Pi(unspent[o].value, unspent[o].born)]
      BY DEF ListedUnspent
    <3>2. r.pi = PiOf(o) /\ r.pi \in Nat
      BY <3>1, UnspentWorth DEF WalletInv
    <3>3. r.pi \div u \in Nat /\ (r.pi \div u) * u = r.pi
      BY <1>3, <2>2, <3>2, Divides
    <3> QED
      BY <3>1, <3>2, <3>3
  <2> DEFINE P == {o \in DOMAIN unspent : unspent[o].addr = Me}
             row(o) == [at |-> o, pi |-> Pi(unspent[o].value, unspent[o].born)]
  <2>a. ListedUnspent = {row(o) : o \in P}
    BY DEF ListedUnspent
  <2>4. \A o \in DOMAIN unspent : unspent[o].addr = Me => \E r \in ListedUnspent : r.at = o
    <3> SUFFICES ASSUME NEW o \in DOMAIN unspent, unspent[o].addr = Me
                 PROVE  \E r \in ListedUnspent : r.at = o
      OBVIOUS
    <3>1. row(o) \in ListedUnspent /\ row(o).at = o
      BY <2>a
    <3> QED
      BY <3>1
  <2>5. IsFiniteSet(rows)
    <3>1. IsFiniteSet(P)
      BY FS_Subset DEF WalletInv, WalletTyped
    <3> DEFINE f == [o \in P |-> row(o)]
               g == [r \in ListedUnspent |-> [at |-> r.at, worth |-> r.pi \div u]]
    <3>2. f \in Surjection(P, ListedUnspent)
      BY <2>a DEF Surjection
    <3>3. g \in Surjection(ListedUnspent, rows)
      BY DEF Surjection
    <3> HIDE DEF f, g, P, rows
    <3> QED
      BY <3>1, <3>2, <3>3, FS_Surjection
  <2> HIDE DEF P, row
  <2>6. ASSUME NEW w \in rows
        PROVE  /\ w \in Rows /\ w.at \in DOMAIN unspent /\ unspent[w.at].addr = Me
               /\ w.worth * u = PiOf(w.at) /\ w = [at |-> w.at, worth |-> PiOf(w.at) \div u]
    <3>1. PICK r \in ListedUnspent : w = [at |-> r.at, worth |-> r.pi \div u]
      OBVIOUS
    <3>2. r.at \in Places
      BY <2>3, UnspentWorth DEF WalletInv
    <3> QED
      BY <2>3, <3>1, <3>2 DEF Rows
  <2>7. {w.at : w \in rows} = {o \in DOMAIN unspent : unspent[o].addr = Me}
    <3>1. ASSUME NEW o \in DOMAIN unspent, unspent[o].addr = Me
          PROVE  \E w \in rows : w.at = o
      <4>1. PICK r \in ListedUnspent : r.at = o
        BY <2>4, <3>1
      <4>2. [at |-> r.at, worth |-> r.pi \div u] \in rows
        OBVIOUS
      <4> HIDE DEF rows
      <4> QED
        BY <4>1, <4>2
    <3> HIDE DEF rows
    <3> QED
      BY <2>6, <3>1
  <2> HIDE DEF rows
  <2>8. /\ k \in Calls /\ k.step = "pick" /\ k.rows = rows /\ k.kind = call[c].kind
        /\ k.scale = u /\ k.late = call[c].late /\ k.fee = call[c].fee
    <3>1. rows \in SUBSET Rows
      BY <2>6
    <3> QED
      BY <2>1, <3>1 DEF Calls
  <2> HIDE DEF k, u
  <2>9. CallSound(c, k)
    <3>1. Stage(c, k)
      BY <1>1, <2>1, <2>8 DEF CallSound, Stage
    <3>2. Counting(k)
      BY <1>1, <2>1, <2>8 DEF CallSound, Counting, u
    <3>3. RowsTrue(k)
      <4>1. \A w \in rows : FromStart(w.at) \/ (IsOut(w.at) /\ w.at[1] \in DOMAIN mined)
        BY <2>6, UnspentWorth DEF WalletInv
      <4>2. \A v, w \in rows : v.at = w.at => v = w
        BY <2>6
      <4>3. \A w \in rows : w.worth * u = PiOf(w.at)
        BY <2>6
      <4> QED
        BY <2>5, <2>7, <2>8, <4>1, <4>2, <4>3 DEF RowsTrue
    <3>4. StillGood(c, k)
      BY <2>8 DEF StillGood
    <3> QED
      BY <3>1, <3>2, <3>3, <3>4 DEF CallSound
  <2>10. Step(c, k)
    BY <1>3 DEF k, u, rows
  <2> QED
    BY <1>1, <2>8, <2>9, <2>10, CallGoesOn
<1>4. Ends(c, "failed") \/ ((\A r \in ListedUnspent : r.pi % u = 0) /\ Step(c, k))
  BY DEF ListUnspent
<1> QED
  BY <1>2, <1>3, <1>4

-----------------------------------------------------------------------------
(* Signing *)

\* Nothing that was signed before changes when a command signs.
LEMMA SignFrame ==
    ASSUME WalletInv, NEW c \in Commands, ~IsSigned(c), c \notin mempool, c \notin DOMAIN mined,
           NEW tx, signed' = [signed EXCEPT ![c] = tx],
           UNCHANGED <<tipHeight, unspent, mempool, leaving, mined>>
    PROVE  /\ signed'[c] = tx /\ \A d \in Commands \ {c} : signed'[d] = signed[d]
           /\ Pending' = Pending /\ Spent' = Spent /\ Known' = Known
           /\ \A o : FromStart(o) \/ (IsOut(o) /\ o[1] # c)
                => /\ FromStart(o)' \/ (IsOut(o)' /\ signed'[o[1]] = signed[o[1]])
                   /\ PiOf(o)' = PiOf(o) /\ FaceOf(o)' = FaceOf(o)
           /\ \A d \in Commands \ {c} : Doomed(d)' <=> Doomed(d)
           /\ \A o \in Known : \A h : ValueAt(o, h)' = ValueAt(o, h)
<1>1. signed'[c] = tx /\ \A d \in Commands \ {c} : signed'[d] = signed[d]
  BY DEF WalletInv, WalletTyped
<1>2. mempool \subseteq Commands \ {c} /\ mempool' = mempool
  BY DEF WalletInv, WalletTyped
<1>3. \A d \in mempool : signed'[d] = signed[d]
  BY <1>1, <1>2
<1>4. Pending' = Pending /\ Spent' = Spent
  BY <1>2, <1>3 DEF Pending, Spent
<1>5. Known' = Known
  BY <1>4 DEF Known
<1>6. ASSUME NEW o, FromStart(o) \/ (IsOut(o) /\ o[1] # c)
      PROVE  /\ FromStart(o)' \/ (IsOut(o)' /\ signed'[o[1]] = signed[o[1]])
             /\ PiOf(o)' = PiOf(o) /\ FaceOf(o)' = FaceOf(o)
  <2>1. CASE FromStart(o)
    BY <2>1 DEF FromStart, PiOf, FaceOf
  <2>2. CASE ~FromStart(o)
    <3>1. IsOut(o) /\ o[1] # c /\ o[1] \in Commands
      BY <1>6, <2>2 DEF IsOut
    <3>2. signed'[o[1]] = signed[o[1]]
      BY <1>1, <3>1
    <3> QED
      BY <2>2, <3>1, <3>2 DEF FromStart, IsOut, PiOf, FaceOf, OutOf
  <2> QED
    BY <2>1, <2>2
<1>7. \A d \in Commands \ {c} : Doomed(d)' <=> Doomed(d)
  BY <1>1 DEF Doomed
<1>8. ASSUME NEW o \in Known, NEW h PROVE ValueAt(o, h)' = ValueAt(o, h)
  <2>1. CASE o \in DOMAIN unspent
    BY <2>1 DEF ValueAt
  <2>2. CASE o \notin DOMAIN unspent
    <3>1. PICK d \in mempool : o[1] = d
      BY <1>8, <2>2 DEF Known, Pending
    <3> QED
      BY <1>3, <2>2, <3>1 DEF ValueAt
  <2> QED
    BY <2>1, <2>2
<1> QED
  BY <1>1, <1>4, <1>5, <1>6, <1>7, <1>8

\* What is in the mempool or in a block was signed.
LEMMA PooledSigned ==
    ASSUME WalletInv, NEW c \in mempool \union DOMAIN mined
    PROVE  c \in Commands /\ IsSigned(c) /\ call[c].step = "accepted"
<1>1. c \in Commands
  BY DEF WalletInv, WalletTyped
<1> QED
  BY <1>1 DEF WalletInv, CallsSound, CallSound, Stage

\* A coin a command may pick: listed, or an output of the mempool it did not list.
LEMMA CoinKinds ==
    ASSUME NEW c, NEW r \in Coins(c)
    PROVE  \/ r \in call[c].rows /\ r.at \notin Spent
           \/ /\ r.at \in Pending \ Spent /\ ~Listed(c, r.at)
              /\ signed[r.at[1]].outs[r.at[2]].addr = Me
              /\ r.worth = signed[r.at[1]].outs[r.at[2]].value
<1>1. CASE r \in Unreserved(c)
  BY <1>1 DEF Unreserved
<1>2. CASE r \in PendingCoins(c)
  BY <1>2 DEF PendingCoins
<1> QED
  BY <1>1, <1>2 DEF Coins

\* An output in the mempool is one of a transaction that was signed.
LEMMA PendingIs ==
    ASSUME WalletInv, NEW o \in Pending
    PROVE  /\ o[1] \in mempool /\ o = <<o[1], o[2]>> /\ IsOut(o) /\ IsSigned(o[1]) /\ ~FromStart(o)
           /\ OutOf(o) \in Paid
<1>1. PICK d \in mempool : \E i \in DOMAIN signed[d].outs : o = <<d, i>>
  BY DEF Pending
<1>2. d \in Commands /\ IsSigned(d) /\ signed[d].outs \in Seq(Paid)
  BY PooledSigned DEF WalletInv, WalletTyped, SignedTxs
<1> QED
  BY <1>1, <1>2, Limits DEF IsOut, FromStart, OutOf

\* The coins a command picks exist.
LEMMA CoinsExist ==
    ASSUME WalletInv, NEW c \in Commands, call[c].step = "pick", NEW r \in Coins(c)
    PROVE  Exists(r.at)
<1>1. CASE r \in call[c].rows
  <2>1. FromStart(r.at) \/ (IsOut(r.at) /\ r.at[1] \in DOMAIN mined)
    BY <1>1 DEF WalletInv, CallsSound, CallSound, RowsTrue
  <2> QED
    BY <2>1, PooledSigned DEF Exists
<1>2. CASE r.at \in Pending
  BY <1>2, PendingIs DEF Exists
<1> QED
  BY <1>1, <1>2, CoinKinds

\* Neither the command nor who made the coin crosses into the new unit: the coin
\* counts for the same to both.
LEMMA CoinsFace ==
    ASSUME WalletInv, NEW c \in Commands, call[c].step = "pick", NEW r \in Coins(c),
           call[c].scale # 1 => tipHeight + 1 < Activation,
           FromStart(r.at) \/ ~Doomed(r.at[1])
    PROVE  FaceOf(r.at) = r.worth * call[c].scale
<1> DEFINE o == r.at
           d == o[1]
           u == call[c].scale
<1>0. /\ tipHeight \in Nat /\ Activation \in Nat
      /\ \A b \in DOMAIN mined : mined[b] \in Nat /\ mined[b] <= tipHeight
  BY Limits DEF WalletInv, WalletTyped
<1>a. /\ u \in {1, PiPerOldUnit} /\ (u # PiPerOldUnit => tipHeight + 1 >= Activation)
  BY DEF WalletInv, CallsSound, CallSound, Counting, UnitSeen
<1>1. CASE r \in call[c].rows
  <2>1. FromStart(o) \/ (IsOut(o) /\ d \in DOMAIN mined)
    BY <1>1 DEF WalletInv, CallsSound, CallSound, RowsTrue
  <2>2. r.worth * u = PiOf(o)
    BY <1>1 DEF WalletInv, CallsSound, CallSound, RowsTrue
  <2>3. CASE FromStart(o)
    BY <2>2, <2>3 DEF PiOf, FaceOf
  <2>4. CASE ~FromStart(o)
    <3>1. d \in DOMAIN mined /\ (signed[d].scale = 1 \/ mined[d] < Activation) /\ mined[d] \in Nat
      BY <1>0, <2>1, <2>4 DEF Doomed
    <3>2. mined[d] < Activation => signed[d].scale = PiPerOldUnit
      BY <3>1 DEF WalletInv, MinedSound
    <3>3. UnitAt(mined[d]) = signed[d].scale
      BY <1>0, <3>1, <3>2, UnitsAt
    <3> QED
      BY <2>2, <2>4, <3>3 DEF PiOf, FaceOf, Pi
  <2> QED
    BY <2>3, <2>4
<1>2. CASE /\ o \in Pending \ Spent /\ ~Listed(c, o)
           /\ signed[d].outs[o[2]].addr = Me /\ r.worth = signed[d].outs[o[2]].value
  <2>1. /\ d \in mempool /\ o = <<d, o[2]>> /\ IsOut(o) /\ IsSigned(d) /\ ~FromStart(o)
        /\ d \in Commands
    BY <1>2, PendingIs, PooledSigned
  <2>2. ~Doomed(d)
    BY <2>1
  <2>3. UnitSeen(signed[d].scale)
    BY <2>1 DEF WalletInv, SpendsSigned, SignedSound
  <2>4. signed[d].scale = u
    <3>1. CASE d \notin DOMAIN mined
      BY <1>0, <1>a, <2>2, <2>3, <3>1 DEF Doomed, UnitSeen
    <3>2. CASE d \in DOMAIN mined
      <4>1. d \in leaving /\ mined[d] = tipHeight
        BY <2>1, <3>2 DEF WalletInv, PoolSound
      <4>2. o \in DOMAIN unspent
        <5>1. <<d, o[2]>> \in DOMAIN unspent \union Spent
          BY <2>1, <4>1 DEF WalletInv, PoolSound, IsOut
        <5> QED
          BY <1>2, <2>1, <5>1
      <4>3. unspent[o].addr = Me
        BY <1>2, <2>1, <4>2 DEF WalletInv, Coined, OutOf
      <4>4. ~Fresh(call[c])
        BY <1>2, <4>2, <4>3 DEF WalletInv, CallsSound, CallSound, RowsTrue, Listed
      <4>5. mined[d] < Activation => signed[d].scale = PiPerOldUnit
        BY <3>2 DEF WalletInv, MinedSound
      <4> QED
        BY <1>0, <1>a, <2>2, <3>2, <4>1, <4>4, <4>5 DEF Doomed, Fresh
    <3> QED
      BY <3>1, <3>2
  <2> QED
    BY <1>2, <2>1, <2>4 DEF FaceOf, OutOf
<1> QED
  BY <1>1, <1>2, CoinKinds

\* A command that is not late finds what it picks as it counted it.
LEMMA CoinsKnown ==
    ASSUME WalletInv, NEW c \in Commands, call[c].step = "pick", ~call[c].late, NEW r \in Coins(c)
    PROVE  r.at \in Known /\ ValueAt(r.at, tipHeight + 1) = r.worth
<1> DEFINE o == r.at
           h == tipHeight + 1
           u == call[c].scale
<1>0. h \in Nat /\ tipHeight \in Nat /\ Activation \in Nat
  BY Limits DEF WalletInv, WalletTyped
<1>1. u = UnitAt(h) /\ u \in Nat \ {0}
  BY <1>0, UnitsAt DEF WalletInv, CallsSound, CallSound, Counting
<1>2. {w.at : w \in call[c].rows} = {p \in DOMAIN unspent : unspent[p].addr = Me}
  BY DEF WalletInv, CallsSound, CallSound, RowsTrue, Fresh
<1>3. r.worth \in Nat
  BY CoinsAre DEF WalletInv
<1>4. CASE r \in call[c].rows
  <2>1. o \in DOMAIN unspent
    BY <1>2, <1>4
  <2>2. /\ unspent[o].value \in Nat /\ unspent[o].born \in Nat /\ unspent[o].born <= tipHeight
        /\ PiOf(o) = Pi(unspent[o].value, unspent[o].born)
    BY <2>1, UnspentWorth DEF WalletInv
  <2>3. r.worth * u = Pi(unspent[o].value, unspent[o].born)
    BY <1>4, <2>2 DEF WalletInv, CallsSound, CallSound, RowsTrue
  <2>4. WorthAt(unspent[o].value, unspent[o].born, h) = r.worth
    <3>1. CASE h >= Activation
      <4>1. u = 1
        BY <1>0, <1>1, <3>1, UnitsAt
      <4>2. r.worth * u = r.worth
        BY <1>3, <4>1, DivideOne
      <4> QED
        BY <2>3, <3>1, <4>2 DEF WorthAt
    <3>2. CASE ~(h >= Activation)
      <4>1. UnitAt(unspent[o].born) = u
        BY <1>0, <1>1, <2>2, <3>2, UnitsAt
      <4>2. r.worth * u = unspent[o].value * u
        BY <2>3, <4>1 DEF Pi
      <4>3. r.worth = unspent[o].value
        BY <1>1, <1>3, <2>2, <4>2, Cancel
      <4> QED
        BY <3>2, <4>3 DEF WorthAt
    <3> QED
      BY <3>1, <3>2
  <2> QED
    BY <2>1, <2>4 DEF Known, ValueAt
<1>5. CASE /\ o \in Pending \ Spent /\ ~Listed(c, o)
           /\ signed[o[1]].outs[o[2]].addr = Me /\ r.worth = signed[o[1]].outs[o[2]].value
  <2>1. o \notin DOMAIN unspent
    <3>1. SUFFICES ASSUME o \in DOMAIN unspent PROVE FALSE
      OBVIOUS
    <3>2. ~FromStart(o)
      BY <1>5, PendingIs
    <3>3. unspent[o].addr = Me
      BY <1>5, <3>1, <3>2 DEF WalletInv, Coined, OutOf
    <3> QED
      BY <1>2, <1>5, <3>1, <3>3 DEF Listed
  <2> QED
    BY <1>5, <2>1 DEF Known, ValueAt
<1> QED
  BY <1>4, <1>5, CoinKinds

\* A plan is signed.
Signs(c, plan, tx) ==
    /\ tx = [kind |-> call[c].kind, ins |-> plan.ins, outs |-> plan.outs,
             fee |-> call[c].fee, scale |-> call[c].scale, typed |-> call[c].typed]
    /\ signed' = [signed EXCEPT ![c] = tx]
    /\ Step(c, [call[c] EXCEPT !.step = "send", !.rows = {}])
    /\ UNCHANGED <<tipHeight, unspent, mempool, leaving, mined>>

\* What is picked is the sum of what is paid and the fee.
LEMMA SignedSum ==
    ASSUME WalletInv, NEW c \in Commands, call[c].step = "pick", NEW plan, NEW q,
           PlanFrom(c, plan, q), call[c].kind \notin FlagKinds
    PROVE  /\ InAll(q) = OutSum(plan) + call[c].fee
           /\ InAll(q) \in Nat /\ OutSum(plan) \in Nat
           /\ [i \in DOMAIN q |-> q[i].worth] \in Seq(Nat)
           /\ \A i \in DOMAIN q : q[i] \in Coins(c)
<1>1. q \in Seq(Coins(c)) /\ plan.outs \in Seq(Paid) /\ InAll(q) = OutSum(plan) + call[c].fee
  BY DEF PlanFrom
<1>2. \A r \in Coins(c) : r.worth \in Nat
  BY CoinsAre DEF WalletInv
<1>3. InAll(q) \in Nat
  BY <1>1, <1>2, InAllType
<1>4. [i \in DOMAIN plan.outs |-> plan.outs[i].value] \in Seq(Nat)
  <2>2. /\ DOMAIN plan.outs = 1..Len(plan.outs) /\ Len(plan.outs) \in Nat
        /\ \A i \in DOMAIN plan.outs : plan.outs[i] \in Paid
    BY <1>1
  <2>1. \A i \in DOMAIN plan.outs : plan.outs[i].value \in Nat
    BY <2>2 DEF Paid
  <2> QED
    BY <2>1, <2>2
<1>5. OutSum(plan) \in Nat
  BY <1>4, SummedType DEF OutSum
<1>6. DOMAIN q = 1..Len(q) /\ Len(q) \in Nat /\ \A i \in DOMAIN q : q[i] \in Coins(c)
  BY <1>1
<1>7. [i \in DOMAIN q |-> q[i].worth] \in Seq(Nat)
  BY <1>2, <1>6
<1> QED
  BY <1>1, <1>3, <1>5, <1>6, <1>7

\* A new transaction spends what it pays; a command that was not late signs what the node takes.
LEMMA SignsKeeps ==
    ASSUME WalletInv, NEW c \in Commands, call[c].step = "pick", NEW plan, NEW q,
           PlanFrom(c, plan, q), NEW tx, Signs(c, plan, tx)
    PROVE  WalletInv'
<1> DEFINE k == [call[c] EXCEPT !.step = "send", !.rows = {}]
           o(i) == q[i].at
<1>1. /\ call[c] \in Calls /\ CallSound(c, call[c]) /\ call[c].kind \in Kinds
      /\ ~IsSigned(c) /\ c \notin mempool /\ c \notin DOMAIN mined
  BY DEF WalletInv, WalletTyped, CallsSound, CallSound, Stage, IsSigned, NoTx
<1>0. /\ signed' = [signed EXCEPT ![c] = tx]
      /\ UNCHANGED <<tipHeight, unspent, mempool, leaving, mined>>
  BY DEF Signs
<1>2. /\ signed'[c] = tx /\ \A d \in Commands \ {c} : signed'[d] = signed[d]
      /\ Pending' = Pending /\ Spent' = Spent /\ Known' = Known
      /\ \A p : FromStart(p) \/ (IsOut(p) /\ p[1] # c)
           => /\ FromStart(p)' \/ (IsOut(p)' /\ signed'[p[1]] = signed[p[1]])
              /\ PiOf(p)' = PiOf(p) /\ FaceOf(p)' = FaceOf(p)
      /\ \A d \in Commands \ {c} : Doomed(d)' <=> Doomed(d)
      /\ \A p \in Known : \A h : ValueAt(p, h)' = ValueAt(p, h)
  BY <1>0, <1>1, SignFrame
<1>3. /\ UNCHANGED <<tipHeight, unspent, mempool, leaving, mined>>
      /\ \A p : FromStart(p)' <=> FromStart(p)
  BY DEF Signs, FromStart
<1>4. /\ tx.kind = call[c].kind /\ tx.ins = plan.ins /\ tx.outs = plan.outs
      /\ tx.fee = call[c].fee /\ tx.scale = call[c].scale /\ tx.typed = call[c].typed
      /\ tx = [kind |-> tx.kind, ins |-> tx.ins, outs |-> tx.outs,
               fee |-> tx.fee, scale |-> tx.scale, typed |-> tx.typed]
  BY DEF Signs
<1>5. /\ q \in Seq(Coins(c)) /\ IsInjective(q) /\ plan.ins = [i \in DOMAIN q |-> q[i].at]
      /\ plan.outs \in Seq(Paid)
      /\ DOMAIN q = 1..Len(q) /\ Len(q) \in Nat /\ \A i \in DOMAIN q : q[i] \in Coins(c)
  BY DEF PlanFrom
<1>6. DOMAIN tx.ins = DOMAIN q /\ \A i \in DOMAIN q : tx.ins[i] = q[i].at
  BY <1>4, <1>5
<1>7. /\ \A r \in Coins(c) : r.at \in Places /\ r.worth \in Nat /\ r.at \notin Spent
      /\ \A r, s \in Coins(c) : r.at = s.at => r = s
  BY CoinsAre DEF WalletInv
<1>8. tx \in SignedTxs
  <2>1. tx.ins \in Seq(Places)
    BY <1>4, <1>5, <1>6, <1>7
  <2> QED
    BY <1>1, <1>4, <1>5, <2>1 DEF SignedTxs, Calls
<1>9. /\ k \in Calls /\ k.step = "send" /\ k.kind = call[c].kind /\ k.scale = call[c].scale
      /\ k.fee = call[c].fee /\ k.late = call[c].late
  BY <1>1 DEF Calls
<1> HIDE DEF k
<1>10. /\ call' \in [Commands -> Calls]
       /\ \A d \in Commands : call'[d] = IF d = c THEN k ELSE call[d]
  BY <1>9 DEF Signs, Step, WalletInv, WalletTyped, k
<1>11. WalletTyped'
  <2>1. signed' \in [Commands -> SignedTxs]
    BY <1>8 DEF WalletInv, WalletTyped, Signs
  <2> QED
    BY <1>3, <1>10, <2>1 DEF WalletInv, WalletTyped
<1>12. IsSigned(c)' /\ \A d \in Commands \ {c} : IsSigned(d)' <=> IsSigned(d)
  <2>1. tx.kind # "none"
    BY <1>1, <1>4 DEF Kinds, FlagKinds
  <2> QED
    BY <1>2, <2>1 DEF IsSigned
<1>13. \A u : UnitSeen(u)' <=> UnitSeen(u)
  BY <1>3 DEF UnitSeen
<1>14. \A i \in DOMAIN q : Exists(q[i].at)
  BY <1>5, CoinsExist
<1>15. ASSUME NEW p, Exists(p)
       PROVE  /\ Exists(p)' /\ FaceOf(p)' = FaceOf(p)
              /\ ~FromStart(p) => p[1] \in Commands \ {c}
  <2>1. FromStart(p) \/ (IsOut(p) /\ p[1] # c)
    BY <1>1, <1>15 DEF Exists
  <2>2. ~FromStart(p) => p[1] \in Commands \ {c} /\ IsSigned(p[1])
    BY <1>15, <2>1 DEF Exists, IsOut
  <2> QED
    BY <1>2, <1>3, <1>12, <2>1, <2>2 DEF Exists
<1>a. SpendsSigned'
  <2>1. ASSUME NEW t, SignedSound(t) PROVE SignedSound(t)'
    BY <1>13, <1>15, <2>1 DEF SignedSound
  <2>2. ASSUME NEW d \in Commands, d # c, IsSigned(d)' PROVE SignedSound(signed[d])'
    <3>1. SignedSound(signed[d]) /\ signed'[d] = signed[d]
      BY <1>2, <1>12, <2>2 DEF WalletInv, SpendsSigned
    <3> QED
      BY <2>1, <3>1
  <2>3. SignedSound(tx)
    <3>1. IsInjective(tx.ins)
      BY <1>5, <1>6, <1>7 DEF IsInjective
    <3>2. UnitSeen(tx.scale)
      BY <1>1, <1>4 DEF CallSound, Counting
    <3> QED
      BY <1>6, <1>14, <3>1, <3>2 DEF SignedSound
  <2>4. SignedSound(tx)'
    BY <2>1, <2>3
  <2> QED
    BY <1>2, <2>2, <2>4 DEF SpendsSigned
<1>16. Coined'
  <2>1. ASSUME NEW p \in DOMAIN unspent
        PROVE  \/ FromStart(p)' /\ unspent'[p] = [addr |-> Me, value |-> Coinbases[p[1]], born |-> 1]
               \/ /\ IsOut(p)' /\ p[1] \in DOMAIN mined'
                  /\ unspent'[p] = [addr |-> signed'[p[1]].outs[p[2]].addr,
                                    value |-> signed'[p[1]].outs[p[2]].value,
                                    born |-> mined'[p[1]]]
    <3>1. CASE FromStart(p) /\ unspent[p] = [addr |-> Me, value |-> Coinbases[p[1]], born |-> 1]
      BY <1>3, <3>1
    <3>2. CASE /\ IsOut(p) /\ p[1] \in DOMAIN mined
               /\ unspent[p] = [addr |-> OutOf(p).addr, value |-> OutOf(p).value,
                                born |-> mined[p[1]]]
      <4>1. p[1] # c /\ p[1] \in Commands \ {c}
        BY <1>1, <3>2 DEF IsOut
      <4>2. signed'[p[1]] = signed[p[1]]
        BY <1>2, <4>1
      <4> QED
        BY <1>3, <3>2, <4>1, <4>2 DEF IsOut, OutOf
    <3> QED
      BY <3>1, <3>2 DEF WalletInv, Coined
  <2> QED
    BY <1>3, <2>1 DEF Coined, OutOf
<1>17. PoolSound' /\ MinedSound'
  <2>1. \A d \in mempool \union leaving \union DOMAIN mined : signed'[d] = signed[d]
    <3>1. mempool \union leaving \union DOMAIN mined \subseteq Commands \ {c}
      BY <1>1 DEF WalletInv, WalletTyped, PoolSound
    <3> QED
      BY <1>2, <3>1
  <2>2. PoolSound'
    BY <1>2, <1>3, <2>1 DEF WalletInv, PoolSound
  <2>3. MinedSound'
    BY <1>3, <2>1 DEF WalletInv, MinedSound
  <2> QED
    BY <2>2, <2>3
<1>18. WealthKept'
  <2>1. \A d \in DOMAIN mined : signed'[d] = signed[d]
    <3>1. DOMAIN mined \subseteq Commands \ {c}
      BY <1>1 DEF WalletInv, WalletTyped
    <3> QED
      BY <1>2, <3>1
  <2>2. \A d \in DOMAIN mined : Crossed(d)' <=> Crossed(d)
    BY <1>3, <2>1 DEF Crossed
  <2>3. [d \in DOMAIN mined |-> Pi(signed'[d].fee, mined[d])]
          = [d \in DOMAIN mined |-> Pi(signed[d].fee, mined[d])]
    BY <2>1
  <2> QED
    BY <1>3, <2>1, <2>2, <2>3 DEF WalletInv, WealthKept
<1>19. Exact'
  <2>1. ASSUME NEW d \in Commands \ {c}, IsSigned(d)', ~Doomed(d)', signed'[d].kind \notin FlagKinds,
               \A i \in DOMAIN signed'[d].ins :
                 (FromStart(signed[d].ins[i]) \/ ~Doomed(signed[d].ins[i][1]))'
        PROVE  Summed([i \in DOMAIN signed'[d].ins |-> FaceOf(signed[d].ins[i])'])
                 = (OutSum(signed'[d]) + signed'[d].fee) * signed'[d].scale
    <3>1. signed'[d] = signed[d] /\ IsSigned(d) /\ ~Doomed(d)
      BY <1>2, <1>12, <2>1
    <3> DEFINE ins == signed[d].ins
    <3>2. \A i \in DOMAIN ins : Exists(ins[i])
      BY <3>1 DEF WalletInv, SpendsSigned, SignedSound
    <3>3. \A i \in DOMAIN ins : FromStart(ins[i]) \/ ~Doomed(ins[i][1])
      BY <1>2, <1>3, <1>15, <2>1, <3>1, <3>2
    <3>4. Summed([i \in DOMAIN ins |-> FaceOf(ins[i])])
            = (OutSum(signed[d]) + signed[d].fee) * signed[d].scale
      BY <2>1, <3>1, <3>3 DEF WalletInv, Exact
    <3>5. [i \in DOMAIN ins |-> FaceOf(ins[i])'] = [i \in DOMAIN ins |-> FaceOf(ins[i])]
      <4>1. \A i \in DOMAIN ins : FaceOf(ins[i])' = FaceOf(ins[i])
        BY <1>15, <3>1, <3>2
      <4> QED
        BY <4>1
    <3> QED
      BY <3>1, <3>4, <3>5
  <2>2. ASSUME ~Doomed(c)', tx.kind \notin FlagKinds,
               \A i \in DOMAIN tx.ins : FromStart(tx.ins[i])' \/ ~Doomed(tx.ins[i][1])'
        PROVE  Summed([i \in DOMAIN tx.ins |-> FaceOf(tx.ins[i])'])
                 = (OutSum(tx) + tx.fee) * tx.scale
    <3> DEFINE w == [i \in DOMAIN q |-> q[i].worth]
               u == call[c].scale
    <3>1. u # 1 => tipHeight + 1 < Activation
      <4>1. tipHeight + 1 \in Nat /\ Activation \in Nat
        BY Limits DEF WalletInv, WalletTyped
      <4> QED
        BY <1>1, <1>2, <1>3, <1>4, <2>2, <4>1 DEF Doomed
    <3>2. ASSUME NEW i \in DOMAIN q
          PROVE  FaceOf(tx.ins[i])' = w[i] * u
      <4>1. tx.ins[i] = q[i].at /\ Exists(q[i].at) /\ q[i] \in Coins(c)
        BY <1>5, <1>6, <1>14
      <4>2. FromStart(q[i].at) \/ ~Doomed(q[i].at[1])
        BY <1>2, <1>3, <1>6, <1>15, <2>2, <4>1
      <4>3. FaceOf(q[i].at) = q[i].worth * u
        BY <3>1, <4>1, <4>2, CoinsFace
      <4> QED
        BY <1>15, <4>1, <4>3
    <3>3. /\ InAll(q) = OutSum(plan) + call[c].fee
          /\ w \in Seq(Nat) /\ InAll(q) = Summed(w)
      BY <1>4, <2>2, SignedSum DEF InAll
    <3>4. u \in Nat
      BY <1>1 DEF Calls
    <3>5. Summed([i \in DOMAIN w |-> w[i] * u]) = Summed(w) * u
      <4> HIDE DEF w, u
      <4> QED
        BY <3>3, <3>4, SummedScales DEF Scales
    <3>6. [i \in DOMAIN tx.ins |-> FaceOf(tx.ins[i])'] = [i \in DOMAIN w |-> w[i] * u]
      <4>1. DOMAIN w = DOMAIN q
        OBVIOUS
      <4> HIDE DEF w, u
      <4> QED
        BY <1>6, <3>2, <4>1
    <3>7. OutSum(tx) = OutSum(plan)
      BY <1>4 DEF OutSum
    <3> HIDE DEF w, u
    <3>8. Summed([i \in DOMAIN tx.ins |-> FaceOf(tx.ins[i])'])
            = (OutSum(plan) + call[c].fee) * u
      BY <3>3, <3>5, <3>6
    <3> QED
      BY <1>4, <3>7, <3>8 DEF u
  <2>3. ASSUME NEW d \in Commands, IsSigned(d)', ~Doomed(d)', signed'[d].kind \notin FlagKinds,
               \A i \in DOMAIN signed'[d].ins :
                 (FromStart(signed[d].ins[i]) \/ ~Doomed(signed[d].ins[i][1]))'
        PROVE  Summed([i \in DOMAIN signed'[d].ins |-> FaceOf(signed[d].ins[i])'])
                 = (OutSum(signed'[d]) + signed'[d].fee) * signed'[d].scale
    <3>1. CASE d = c
      BY <1>2, <2>2, <2>3, <3>1
    <3>2. CASE d # c
      BY <2>1, <2>3, <3>2
    <3> QED
      BY <3>1, <3>2
  <2> QED
    BY <2>3 DEF Exact, OutSum
<1>20. CallsSound'
  <2>1. \A p \in DOMAIN mined : p # c
    BY <1>1
  <2>2. ASSUME NEW d \in Commands \ {c}, NEW j, CallSound(d, j)
        PROVE  CallSound(d, j)'
    <3>1. Stage(d, j)' /\ Counting(j)'
      <4>1. signed'[d] = signed[d] /\ (IsSigned(d)' <=> IsSigned(d))
        BY <1>2, <1>12
      <4> QED
        BY <1>3, <1>13, <2>2, <4>1 DEF CallSound, Stage, Counting
    <3>2. RowsTrue(j)'
      <4>1. ASSUME NEW p, FromStart(p) \/ (IsOut(p) /\ p[1] \in DOMAIN mined)
            PROVE  /\ FromStart(p)' \/ (IsOut(p)' /\ p[1] \in DOMAIN mined')
                   /\ PiOf(p)' = PiOf(p)
        <5>1. FromStart(p) \/ (IsOut(p) /\ p[1] # c)
          BY <2>1, <4>1
        <5> QED
          BY <1>2, <1>3, <4>1, <5>1
      <4> QED
        BY <1>3, <2>2, <4>1 DEF CallSound, RowsTrue, Fresh
    <3>3. StillGood(d, j)'
      <4>1. SUFFICES ASSUME j.step = "send", ~j.late, j.kind \notin FlagKinds
                     PROVE  /\ Funded(signed[d], tipHeight + 1)'
                            /\ ToSet(signed'[d].ins) \intersect Spent' = {}
        BY DEF StillGood
      <4>2. Funded(signed[d], tipHeight + 1) /\ ToSet(signed[d].ins) \intersect Spent = {}
        BY <2>2, <4>1 DEF CallSound, StillGood
      <4>3. signed'[d] = signed[d] /\ tipHeight' = tipHeight /\ Spent' = Spent /\ Known' = Known
        BY <1>2, <1>3
      <4>4. \A i \in DOMAIN signed[d].ins : signed[d].ins[i] \in Known
        BY <4>2 DEF Funded, ToSet
      <4>5. [i \in DOMAIN signed[d].ins |-> ValueAt(signed[d].ins[i], tipHeight + 1)']
              = [i \in DOMAIN signed[d].ins |-> ValueAt(signed[d].ins[i], tipHeight + 1)]
        <5>1. \A p \in Known : ValueAt(p, tipHeight + 1)' = ValueAt(p, tipHeight + 1)
          BY <1>2, <1>3 DEF ValueAt
        <5>2. \A i \in DOMAIN signed[d].ins :
                ValueAt(signed[d].ins[i], tipHeight + 1)' = ValueAt(signed[d].ins[i], tipHeight + 1)
          BY <4>3, <4>4, <5>1
        <5> QED
          BY <5>2
      <4>6. InSum(signed[d], tipHeight + 1)' = InSum(signed[d], tipHeight + 1)
        BY <4>3, <4>5 DEF InSum
      <4> QED
        BY <4>2, <4>3, <4>6 DEF Funded, WellFormed, OutSum
    <3> QED
      BY <3>1, <3>2, <3>3 DEF CallSound
  <2>3. ASSUME NEW d \in Commands \ {c} PROVE CallSound(d, call[d])'
    <3>1. CallSound(d, call[d]) /\ call'[d] = call[d]
      BY <1>10 DEF WalletInv, CallsSound
    <3> QED
      BY <2>2, <3>1
  <2>4. ASSUME NEW j, j = k PROVE CallSound(c, j)'
    <3>0. /\ j.step = "send" /\ j.kind = call[c].kind /\ j.scale = call[c].scale
          /\ j.fee = call[c].fee /\ j.late = call[c].late
      BY <1>9, <2>4
    <3>1. Stage(c, j)'
      BY <1>1, <1>2, <1>3, <1>4, <1>12, <3>0 DEF Stage
    <3>2. Counting(j)'
      BY <1>1, <1>3, <1>13, <3>0 DEF CallSound, Counting
    <3>3. RowsTrue(j)'
      BY <3>0 DEF RowsTrue
    <3>4. StillGood(c, j)'
      <4>1. SUFFICES ASSUME ~j.late, j.kind \notin FlagKinds
                     PROVE  /\ Funded(signed[c], tipHeight + 1)'
                            /\ ToSet(signed'[c].ins) \intersect Spent' = {}
        BY DEF StillGood
      <4> DEFINE w == [i \in DOMAIN q |-> q[i].worth]
      <4>2. ASSUME NEW i \in DOMAIN q
            PROVE  /\ q[i].at \in Known /\ q[i].at \notin Spent
                   /\ ValueAt(q[i].at, tipHeight + 1) = w[i]
        BY <1>5, <1>7, <3>0, <4>1, CoinsKnown
      <4>3. ToSet(tx.ins) \subseteq Known /\ ToSet(tx.ins) \intersect Spent = {}
        BY <1>6, <4>2 DEF ToSet
      <4>4. ASSUME NEW i \in DOMAIN q PROVE ValueAt(tx.ins[i], tipHeight + 1)' = w[i]
        <5>1. ValueAt(q[i].at, tipHeight + 1)' = ValueAt(q[i].at, tipHeight + 1)
          BY <1>2, <1>3, <4>2 DEF ValueAt
        <5> QED
          BY <1>6, <4>2, <5>1
      <4>5. [i \in DOMAIN tx.ins |-> ValueAt(tx.ins[i], tipHeight + 1)'] = w
        BY <1>6, <4>4
      <4>6. InSum(tx, tipHeight + 1)' = InAll(q)
        BY <4>5 DEF InSum, InAll
      <4>7. OutSum(tx) = OutSum(plan)
        BY <1>4 DEF OutSum
      <4>8. InAll(q) = OutSum(plan) + call[c].fee /\ InAll(q) \in Nat
        BY <3>0, <4>1, SignedSum
      <4>9. call[c].fee >= LeastFee(tipHeight + 1)
        BY <1>1, <3>0, <4>1 DEF CallSound, Counting
      <4>10. WellFormed(tx)
        BY <1>4, <3>0, <4>1 DEF WellFormed
      <4>11. Funded(signed[c], tipHeight + 1)'
        <5>1. /\ signed'[c] = tx /\ tx.fee >= LeastFee(tipHeight + 1)
              /\ ToSet(tx.ins) \subseteq Known
              /\ OutSum(tx) + tx.fee <= InSum(tx, tipHeight + 1)'
          BY <1>2, <1>4, <4>3, <4>6, <4>7, <4>8, <4>9
        <5>2. WellFormed(tx)' /\ OutSum(tx)' = OutSum(tx) /\ LeastFee(tipHeight + 1)' = LeastFee(tipHeight + 1)
          BY <1>3, <4>10 DEF WellFormed, OutSum, LeastFee
        <5> QED
          BY <1>2, <1>3, <4>10, <5>1, <5>2 DEF Funded, WellFormed, OutSum, InSum
      <4> QED
        BY <1>2, <4>3, <4>11
    <3> QED
      BY <3>1, <3>2, <3>3, <3>4 DEF CallSound
  <2>5. CallSound(c, call[c])'
    BY <1>10, <2>4
  <2> QED
    BY <2>3, <2>5 DEF CallsSound
<1> QED
  BY <1>11, <1>16, <1>17, <1>18, <1>19, <1>20, <1>a DEF WalletInv

\* A command picks coins, or has none to pick.
LEMMA PickKeeps == ASSUME WalletInv, NEW c \in Commands, Pick(c) PROVE WalletInv'
<1>1. CASE Plans(c) = {} /\ Ends(c, "failed") /\ UNCHANGED signed
  <2>1. OnlyCalls /\ call[c].step = "pick"
    BY <1>1 DEF Pick, OnlyCalls
  <2> QED
    BY <1>1, <2>1, EndKeeps
<1> DEFINE txOf(plan) ==
             [kind |-> call[c].kind, ins |-> plan.ins, outs |-> plan.outs,
              fee |-> call[c].fee, scale |-> call[c].scale, typed |-> call[c].typed]
<1>2. ASSUME NEW plan \in Plans(c), Signs(c, plan, txOf(plan)), call[c].step = "pick"
      PROVE  WalletInv'
  <2>1. PICK q : PlanFrom(c, plan, q)
    BY <1>2, PlanSound DEF WalletInv
  <2> HIDE DEF txOf
  <2> QED
    BY <1>2, <2>1, SignsKeeps
<1>3. \/ Plans(c) = {} /\ Ends(c, "failed") /\ UNCHANGED signed
      \/ \E plan \in Plans(c) : Signs(c, plan, txOf(plan))
  BY DEF Pick, Signs
<1>4. call[c].step = "pick"
  BY DEF Pick
<1> QED
  BY <1>1, <1>2, <1>3, <1>4
-----------------------------------------------------------------------------
(* Sending *)

\* A command that has read something now out of date.
Outdated(k) ==
    IF k.step \in {"list", "pick", "send"} THEN [k EXCEPT !.late = TRUE] ELSE k

\* What is known of a command that a send or a block made late.
LEMMA OutdatedSound ==
    ASSUME WalletTyped, NEW d \in Commands, CallSound(d, call[d]), signed' = signed,
           d \in mempool' \union DOMAIN mined' => call[d].step = "accepted",
           \/ tipHeight' = tipHeight /\ unspent' = unspent
           \/ tipHeight' = tipHeight + 1,
           \A b \in DOMAIN mined : b \in DOMAIN mined' /\ mined'[b] = mined[b],
           NEW j, j = Outdated(call[d])
    PROVE  j \in Calls /\ CallSound(d, j)'
<1>1. tipHeight \in Nat /\ tipHeight' \in Nat /\ Activation \in Nat /\ tipHeight' >= tipHeight
  BY Limits DEF WalletTyped
<1>2. call[d] \in Calls
  BY DEF WalletTyped
<1>3. CASE call[d].step \notin {"list", "pick", "send"}
  <2>1. j = call[d]
    BY <1>3 DEF Outdated
  <2>2. Stage(d, j)'
    BY <1>3, <2>1 DEF CallSound, Stage, IsSigned
  <2> QED
    BY <1>2, <1>3, <2>1, <2>2 DEF CallSound, Counting, RowsTrue, StillGood
<1>4. CASE call[d].step \in {"list", "pick", "send"}
  <2>1. /\ j \in Calls /\ j.step = call[d].step /\ j.kind = call[d].kind
        /\ j.scale = call[d].scale /\ j.rows = call[d].rows /\ j.late = TRUE
    BY <1>2, <1>4 DEF Outdated, Calls
  <2>2. Stage(d, j)'
    BY <1>4, <2>1 DEF CallSound, Stage, IsSigned
  <2>3. UnitSeen(j.scale) /\ Counting(j)'
    BY <1>1, <1>4, <2>1 DEF CallSound, Counting, UnitSeen
  <2>4. RowsTrue(j)'
    <3>1. SUFFICES ASSUME j.step = "pick"
                   PROVE  /\ IsFiniteSet(j.rows)
                          /\ \A r \in j.rows :
                               /\ FromStart(r.at)' \/ (IsOut(r.at)' /\ r.at[1] \in DOMAIN mined')
                               /\ r.worth * j.scale = PiOf(r.at)'
                          /\ \A r, s \in j.rows : r.at = s.at => r = s
                          /\ Fresh(j)' => {r.at : r \in j.rows}
                                            = {o \in DOMAIN unspent' : unspent'[o].addr = Me}
      BY DEF RowsTrue
    <3>2. /\ IsFiniteSet(j.rows)
          /\ \A r \in j.rows : /\ FromStart(r.at) \/ (IsOut(r.at) /\ r.at[1] \in DOMAIN mined)
                               /\ r.worth * j.scale = PiOf(r.at)
          /\ \A r, s \in j.rows : r.at = s.at => r = s
          /\ Fresh(call[d]) => {r.at : r \in j.rows} = {o \in DOMAIN unspent : unspent[o].addr = Me}
      BY <2>1, <3>1 DEF CallSound, RowsTrue
    <3>3. ASSUME NEW r \in j.rows
          PROVE  /\ FromStart(r.at)' \/ (IsOut(r.at)' /\ r.at[1] \in DOMAIN mined')
                 /\ PiOf(r.at)' = PiOf(r.at)
      BY <3>2 DEF FromStart, IsOut, PiOf, OutOf
    <3>4. Fresh(j)' => Fresh(call[d]) /\ tipHeight' = tipHeight /\ unspent' = unspent
      <4>1. SUFFICES ASSUME Fresh(j)'
                     PROVE  Fresh(call[d]) /\ tipHeight' = tipHeight /\ unspent' = unspent
        OBVIOUS
      <4>2. tipHeight' + 1 = Activation /\ j.scale # PiPerOldUnit
        BY <2>1, <4>1 DEF Fresh
      <4>3. tipHeight + 1 >= Activation
        BY <2>3, <4>2 DEF UnitSeen
      <4>4. tipHeight' = tipHeight /\ unspent' = unspent
        BY <1>1, <4>2, <4>3
      <4> QED
        BY <2>1, <4>2, <4>4 DEF Fresh
    <3> QED
      BY <3>2, <3>3, <3>4
  <2>5. StillGood(d, j)'
    BY <2>1 DEF StillGood
  <2> QED
    BY <2>1, <2>2, <2>3, <2>4, <2>5 DEF CallSound
<1> QED
  BY <1>3, <1>4

\* What is accepted spends no coin another transaction of the mempool spends.
LEMMA SendKeeps == ASSUME WalletInv, NEW c \in Commands, Send(c) PROVE WalletInv'
<1>1. /\ call[c].step = "send" /\ call[c] \in Calls /\ CallSound(c, call[c])
      /\ UNCHANGED <<tipHeight, unspent, leaving, signed, mined>>
  BY DEF Send, WalletInv, WalletTyped, CallsSound
<1> DEFINE good == Funded(signed[c], tipHeight + 1) /\ ToSet(signed[c].ins) \intersect Spent = {}
<1>2. CASE ~good
  <2>1. Ends(c, "refused") /\ OnlyCalls
    BY <1>1, <1>2 DEF Send, OnlyCalls
  <2>2. call[c].late \/ call[c].kind \in FlagKinds
    BY <1>1, <1>2 DEF CallSound, StillGood, Calls
  <2> QED
    BY <1>1, <2>1, <2>2, EndKeeps
<1>3. CASE good
  <2> DEFINE k == [call[c] EXCEPT !.step = "accepted"]
  <2>1. /\ mempool' = mempool \union {c}
        /\ call' = [Outdates(Commands \ {c}) EXCEPT ![c].step = "accepted"]
    BY <1>3 DEF Send
  <2>2. /\ \A d \in Commands \ {c} : call'[d] = Outdated(call[d])
        /\ call'[c] = k /\ call' = [d \in Commands |-> call'[d]]
    BY <2>1 DEF Outdates, Outdated
  <2>3. k \in Calls /\ k.step = "accepted" /\ k.kind = call[c].kind
    BY <1>1 DEF Calls
  <2> HIDE DEF k
  <2>4. c \notin mempool /\ c \notin DOMAIN mined /\ IsSigned(c) /\ signed[c].kind = call[c].kind
    BY <1>1 DEF CallSound, Stage
  <2>5. ASSUME NEW d \in Commands, d # c PROVE call'[d] \in Calls /\ CallSound(d, call[d])'
    <3>1. CallSound(d, call[d])
      BY DEF WalletInv, CallsSound
    <3>2. d \in mempool' \union DOMAIN mined' => call[d].step = "accepted"
      BY <1>1, <2>1, <2>5, <3>1 DEF CallSound, Stage
    <3>3. ASSUME NEW j, j = Outdated(call[d]) PROVE j \in Calls /\ CallSound(d, j)'
      BY <1>1, <3>1, <3>2, <3>3, OutdatedSound DEF WalletInv
    <3> QED
      BY <2>2, <2>5, <3>3
  <2>6. ASSUME NEW j, j = k PROVE CallSound(c, j)'
    <3>1. j.step = "accepted" /\ j.kind = signed[c].kind
      BY <2>3, <2>4, <2>6
    <3>2. Stage(c, j)'
      BY <1>1, <2>4, <3>1 DEF Stage, IsSigned
    <3> QED
      BY <3>1, <3>2 DEF CallSound, Counting, RowsTrue, StillGood
  <2>7. CallsSound'
    <3>1. CallSound(c, call[c])'
      BY <2>2, <2>6
    <3> QED
      BY <2>5, <3>1 DEF CallsSound
  <2>8. WalletTyped'
    <3>1. call' \in [Commands -> Calls]
      BY <2>2, <2>3, <2>5
    <3>2. mempool' \subseteq Commands /\ IsFiniteSet(mempool')
      BY <2>1, FS_AddElement DEF WalletInv, WalletTyped
    <3> QED
      BY <1>1, <3>1, <3>2 DEF WalletInv, WalletTyped
  <2>9. PoolSound'
    <3>1. signed[c].kind \notin FlagKinds /\ ToSet(signed[c].ins) \intersect Spent = {}
      BY <1>3 DEF Funded, WellFormed
    <3>2. \A d \in mempool : ToSet(signed[d].ins) \subseteq Spent
      BY DEF Spent
    <3>3. Spent \subseteq Spent'
      BY <1>1, <2>1 DEF Spent
    <3>4. \A d, e \in mempool' :
            d # e => ToSet(signed[d].ins) \intersect ToSet(signed[e].ins) = {}
      <4>1. \A d, e \in mempool :
              d # e => ToSet(signed[d].ins) \intersect ToSet(signed[e].ins) = {}
        BY DEF WalletInv, PoolSound
      <4> QED
        BY <2>1, <3>1, <3>2, <4>1
    <3>5. leaving' = mempool' \intersect DOMAIN mined'
      BY <1>1, <2>1, <2>4 DEF WalletInv, PoolSound
    <3> QED
      BY <1>1, <2>1, <3>1, <3>3, <3>4, <3>5 DEF WalletInv, PoolSound
  <2>10. SpendsSigned' /\ Coined' /\ MinedSound'
    BY <1>1 DEF WalletInv, SpendsSigned, SignedSound, Exists, IsSigned, IsOut, FromStart,
                UnitSeen, Coined, MinedSound, OutOf
  <2>11. Exact'
    BY <1>1 DEF WalletInv, Exact, IsSigned, Doomed, FaceOf, FromStart, OutOf, OutSum
  <2>12. WealthKept'
    BY <1>1 DEF WalletInv, WealthKept, Crossed
  <2> QED
    BY <2>7, <2>8, <2>9, <2>10, <2>11, <2>12 DEF WalletInv
<1> QED
  BY <1>2, <1>3
-----------------------------------------------------------------------------
(* A block's transactions leave the mempool *)

\* The outputs of what leaves the mempool are in the chain by then.
LEMMA ClearKeeps == ASSUME WalletInv, Clear PROVE WalletInv'
<1>1. /\ mempool' = mempool \ leaving /\ leaving' = {}
      /\ UNCHANGED <<tipHeight, unspent, signed, mined, call>>
  BY DEF Clear
<1>2. Spent' \subseteq Spent
  BY <1>1 DEF Spent
<1>3. \A o : o \in Known /\ o \notin Spent => o \in Known'
  <2> SUFFICES ASSUME NEW o, o \in Known, o \notin Spent PROVE o \in Known'
    OBVIOUS
  <2>1. CASE o \in DOMAIN unspent
    BY <1>1, <2>1 DEF Known
  <2>2. CASE o \in Pending /\ o \notin DOMAIN unspent
    <3>1. PICK d \in mempool : \E i \in DOMAIN signed[d].outs : o = <<d, i>>
      BY <2>2 DEF Pending
    <3>2. d \notin leaving
      BY <2>2, <3>1 DEF WalletInv, PoolSound
    <3>3. o \in Pending'
      BY <1>1, <3>1, <3>2 DEF Pending
    <3> QED
      BY <3>3 DEF Known
  <2> QED
    BY <2>1, <2>2 DEF Known
<1>4. WalletTyped'
  BY <1>1, FS_Subset DEF WalletInv, WalletTyped
<1>5. PoolSound'
  BY <1>1 DEF WalletInv, PoolSound
<1>6. SpendsSigned' /\ Coined' /\ MinedSound'
  BY <1>1 DEF WalletInv, SpendsSigned, SignedSound, Exists, IsSigned, IsOut, FromStart,
              UnitSeen, Coined, MinedSound, OutOf
<1>7. Exact'
  BY <1>1 DEF WalletInv, Exact, IsSigned, Doomed, FaceOf, FromStart, OutOf, OutSum
<1>8. WealthKept'
  BY <1>1 DEF WalletInv, WealthKept, Crossed
<1>9. CallsSound'
  <2>1. ASSUME NEW d \in Commands, NEW k, CallSound(d, k) PROVE CallSound(d, k)'
    <3>1. Stage(d, k)' /\ Counting(k)'
      BY <1>1, <2>1 DEF CallSound, Stage, Counting, IsSigned, UnitSeen
    <3>2. RowsTrue(k)'
      BY <1>1, <2>1 DEF CallSound, RowsTrue, Fresh, FromStart, IsOut, PiOf, OutOf
    <3>3. StillGood(d, k)'
      <4>1. SUFFICES ASSUME k.step = "send", ~k.late, k.kind \notin FlagKinds
                     PROVE  /\ Funded(signed[d], tipHeight + 1)'
                            /\ ToSet(signed'[d].ins) \intersect Spent' = {}
        BY DEF StillGood
      <4>2. Funded(signed[d], tipHeight + 1) /\ ToSet(signed[d].ins) \intersect Spent = {}
        BY <2>1, <4>1 DEF CallSound, StillGood
      <4>3. ToSet(signed[d].ins) \subseteq Known'
        BY <1>3, <4>2 DEF Funded
      <4>4. Funded(signed[d], tipHeight + 1)'
        BY <1>1, <4>2, <4>3 DEF Funded, WellFormed, OutSum, InSum, ValueAt
      <4> QED
        BY <1>1, <1>2, <4>2, <4>4
    <3> QED
      BY <3>1, <3>2, <3>3 DEF CallSound
  <2>2. ASSUME NEW d \in Commands PROVE CallSound(d, call[d])'
    <3>1. CallSound(d, call[d]) /\ call'[d] = call[d]
      BY <1>1 DEF WalletInv, CallsSound
    <3> QED
      BY <2>1, <3>1
  <2> QED
    BY <2>2 DEF CallsSound
<1> QED
  BY <1>4, <1>5, <1>6, <1>7, <1>8, <1>9 DEF WalletInv

-----------------------------------------------------------------------------
(* A block *)

\* The part of a function on a set.
Part(f, S) == [x \in S |-> f[x]]

\* The transactions of S take what Q lists and make what R lists, for a fee each.
Trades(whole, D, new, S, Q, R, fee) ==
    /\ AddsUp(whole) /\ DOMAIN whole = D \union new /\ D \intersect new = {}
    /\ IsFiniteSet(S) /\ Apart(S, Q) /\ Apart(S, R)
    /\ AllOf(S, Q) \subseteq D \union new /\ AllOf(S, R) = new
    /\ AddsUp(fee) /\ DOMAIN fee = S
    /\ \A c \in S : SumOf(Q[c], whole) = SumOf(R[c], whole) + fee[c]

\* What is left and the fees are what there was.
LEMMA BlockBalance ==
    ASSUME NEW whole, NEW D, NEW new, NEW S, NEW Q, NEW R, NEW fee,
           Trades(whole, D, new, S, Q, R, fee)
    PROVE  /\ Worth(Part(whole, D)) = Worth(Part(whole, (D \union new) \ AllOf(S, Q))) + Worth(fee)
           /\ Worth(Part(whole, (D \union new) \ AllOf(S, Q))) \in Nat /\ Worth(fee) \in Nat
<1>0. /\ AddsUp(whole) /\ DOMAIN whole = D \union new /\ D \intersect new = {}
      /\ IsFiniteSet(S) /\ Apart(S, Q) /\ Apart(S, R)
      /\ AllOf(S, Q) \subseteq D \union new /\ AllOf(S, R) = new
      /\ AddsUp(fee) /\ DOMAIN fee = S
      /\ \A c \in S : SumOf(Q[c], whole) = SumOf(R[c], whole) + fee[c]
  BY DEF Trades
<1> DEFINE gone == AllOf(S, Q)
           kept == (D \union new) \ gone
           taken == SumsOf(S, Q, Part(whole, gone))
           made == SumsOf(S, R, Part(whole, new))
<1>1. /\ AddsUp(Part(whole, D)) /\ AddsUp(Part(whole, new))
      /\ Worth(whole) = Worth(Part(whole, D)) + Worth(Part(whole, new))
  BY <1>0, WorthParts DEF Part
<1>2. /\ AddsUp(Part(whole, kept)) /\ AddsUp(Part(whole, gone))
      /\ Worth(whole) = Worth(Part(whole, kept)) + Worth(Part(whole, gone))
  <2>1. DOMAIN whole = kept \union gone /\ kept \intersect gone = {}
    BY <1>0
  <2> HIDE DEF kept, gone
  <2> QED
    BY <1>0, <2>1, WorthParts DEF Part
<1>3. DOMAIN Part(whole, gone) = gone /\ DOMAIN Part(whole, new) = new
  BY DEF Part
<1>4. AddsUp(taken) /\ Worth(Part(whole, gone)) = Worth(taken)
  <2>1. Families(S)
    BY <1>0, WorthFamily
  <2> QED
    BY <1>0, <1>2, <1>3, <2>1 DEF Families
<1>5. AddsUp(made) /\ Worth(Part(whole, new)) = Worth(made)
  <2>1. Families(S)
    BY <1>0, WorthFamily
  <2> QED
    BY <1>0, <1>1, <1>3, <2>1 DEF Families
<1>6. ASSUME NEW c \in S PROVE taken[c] = made[c] + fee[c]
  <2>1. taken[c] = SumOf(Q[c], whole)
    <3>1. \A i \in DOMAIN Q[c] : Part(whole, gone)[Q[c][i]] = whole[Q[c][i]]
      BY DEF Part, AllOf, ToSet
    <3> QED
      BY <3>1 DEF SumsOf, SumOf
  <2>2. made[c] = SumOf(R[c], whole)
    <3>1. \A i \in DOMAIN R[c] : Part(whole, new)[R[c][i]] = whole[R[c][i]]
      <4>1. \A i \in DOMAIN R[c] : R[c][i] \in new
        BY <1>0 DEF AllOf, ToSet
      <4> QED
        BY <4>1 DEF Part
    <3> QED
      BY <3>1 DEF SumsOf, SumOf
  <2> QED
    BY <1>0, <2>1, <2>2
<1>7. DOMAIN taken = S /\ DOMAIN made = S
  BY DEF SumsOf
<1> HIDE DEF kept, gone, taken, made
<1>8. Worth(taken) = Worth(made) + Worth(fee)
  <2>1. taken = [c \in S |-> made[c] + fee[c]]
    BY <1>4, <1>6, <1>7 DEF AddsUp
  <2>2. PairsOn(S)
    BY <1>0, WorthPairs
  <2> QED
    BY <1>0, <1>5, <1>7, <2>1, <2>2 DEF PairsOn
<1>9. /\ Worth(Part(whole, D)) \in Nat /\ Worth(made) \in Nat /\ Worth(fee) \in Nat
      /\ Worth(Part(whole, kept)) \in Nat
  BY <1>0, <1>1, <1>2, <1>5, WorthTake
<1>10. Worth(Part(whole, D)) = Worth(Part(whole, kept)) + Worth(fee)
  BY <1>1, <1>2, <1>4, <1>5, <1>8, <1>9
<1> QED
  BY <1>9, <1>10 DEF kept, gone

\* A block with the transactions of S.
GoneOf(S) == UNION {ToSet(signed[c].ins) : c \in S}

Mines(S) ==
    /\ leaving = {} /\ S \subseteq mempool /\ Mineable(S)
    /\ unspent' = [o \in (DOMAIN unspent \union OutputsOf(S)) \ GoneOf(S) |->
                     IF o \in DOMAIN unspent THEN unspent[o]
                     ELSE [addr |-> signed[o[1]].outs[o[2]].addr,
                           value |-> signed[o[1]].outs[o[2]].value, born |-> tipHeight + 1]]
    /\ leaving' = S
    /\ mined' = [c \in DOMAIN mined \union S |-> IF c \in S THEN tipHeight + 1 ELSE mined[c]]
    /\ tipHeight' = tipHeight + 1 /\ call' = Outdates(Commands)
    /\ UNCHANGED <<mempool, signed>>

\* What a block takes is unspent or made in it, and what it makes is new.
LEMMA BlockFacts ==
    ASSUME WalletInv, NEW S, Mines(S)
    PROVE  /\ S \subseteq Commands /\ IsFiniteSet(S) /\ S \intersect DOMAIN mined = {}
           /\ \A c \in S : /\ IsSigned(c) /\ signed[c].kind \notin FlagKinds
                           /\ signed[c] \in SignedTxs /\ SignedSound(signed[c])
                           /\ signed[c].fee >= LeastFee(tipHeight + 1)
           /\ DOMAIN mined' = DOMAIN mined \union S
           /\ \A c \in S : mined'[c] = tipHeight + 1
           /\ \A c \in DOMAIN mined : mined'[c] = mined[c]
           /\ DOMAIN unspent' = (DOMAIN unspent \union OutputsOf(S)) \ GoneOf(S)
           /\ \A o \in OutputsOf(S) : IsOut(o) /\ o[1] \in S /\ ~FromStart(o) /\ o = <<o[1], o[2]>>
           /\ DOMAIN unspent \intersect OutputsOf(S) = {}
           /\ GoneOf(S) \subseteq (DOMAIN unspent \union OutputsOf(S)) \intersect Spent
           /\ OutputsOf(S) \subseteq Places /\ IsFiniteSet(OutputsOf(S))
           /\ tipHeight \in Nat
<1>1. S \subseteq mempool /\ leaving = {} /\ leaving = mempool \intersect DOMAIN mined
  BY DEF Mines, WalletInv, PoolSound
<1>2. S \subseteq Commands /\ IsFiniteSet(S) /\ S \intersect DOMAIN mined = {}
  BY <1>1, FS_Subset DEF WalletInv, WalletTyped
<1>3. ASSUME NEW c \in S
      PROVE  /\ IsSigned(c) /\ signed[c].kind \notin FlagKinds
             /\ signed[c] \in SignedTxs /\ SignedSound(signed[c])
             /\ signed[c].fee >= LeastFee(tipHeight + 1)
  <2>1. c \in mempool /\ c \in Commands /\ IsSigned(c)
    BY <1>1, PooledSigned
  <2>2. Funded(signed[c], tipHeight + 1)
    BY DEF Mines, Mineable
  <2> QED
    BY <2>1, <2>2 DEF WalletInv, WalletTyped, SpendsSigned, Funded, WellFormed
<1>4. /\ DOMAIN mined' = DOMAIN mined \union S
      /\ \A c \in S : mined'[c] = tipHeight + 1
      /\ \A c \in DOMAIN mined : mined'[c] = mined[c]
      /\ DOMAIN unspent' = (DOMAIN unspent \union OutputsOf(S)) \ GoneOf(S)
  BY <1>2 DEF Mines
<1>5. ASSUME NEW o \in OutputsOf(S)
      PROVE  IsOut(o) /\ o[1] \in S /\ ~FromStart(o) /\ o = <<o[1], o[2]>>
  <2>1. PICK c \in S : \E i \in DOMAIN signed[c].outs : o = <<c, i>>
    BY DEF OutputsOf
  <2> QED
    BY <1>2, <2>1, Limits DEF IsOut, FromStart
<1>6. DOMAIN unspent \intersect OutputsOf(S) = {}
  <2>1. SUFFICES ASSUME NEW o \in DOMAIN unspent, o \in OutputsOf(S) PROVE FALSE
    OBVIOUS
  <2> QED
    BY <1>2, <1>5, <2>1 DEF WalletInv, Coined
<1>7. ASSUME NEW o \in GoneOf(S)
      PROVE  o \in DOMAIN unspent \union OutputsOf(S) /\ o \in Spent
  <2>0. PICK c \in S : \E i \in DOMAIN signed[c].ins : o = signed[c].ins[i]
    BY DEF GoneOf, ToSet
  <2>1. PICK i \in DOMAIN signed[c].ins : o = signed[c].ins[i]
    BY <2>0
  <2>2. o \in Spent
    BY <1>1, <2>1 DEF Spent, ToSet
  <2>3. o \in DOMAIN unspent \/ o[1] \in S
    BY <2>1 DEF Mines, Mineable
  <2>4. o \in Known
    BY <2>1 DEF Mines, Mineable, Funded, ToSet
  <2>5. CASE o \notin DOMAIN unspent
    <3>1. o \in Pending
      BY <2>4, <2>5 DEF Known
    <3>2. o = <<o[1], o[2]>> /\ IsOut(o)
      BY <3>1, PendingIs
    <3> QED
      BY <2>2, <2>3, <2>5, <3>2 DEF OutputsOf, IsOut
  <2> QED
    BY <2>2, <2>5
<1>8. OutputsOf(S) \subseteq Places /\ IsFiniteSet(OutputsOf(S))
  BY <1>2, FiniteOutputs DEF WalletInv
<1> QED
  BY <1>2, <1>3, <1>4, <1>5, <1>6, <1>7, <1>8 DEF WalletInv, WalletTyped

\* All but the wealth.
LEMMA BlockKeeps ==
    ASSUME WalletInv, NEW S, Mines(S)
    PROVE  /\ WalletTyped' /\ SpendsSigned' /\ CallsSound' /\ Coined'
           /\ PoolSound' /\ MinedSound' /\ Exact'
<1> DEFINE D == DOMAIN unspent
           new == OutputsOf(S)
<1>1. /\ S \subseteq Commands /\ IsFiniteSet(S) /\ S \intersect DOMAIN mined = {}
      /\ \A c \in S : /\ IsSigned(c) /\ signed[c].kind \notin FlagKinds
                      /\ SignedSound(signed[c]) /\ signed[c].fee >= LeastFee(tipHeight + 1)
      /\ DOMAIN mined' = DOMAIN mined \union S
      /\ \A c \in S : mined'[c] = tipHeight + 1
      /\ \A c \in DOMAIN mined : mined'[c] = mined[c]
      /\ tipHeight \in Nat
  BY BlockFacts
<1>2. /\ DOMAIN unspent' = (D \union new) \ GoneOf(S)
      /\ \A o \in new : IsOut(o) /\ o[1] \in S /\ ~FromStart(o) /\ o = <<o[1], o[2]>>
      /\ D \intersect new = {} /\ GoneOf(S) \subseteq Spent
      /\ new \subseteq Places /\ IsFiniteSet(new)
  BY BlockFacts
<1>3. /\ UNCHANGED <<mempool, signed>> /\ tipHeight' = tipHeight + 1 /\ leaving = {}
      /\ leaving' = S /\ S \subseteq mempool
      /\ \A d \in Commands : call'[d] = Outdated(call[d])
      /\ call' = [d \in Commands |-> call'[d]]
  BY DEF Mines, Outdates, Outdated
<1>4. \A o \in DOMAIN unspent' :
        unspent'[o] = IF o \in D THEN unspent[o]
                      ELSE [addr |-> OutOf(o).addr, value |-> OutOf(o).value,
                            born |-> tipHeight + 1]
  BY DEF Mines, OutOf
<1>5. ASSUME NEW d \in Commands PROVE call'[d] \in Calls /\ CallSound(d, call[d])'
  <2>1. CallSound(d, call[d])
    BY DEF WalletInv, CallsSound
  <2>2. d \in mempool' \union DOMAIN mined' => call[d].step = "accepted"
    BY <1>1, <1>3, <2>1 DEF CallSound, Stage
  <2>3. \A b \in DOMAIN mined : b \in DOMAIN mined' /\ mined'[b] = mined[b]
    BY <1>1
  <2>4. ASSUME NEW j, j = Outdated(call[d]) PROVE j \in Calls /\ CallSound(d, j)'
    BY <1>3, <2>1, <2>2, <2>3, <2>4, OutdatedSound DEF WalletInv
  <2> QED
    BY <1>3, <2>4
<1>6. CallsSound'
  BY <1>5 DEF CallsSound
<1>7. WalletTyped'
  <2>1. call' \in [Commands -> Calls]
    BY <1>3, <1>5
  <2>2. DOMAIN unspent' \subseteq Places /\ IsFiniteSet(DOMAIN unspent')
    <3>1. IsFiniteSet(D \union new)
      BY <1>2, FS_Union DEF WalletInv, WalletTyped
    <3>2. DOMAIN unspent' \subseteq D \union new /\ D \subseteq Places
      BY <1>2 DEF WalletInv, WalletTyped
    <3> QED
      BY <1>2, <3>1, <3>2, FS_Subset
  <2>3. /\ DOMAIN mined' \subseteq Commands /\ IsFiniteSet(DOMAIN mined')
        /\ \A c \in DOMAIN mined' : mined'[c] \in 1..tipHeight'
    <3>0. DOMAIN mined \subseteq Commands /\ IsFiniteSet(DOMAIN mined)
      BY DEF WalletInv, WalletTyped
    <3>a. IsFiniteSet(DOMAIN mined \union S)
      BY <1>1, <3>0, FS_Union
    <3>1. DOMAIN mined' \subseteq Commands /\ IsFiniteSet(DOMAIN mined')
      BY <1>1, <3>0, <3>a
    <3>2. ASSUME NEW c \in DOMAIN mined' PROVE mined'[c] \in 1..tipHeight'
      <4>1. CASE c \in S
        BY <1>1, <1>3, <4>1
      <4>2. CASE c \in DOMAIN mined
        <5>1. mined[c] \in 1..tipHeight
          BY <4>2 DEF WalletInv, WalletTyped
        <5> QED
          BY <1>1, <1>3, <4>2, <5>1
      <4> QED
        BY <1>1, <4>1, <4>2
    <3> QED
      BY <3>1, <3>2
  <2>4. tipHeight' \in Nat /\ tipHeight' + 2 >= Activation
    BY <1>1, <1>3, Limits DEF WalletInv, WalletTyped
  <2> QED
    BY <1>3, <2>1, <2>2, <2>3, <2>4 DEF WalletInv, WalletTyped
<1>8. SpendsSigned'
  <2>1. \A u : UnitSeen(u) => UnitSeen(u)'
    BY <1>1, <1>3, Limits DEF UnitSeen
  <2> QED
    BY <1>3, <2>1 DEF WalletInv, SpendsSigned, SignedSound, Exists, IsSigned, IsOut, FromStart
<1>9. Coined'
  <2>1. ASSUME NEW o \in DOMAIN unspent'
        PROVE  \/ FromStart(o)' /\ unspent'[o] = [addr |-> Me, value |-> Coinbases[o[1]], born |-> 1]
               \/ /\ IsOut(o)' /\ o[1] \in DOMAIN mined'
                  /\ unspent'[o] = [addr |-> OutOf(o)'.addr, value |-> OutOf(o)'.value,
                                    born |-> mined'[o[1]]]
    <3>1. CASE o \in D
      <4>1. unspent'[o] = unspent[o]
        BY <1>4, <3>1
      <4>2. \/ FromStart(o) /\ unspent[o] = [addr |-> Me, value |-> Coinbases[o[1]], born |-> 1]
            \/ /\ IsOut(o) /\ o[1] \in DOMAIN mined
               /\ unspent[o] = [addr |-> OutOf(o).addr, value |-> OutOf(o).value,
                                born |-> mined[o[1]]]
        BY <3>1 DEF WalletInv, Coined
      <4> QED
        BY <1>1, <1>3, <4>1, <4>2 DEF FromStart, IsOut, OutOf
    <3>2. CASE o \notin D
      <4>1. o \in new
        BY <1>2, <3>2
      <4>2. IsOut(o) /\ o[1] \in S
        BY <1>2, <4>1
      <4> QED
        BY <1>1, <1>3, <1>4, <3>2, <4>2 DEF IsOut, OutOf
    <3> QED
      BY <3>1, <3>2
  <2> QED
    BY <2>1 DEF Coined
<1>10. PoolSound'
  <2>1. Spent' = Spent
    BY <1>3 DEF Spent
  <2>2. leaving' = mempool' \intersect DOMAIN mined'
    BY <1>1, <1>3 DEF WalletInv, PoolSound
  <2>3. \A c \in S : \A i \in DOMAIN signed[c].outs : <<c, i>> \in DOMAIN unspent' \union Spent
    <3>1. \A c \in S : \A i \in DOMAIN signed[c].outs : <<c, i>> \in new
      BY DEF OutputsOf
    <3> QED
      BY <1>2, <3>1
  <2>4. /\ \A c, d \in mempool : c # d => ToSet(signed[c].ins) \intersect ToSet(signed[d].ins) = {}
        /\ \A c \in mempool : signed[c].kind \notin FlagKinds
    BY DEF WalletInv, PoolSound
  <2> QED
    BY <1>1, <1>3, <2>1, <2>2, <2>3, <2>4 DEF PoolSound
<1>11. MinedSound'
  <2>1. ASSUME NEW c \in S
        PROVE  /\ signed[c].fee >= LeastFee(tipHeight + 1)
               /\ tipHeight + 1 < Activation => signed[c].scale = PiPerOldUnit
    <3>1. tipHeight + 1 \in Nat /\ Activation \in Nat
      BY <1>1, Limits
    <3> QED
      BY <1>1, <3>1 DEF SignedSound, UnitSeen
  <2>2. ASSUME NEW c \in DOMAIN mined'
        PROVE  /\ signed'[c].fee >= LeastFee(mined'[c])
               /\ mined'[c] < Activation => signed'[c].scale = PiPerOldUnit
    <3>1. CASE c \in S
      BY <1>1, <1>3, <2>1, <3>1
    <3>2. CASE c \in DOMAIN mined
      BY <1>1, <1>3, <3>2 DEF WalletInv, MinedSound
    <3> QED
      BY <1>1, <3>1, <3>2
  <2> QED
    BY <2>2 DEF MinedSound, LeastFee
<1>12. Exact'
  <2>1. \A d \in Commands : Doomed(d) => Doomed(d)'
    <3>1. Activation \in Nat
      BY Limits
    <3> QED
      BY <1>1, <1>3, <3>1 DEF Doomed
  <2>2. ASSUME NEW d \in Commands, IsSigned(d)', ~Doomed(d)', signed'[d].kind \notin FlagKinds,
               \A i \in DOMAIN signed'[d].ins :
                 (FromStart(signed[d].ins[i]) \/ ~Doomed(signed[d].ins[i][1]))'
        PROVE  Summed([i \in DOMAIN signed'[d].ins |-> FaceOf(signed[d].ins[i])'])
                 = (OutSum(signed'[d]) + signed'[d].fee) * signed'[d].scale
    <3> DEFINE ins == signed[d].ins
    <3>1. signed' = signed /\ IsSigned(d) /\ ~Doomed(d)
      BY <1>3, <2>1, <2>2 DEF IsSigned
    <3>2. \A i \in DOMAIN ins : Exists(ins[i])
      BY <3>1 DEF WalletInv, SpendsSigned, SignedSound
    <3>3. \A i \in DOMAIN ins : FromStart(ins[i]) \/ ~Doomed(ins[i][1])
      BY <2>1, <2>2, <3>1, <3>2 DEF FromStart, Exists, IsOut
    <3>4. Summed([i \in DOMAIN ins |-> FaceOf(ins[i])])
            = (OutSum(signed[d]) + signed[d].fee) * signed[d].scale
      BY <2>2, <3>1, <3>3 DEF WalletInv, Exact
    <3>5. [i \in DOMAIN ins |-> FaceOf(ins[i])'] = [i \in DOMAIN ins |-> FaceOf(ins[i])]
      BY <3>1 DEF FaceOf, FromStart, OutOf
    <3> QED
      BY <3>1, <3>4, <3>5
  <2> QED
    BY <2>2 DEF Exact, OutSum
<1> QED
  BY <1>6, <1>7, <1>8, <1>9, <1>10, <1>11, <1>12

\* A block without an old transaction in the new unit takes what it makes and its fees.
LEMMA BlockSums ==
    ASSUME WalletInv, NEW S, Mines(S), \A c \in DOMAIN mined' : ~Doomed(c)',
           NEW c \in S, NEW whole, DOMAIN whole = DOMAIN unspent \union OutputsOf(S),
           \A o \in DOMAIN whole : whole[o] = FaceOf(o),
           NEW made, made = [i \in DOMAIN signed[c].outs |-> <<c, i>>]
    PROVE  SumOf(signed[c].ins, whole) = SumOf(made, whole) + signed[c].fee * signed[c].scale
<1> DEFINE tx == signed[c]
<1>1. /\ c \in Commands /\ IsSigned(c) /\ tx.kind \notin FlagKinds /\ tx \in SignedTxs
      /\ SignedSound(tx) /\ tipHeight \in Nat
      /\ GoneOf(S) \subseteq DOMAIN whole
      /\ DOMAIN mined' = DOMAIN mined \union S
      /\ \A d \in DOMAIN mined : mined'[d] = mined[d]
      /\ \A d \in S : mined'[d] = tipHeight + 1
      /\ S \intersect DOMAIN mined = {}
      /\ \A o \in OutputsOf(S) : IsOut(o) /\ o[1] \in S /\ ~FromStart(o)
  BY BlockFacts
<1>2. \A d \in DOMAIN mined \union S : ~Doomed(d)
  <2>1. signed' = signed /\ tipHeight' = tipHeight + 1
    BY DEF Mines
  <2> QED
    BY <1>1, <2>1 DEF Doomed
<1>3. ASSUME NEW i \in DOMAIN tx.ins
      PROVE  /\ tx.ins[i] \in DOMAIN whole
             /\ FromStart(tx.ins[i]) \/ ~Doomed(tx.ins[i][1])
  <2>1. tx.ins[i] \in DOMAIN whole
    BY <1>1 DEF GoneOf, ToSet
  <2>2. CASE tx.ins[i] \in DOMAIN unspent
    BY <1>2, <2>1, <2>2 DEF WalletInv, Coined
  <2>3. CASE tx.ins[i] \in OutputsOf(S)
    BY <1>1, <1>2, <2>1, <2>3
  <2> QED
    BY <2>1, <2>2, <2>3
<1>4. Summed([i \in DOMAIN tx.ins |-> FaceOf(tx.ins[i])]) = (OutSum(tx) + tx.fee) * tx.scale
  BY <1>1, <1>2, <1>3 DEF WalletInv, Exact
<1>5. SumOf(tx.ins, whole) = (OutSum(tx) + tx.fee) * tx.scale
  <2>1. [i \in DOMAIN tx.ins |-> whole[tx.ins[i]]] = [i \in DOMAIN tx.ins |-> FaceOf(tx.ins[i])]
    BY <1>3
  <2> QED
    BY <1>4, <2>1 DEF SumOf
<1> DEFINE v == Values(tx.outs)
<1>6. v \in Seq(Nat) /\ OutSum(tx) = Summed(v) /\ DOMAIN v = DOMAIN tx.outs
      /\ \A i \in DOMAIN tx.outs : v[i] = tx.outs[i].value
  <2>1. tx.outs \in Seq(Paid)
    BY <1>1 DEF SignedTxs
  <2> DEFINE outs == tx.outs
  <2>2. /\ DOMAIN outs = 1..Len(outs) /\ Len(outs) \in Nat
        /\ \A i \in DOMAIN outs : outs[i] \in Paid
    <3> HIDE DEF outs
    <3> QED
      BY <2>1 DEF outs
  <2>3. \A i \in DOMAIN outs : outs[i].value \in Nat
    <3> HIDE DEF outs
    <3> QED
      BY <2>2 DEF Paid
  <2> QED
    BY <2>2, <2>3 DEF Values, OutSum
<1>7. DOMAIN made = DOMAIN tx.outs /\ \A i \in DOMAIN made : made[i] = <<c, i>>
  OBVIOUS
<1>8. ASSUME NEW i \in DOMAIN made PROVE whole[made[i]] = v[i] * tx.scale
  <2>1. made[i] \in OutputsOf(S) /\ made[i][1] = c /\ made[i][2] = i
    BY <1>7 DEF OutputsOf
  <2>2. ~FromStart(made[i])
    BY <1>1, <2>1
  <2>3. FaceOf(made[i]) = tx.outs[i].value * tx.scale
    BY <2>1, <2>2 DEF FaceOf, OutOf
  <2> QED
    BY <1>6, <1>7, <2>1, <2>3
<1> HIDE DEF v
<1>9. SumOf(made, whole) = OutSum(tx) * tx.scale
  <2>1. tx.scale \in Nat
    BY <1>1 DEF SignedTxs
  <2>2. [i \in DOMAIN made |-> whole[made[i]]] = [i \in DOMAIN v |-> v[i] * tx.scale]
    BY <1>6, <1>7, <1>8
  <2>3. Summed([i \in DOMAIN v |-> v[i] * tx.scale]) = Summed(v) * tx.scale
    BY <1>6, <2>1, SummedScales DEF Scales
  <2> QED
    BY <1>6, <2>2, <2>3 DEF SumOf
<1>10. OutSum(tx) \in Nat /\ tx.fee \in Nat /\ tx.scale \in Nat
  BY <1>1, <1>6, SummedType DEF SignedTxs
<1> DEFINE a == OutSum(tx)
           b == tx.fee
           u == tx.scale
<1>11. (a + b) * u = a * u + b * u
  <2>1. a \in Nat /\ b \in Nat /\ u \in Nat
    BY <1>10
  <2> HIDE DEF a, b, u
  <2> QED
    BY <2>1
<1> QED
  BY <1>5, <1>9, <1>11

\* The lists of what each transaction of a block spends have nothing in common, nor
\* have the lists of what they make.
LEMMA BlockLists ==
    ASSUME WalletInv, NEW S, Mines(S),
           NEW Q, Q = [c \in S |-> signed[c].ins],
           NEW R, R = [c \in S |-> [i \in DOMAIN signed[c].outs |-> <<c, i>>]]
    PROVE  /\ Apart(S, Q) /\ Apart(S, R)
           /\ AllOf(S, Q) = GoneOf(S) /\ AllOf(S, R) = OutputsOf(S)
<1>1. /\ S \subseteq mempool
      /\ \A c \in S : signed[c] \in SignedTxs /\ SignedSound(signed[c])
  BY BlockFacts DEF Mines
<1>2. Apart(S, Q)
  <2>1. ASSUME NEW c \in S PROVE Q[c] \in Seq(ToSet(Q[c])) /\ IsInjective(Q[c])
    <3>1. Q[c] \in Seq(Places) /\ IsInjective(Q[c])
      BY <1>1 DEF SignedTxs, SignedSound
    <3>2. \A i \in DOMAIN Q[c] : Q[c][i] \in ToSet(Q[c])
      BY DEF ToSet
    <3>3. Len(Q[c]) \in Nat /\ DOMAIN Q[c] = 1..Len(Q[c]) /\ Q[c] = [i \in 1..Len(Q[c]) |-> Q[c][i]]
      BY <3>1
    <3>4. Q[c] \in Seq(ToSet(Q[c]))
      <4> DEFINE q == Q[c]
      <4>1. /\ Len(q) \in Nat /\ q = [i \in 1..Len(q) |-> q[i]]
            /\ \A i \in 1..Len(q) : q[i] \in ToSet(q)
        BY <3>2, <3>3
      <4> HIDE DEF q
      <4>2. q \in Seq(ToSet(q))
        BY <4>1
      <4> QED
        BY <4>2 DEF q
    <3> QED
      BY <3>1, <3>4
  <2>2. \A c, d \in S : c # d => ToSet(Q[c]) \intersect ToSet(Q[d]) = {}
    BY <1>1 DEF WalletInv, PoolSound
  <2> QED
    BY <2>1, <2>2 DEF Apart
<1>3. Apart(S, R)
  <2>1. ASSUME NEW c \in S
        PROVE  Q[c] = Q[c] /\ R[c] \in Seq(ToSet(R[c])) /\ IsInjective(R[c])
    <3> DEFINE outs == signed[c].outs
               r == [i \in DOMAIN outs |-> <<c, i>>]
    <3>1. outs \in Seq(Paid)
      BY <1>1 DEF SignedTxs
    <3>2. PICK n \in Nat : DOMAIN outs = 1..n
      BY <3>1
    <3>3. IsInjective(r)
      BY DEF IsInjective
    <3>4. DOMAIN r = 1..n /\ \A i \in 1..n : r[i] \in ToSet(r)
      BY <3>2 DEF ToSet
    <3>5. r = [i \in 1..n |-> r[i]]
      BY <3>2
    <3>a. R[c] = r
      OBVIOUS
    <3> HIDE DEF r
    <3>6. r \in Seq(ToSet(r))
      BY <3>4, <3>5
    <3> QED
      BY <3>3, <3>6, <3>a
  <2>2. \A c \in S : \A o \in ToSet(R[c]) : o[1] = c
    BY DEF ToSet
  <2> QED
    BY <2>1, <2>2 DEF Apart
<1>4. AllOf(S, Q) = GoneOf(S)
  BY DEF AllOf, GoneOf
<1>5. AllOf(S, R) = OutputsOf(S)
  <2>1. \A c \in S : ToSet(R[c]) = {<<c, i>> : i \in DOMAIN signed[c].outs}
    BY DEF ToSet
  <2> DEFINE F(c) == {<<c, i>> : i \in DOMAIN signed[c].outs}
  <2>2. \A c \in S : ToSet(R[c]) = F(c)
    BY <2>1
  <2> HIDE DEF F
  <2>3. UNION {ToSet(R[c]) : c \in S} = UNION {F(c) : c \in S}
    <3> DEFINE G(c) == ToSet(R[c])
    <3>1. \A c \in S : G(c) = F(c)
      BY <2>2
    <3> HIDE DEF G
    <3>2. UNION {G(c) : c \in S} = UNION {F(c) : c \in S}
      BY <3>1
    <3> QED
      BY <3>2 DEF G
  <2> QED
    BY <2>3 DEF AllOf, OutputsOf, F
<1> QED
  BY <1>2, <1>3, <1>4, <1>5

\* A block keeps the wealth of the address.
LEMMA BlockWealth == ASSUME WalletInv, NEW S, Mines(S) PROVE WealthKept'
<1> SUFFICES ASSUME (\A c \in DOMAIN mined : Crossed(c) => signed[c].fee < MinFeePi)'
             PROVE  (LET held == [o \in DOMAIN unspent |-> Pi(unspent[o].value, unspent[o].born)]
                         fees == [c \in DOMAIN mined |-> Pi(signed[c].fee, mined[c])]
                         begun == [c \in DOMAIN Coinbases |-> Pi(Coinbases[c], 1)]
                     IN  Worth(held) + Worth(fees) = Worth(begun))'
  BY DEF WealthKept
<1> DEFINE h == tipHeight + 1
           D == DOMAIN unspent
           M == DOMAIN mined
           new == OutputsOf(S)
           held == [o \in D |-> Pi(unspent[o].value, unspent[o].born)]
           fees == [c \in M |-> Pi(signed[c].fee, mined[c])]
           begun == [c \in DOMAIN Coinbases |-> Pi(Coinbases[c], 1)]
           whole == [o \in D \union new |-> FaceOf(o)]
           taken == [c \in S |-> signed[c].fee * signed[c].scale]
           kept == (D \union new) \ GoneOf(S)
           held2 == [o \in DOMAIN unspent' |-> Pi(unspent'[o].value, unspent'[o].born)]
           fees2 == [c \in DOMAIN mined' |-> Pi(signed'[c].fee, mined'[c])]
<1>1. /\ S \subseteq Commands /\ IsFiniteSet(S) /\ S \intersect M = {}
      /\ \A c \in S : signed[c] \in SignedTxs
      /\ DOMAIN mined' = M \union S
      /\ \A c \in S : mined'[c] = h
      /\ \A c \in M : mined'[c] = mined[c]
      /\ h \in Nat /\ tipHeight \in Nat /\ Activation \in Nat
  <2>1. Activation \in Nat
    BY Limits
  <2>2. /\ S \subseteq Commands /\ IsFiniteSet(S) /\ S \intersect M = {}
        /\ \A c \in S : signed[c] \in SignedTxs
        /\ DOMAIN mined' = M \union S
        /\ \A c \in S : mined'[c] = tipHeight + 1
        /\ \A c \in M : mined'[c] = mined[c]
        /\ tipHeight \in Nat
    BY BlockFacts
  <2> QED
    BY <2>1, <2>2
<1>2. /\ DOMAIN unspent' = kept /\ D \intersect new = {} /\ IsFiniteSet(new)
      /\ \A o \in new : IsOut(o) /\ o[1] \in S /\ ~FromStart(o)
      /\ GoneOf(S) \subseteq D \union new
  BY BlockFacts
<1>3. signed' = signed /\ tipHeight' = h
      /\ \A o \in DOMAIN unspent' :
           unspent'[o] = IF o \in D THEN unspent[o]
                         ELSE [addr |-> OutOf(o).addr, value |-> OutOf(o).value, born |-> h]
  BY DEF Mines, OutOf
<1>4. MinedSound' /\ WalletTyped' /\ WalletTyped
  BY BlockKeeps DEF WalletInv
<1>5. ASSUME NEW c \in DOMAIN mined'
      PROVE  /\ c \in Commands /\ mined'[c] \in Nat
             /\ ~Doomed(c)' /\ UnitAt(mined'[c]) = signed[c].scale
             /\ signed[c].fee \in Nat /\ signed[c].scale \in Nat
  <2>1. c \in Commands /\ mined'[c] \in Nat
    BY <1>3, <1>4 DEF WalletTyped
  <2>2. signed[c] \in SignedTxs
    BY <1>4, <2>1 DEF WalletTyped
  <2>3. /\ signed[c].fee >= LeastFee(mined'[c])
        /\ mined'[c] < Activation => signed[c].scale = PiPerOldUnit
    BY <1>3, <1>4 DEF MinedSound, LeastFee
  <2>4. ~(signed[c].scale # 1 /\ mined'[c] >= Activation)
    <3>1. SUFFICES ASSUME signed[c].scale # 1, mined'[c] >= Activation PROVE FALSE
      OBVIOUS
    <3>2. signed[c].fee < MinFeePi
      BY <1>3, <3>1 DEF Crossed
    <3>3. LeastFee(mined'[c]) = MinFeePi /\ MinFeePi \in Nat /\ signed[c].fee \in Nat
      BY <2>1, <2>2, <3>1, UnitsAt, Limits DEF SignedTxs
    <3> QED
      BY <2>3, <3>2, <3>3
  <2>5. ~Doomed(c)'
    BY <1>3, <2>4 DEF Doomed
  <2>6. UnitAt(mined'[c]) = signed[c].scale
    BY <1>1, <2>1, <2>3, <2>4, UnitsAt
  <2> QED
    BY <2>1, <2>2, <2>5, <2>6 DEF SignedTxs
<1>6. ASSUME NEW c \in M PROVE ~Crossed(c)
  <2>1. signed[c].scale = UnitAt(mined[c]) /\ mined[c] \in Nat
    BY <1>1, <1>5
  <2> QED
    BY <2>1, UnitsAt DEF Crossed
<1>7. Worth(held) + Worth(fees) = Worth(begun)
  BY <1>6 DEF WalletInv, WealthKept
<1>8. ASSUME NEW o \in D
      PROVE  held[o] = FaceOf(o) /\ FaceOf(o) \in Nat /\ held[o] = Pi(unspent[o].value, unspent[o].born)
  <2>1. /\ FromStart(o) \/ (IsOut(o) /\ o[1] \in M)
        /\ PiOf(o) = Pi(unspent[o].value, unspent[o].born) /\ PiOf(o) \in Nat
    BY UnspentWorth DEF WalletInv
  <2>2. CASE FromStart(o)
    BY <2>1, <2>2 DEF PiOf, FaceOf
  <2>3. CASE ~FromStart(o)
    <3>1. UnitAt(mined[o[1]]) = signed[o[1]].scale
      BY <1>1, <1>5, <2>1, <2>3
    <3> QED
      BY <2>1, <2>3, <3>1 DEF PiOf, FaceOf, Pi
  <2> QED
    BY <2>2, <2>3
<1>9. ASSUME NEW o \in new
      PROVE  FaceOf(o) = Pi(OutOf(o).value, h) /\ FaceOf(o) \in Nat
  <2>1. IsOut(o) /\ o[1] \in S /\ ~FromStart(o)
    BY <1>2
  <2>2. UnitAt(h) = signed[o[1]].scale
    BY <1>1, <1>5, <2>1
  <2>3. OutOf(o).value \in Nat
    <3>1. signed[o[1]].outs \in Seq(Paid) /\ o[2] \in DOMAIN signed[o[1]].outs
      BY <1>1, <2>1 DEF SignedTxs, IsOut
    <3>2. OutOf(o) \in Paid
      BY <3>1 DEF OutOf
    <3> QED
      BY <3>2 DEF Paid
  <2>4. FaceOf(o) = OutOf(o).value * UnitAt(h)
    BY <2>1, <2>2 DEF FaceOf
  <2> QED
    BY <1>1, <2>3, <2>4, UnitsAt, TimesType DEF Pi
<1>10. DOMAIN whole = D \union new /\ \A o \in DOMAIN whole : whole[o] = FaceOf(o)
  OBVIOUS
<1>11. AddsUp(whole)
  <2>1. IsFiniteSet(D \union new)
    <3>1. IsFiniteSet(D)
      BY <1>4 DEF WalletTyped
    <3> QED
      BY <1>2, <3>1, FS_Union
  <2> QED
    BY <1>8, <1>9, <2>1 DEF AddsUp
<1>12. AddsUp(taken) /\ DOMAIN taken = S
  <2>1. \A c \in S : taken[c] \in Nat
    BY <1>1, TimesType DEF SignedTxs
  <2> QED
    BY <1>1, <2>1 DEF AddsUp
<1>13. /\ Worth(Part(whole, D)) = Worth(Part(whole, kept)) + Worth(taken)
       /\ Worth(Part(whole, kept)) \in Nat /\ Worth(taken) \in Nat
  <2> DEFINE Q == [c \in S |-> signed[c].ins]
             R == [c \in S |-> [i \in DOMAIN signed[c].outs |-> <<c, i>>]]
  <2>1. /\ Apart(S, Q) /\ Apart(S, R)
        /\ AllOf(S, Q) = GoneOf(S) /\ AllOf(S, R) = new
    BY BlockLists
  <2>2. ASSUME NEW c \in S PROVE SumOf(Q[c], whole) = SumOf(R[c], whole) + taken[c]
    <3>1. \A d \in DOMAIN mined' : ~Doomed(d)'
      BY <1>5
    <3>2. Q[c] = signed[c].ins /\ R[c] = [i \in DOMAIN signed[c].outs |-> <<c, i>>]
          /\ taken[c] = signed[c].fee * signed[c].scale
      OBVIOUS
    <3> HIDE DEF Q, R, taken, whole
    <3> QED
      BY <1>10, <3>1, <3>2, BlockSums
  <2> HIDE DEF Q, R, taken, whole, D, new
  <2>3. AllOf(S, Q) \subseteq D \union new /\ kept = (D \union new) \ AllOf(S, Q)
    BY <1>2, <2>1
  <2>4. /\ IsFiniteSet(S) /\ DOMAIN whole = D \union new /\ D \intersect new = {}
    BY <1>1, <1>2, <1>10
  <2> HIDE DEF kept
  <2>5. /\ Worth(Part(whole, D)) = Worth(Part(whole, (D \union new) \ AllOf(S, Q))) + Worth(taken)
        /\ Worth(Part(whole, (D \union new) \ AllOf(S, Q))) \in Nat /\ Worth(taken) \in Nat
    <3>1. Trades(whole, D, new, S, Q, R, taken)
      BY <1>11, <1>12, <2>1, <2>2, <2>3, <2>4 DEF Trades
    <3> QED
      BY <3>1, BlockBalance
  <2> QED
    BY <2>3, <2>5
<1>14. Part(whole, D) = held
  BY <1>8 DEF Part
<1>15. Part(whole, kept) = held2
  <2>1. ASSUME NEW o \in kept PROVE held2[o] = FaceOf(o)
    <3>1. CASE o \in D
      BY <1>2, <1>3, <1>8, <3>1
    <3>2. CASE o \notin D
      <4>1. o \in new /\ o \in DOMAIN unspent'
        BY <1>2, <3>2
      <4>2. unspent'[o].value = OutOf(o).value /\ unspent'[o].born = h
        BY <1>3, <3>2, <4>1
      <4>3. held2[o] = Pi(OutOf(o).value, h)
        BY <4>1, <4>2
      <4> QED
        BY <1>9, <4>1, <4>3
    <3> QED
      BY <3>1, <3>2
  <2>2. DOMAIN held2 = kept
    BY <1>2
  <2> QED
    BY <1>2, <2>1, <2>2 DEF Part
<1>16. /\ DOMAIN fees2 = M \union S /\ AddsUp(fees2)
       /\ Part(fees2, M) = fees /\ Part(fees2, S) = taken
  <2>1. \A c \in M \union S : fees2[c] = signed[c].fee * UnitAt(mined'[c])
    BY <1>1, <1>3 DEF Pi
  <2>2. ASSUME NEW c \in M \union S
        PROVE  fees2[c] = signed[c].fee * signed[c].scale /\ fees2[c] \in Nat
    <3> HIDE DEF fees2
    <3>1. c \in DOMAIN mined' /\ fees2[c] = signed[c].fee * UnitAt(mined'[c])
      BY <1>1, <2>1
    <3>2. UnitAt(mined'[c]) = signed[c].scale /\ signed[c].fee \in Nat /\ signed[c].scale \in Nat
      BY <1>5, <3>1
    <3> QED
      BY <3>1, <3>2, TimesType
  <2>3. \A c \in M : fees2[c] = fees[c]
    BY <1>1, <2>1 DEF Pi
  <2>4. IsFiniteSet(M \union S)
    <3>1. IsFiniteSet(M)
      BY <1>4 DEF WalletTyped
    <3> QED
      BY <1>1, <3>1, FS_Union
  <2>5. DOMAIN fees2 = M \union S
    BY <1>1
  <2> QED
    BY <2>2, <2>3, <2>4, <2>5 DEF AddsUp, Part
<1> HIDE DEF fees2, fees, held, held2, whole, taken, kept, D, M, new, begun, h
<1>17. Worth(fees2) = Worth(fees) + Worth(taken) /\ Worth(fees) \in Nat
  <2>1. /\ AddsUp([c \in M |-> fees2[c]])
        /\ Worth(fees2) = Worth([c \in M |-> fees2[c]]) + Worth([c \in S |-> fees2[c]])
    BY <1>1, <1>16, WorthParts
  <2>2. /\ AddsUp(fees) /\ Worth(fees2) = Worth(fees) + Worth(taken)
    BY <1>16, <2>1 DEF Part
  <2> QED
    BY <2>2, WorthTake
<1>18. Worth(held2) + Worth(fees2) = Worth(begun)
  BY <1>7, <1>13, <1>14, <1>15, <1>17
<1> QED
  BY <1>18 DEF held2, fees2, begun

\* A block is stored.
LEMMA MineKeeps == ASSUME WalletInv, Mine PROVE WalletInv'
<1>1. PICK S : Mines(S)
  BY DEF Mine, Mines, OutputsOf, GoneOf
<1> QED
  BY <1>1, BlockKeeps, BlockWealth DEF WalletInv
-----------------------------------------------------------------------------
(* The theorems *)

LEMMA WalletStays == ASSUME WalletInv, UNCHANGED walletVars PROVE WalletInv'
<1>1. OnlyCalls /\ call' = call
  BY DEF walletVars, OnlyCalls
<1>2. WalletTyped'
  BY <1>1 DEF OnlyCalls, WalletInv, WalletTyped
<1>3. CallsSound'
  <2>1. ASSUME NEW c \in Commands PROVE CallSound(c, call[c])'
    <3>1. CallSound(c, call[c])
      BY DEF WalletInv, CallsSound
    <3> QED
      BY <1>1, <3>1, SameSound
  <2> QED
    BY <2>1 DEF CallsSound
<1> QED
  BY <1>1, <1>2, <1>3, RestStays DEF WalletInv

\* The inductive invariant holds throughout: pswallet's commands and the node's
\* blocks in any order.
THEOREM WalletInvariant == WalletSpec => []WalletInv
<1>1. WalletInit => WalletInv
  BY InitWallet
<1>2. WalletInv /\ [WalletNext]_walletVars => WalletInv'
  <2> SUFFICES ASSUME WalletInv, [WalletNext]_walletVars PROVE WalletInv'
    OBVIOUS
  <2>1. ASSUME NEW c \in Commands, Begin(c) PROVE WalletInv'
    BY <2>1, BeginKeeps
  <2>2. ASSUME NEW c \in Commands, ListUnspent(c) PROVE WalletInv'
    BY <2>2, ListKeeps
  <2>3. ASSUME NEW c \in Commands, Pick(c) PROVE WalletInv'
    BY <2>3, PickKeeps
  <2>4. ASSUME NEW c \in Commands, Send(c) PROVE WalletInv'
    BY <2>4, SendKeeps
  <2>5. CASE Mine
    BY <2>5, MineKeeps
  <2>6. CASE Clear
    BY <2>6, ClearKeeps
  <2>7. CASE UNCHANGED walletVars
    BY <2>7, WalletStays
  <2> QED
    BY <2>1, <2>2, <2>3, <2>4, <2>5, <2>6, <2>7 DEF WalletNext
<1> QED
  BY <1>1, <1>2, PTL DEF WalletSpec

\* What the chain holds and the fees it took are what the address began with, in pi
\* (pswallet, check_spendable, submitblock), whatever commands race, for any coins,
\* amounts and units, unless a fee let an old transaction into a new block.
THEOREM WealthIsKept == WalletSpec => []WealthKept
<1>1. WalletInv => WealthKept
  BY DEF WalletInv
<1> QED
  BY <1>1, WalletInvariant, PTL

\* sendtransaction refuses what coins_for and take_units picked only if a block or
\* another spend came between, or it is a flag.
THEOREM AloneIsAccepted == WalletSpec => []AloneAccepted
<1>1. WalletInv => AloneAccepted
  BY DEF WalletInv, CallsSound, CallSound, Stage, AloneAccepted
<1> QED
  BY <1>1, WalletInvariant, PTL
-----------------------------------------------------------------------------
(* The bounds of what the wallet and the chain hold *)

PaysMore(outs) == \A i \in DOMAIN outs : outs[i].value # 0

\* Nothing pays zero: what send and claimflag pay was typed, and change is never empty.
PayPositive ==
    /\ \A c \in Commands : PaysMore(signed[c].outs)
    /\ \A c \in Commands :
         call[c].step \in {"list", "pick"} /\ call[c].kind \in {"send", "claimflag"}
           => call[c].pay # 0

WalletBounded ==
    /\ PayPositive
    /\ tipHeight <= MaxTipHeight
    /\ mined = [c \in DOMAIN mined |-> mined[c]]

LEMMA ChangePositive ==
    ASSUME NEW q, NEW need \in Nat, InAll(q) \in Nat
    PROVE  /\ Change(q, need) \in Seq(Paid) /\ PaysMore(Change(q, need))
<1>1. CASE InAll(q) > need
  <2> DEFINE p == [addr |-> Me, value |-> InAll(q) - need]
  <2>1. p \in Paid /\ p.value # 0 /\ Change(q, need) = <<p>>
    BY <1>1 DEF Paid, Change
  <2> HIDE DEF p
  <2>2. <<p>> \in Seq(Paid) /\ PaysMore(<<p>>)
    BY <2>1 DEF PaysMore
  <2> QED
    BY <2>1, <2>2
<1>2. CASE ~(InAll(q) > need)
  <2>1. Change(q, need) = << >>
    BY <1>2 DEF Change
  <2> QED
    BY <2>1 DEF PaysMore
<1> QED
  BY <1>1, <1>2

LEMMA JoinedPositive ==
    ASSUME NEW c, call[c].pay \in Nat \ {0}, NEW q, NEW need \in Nat, InAll(q) \in Nat
    PROVE  PaysMore(ToOther(c) \o Change(q, need))
<1> DEFINE a == ToOther(c)
           b == Change(q, need)
<1>1. a \in Seq(Paid) /\ PaysMore(a)
  BY DEF ToOther, Paid, PaysMore
<1>2. b \in Seq(Paid) /\ PaysMore(b)
  BY ChangePositive
<1> HIDE DEF a, b
<1>3. \A i \in DOMAIN (a \o b) : (a \o b)[i] = IF i <= Len(a) THEN a[i] ELSE b[i - Len(a)]
  BY <1>1, <1>2
<1>4. \A i \in DOMAIN (a \o b) : i \in DOMAIN a \/ (i - Len(a) \in DOMAIN b /\ ~(i <= Len(a)))
  BY <1>1, <1>2
<1>5. \A i \in DOMAIN a : i <= Len(a)
  BY <1>1
<1>6. PaysMore(a \o b)
  BY <1>1, <1>2, <1>3, <1>4, <1>5 DEF PaysMore
<1> QED
  BY <1>6 DEF a, b

LEMMA PlanPositive ==
    ASSUME WalletInv, WalletBounded, NEW c \in Commands, call[c].step = "pick",
           NEW plan \in Plans(c)
    PROVE  PaysMore(plan.outs)
<1> DEFINE fee == call[c].fee
           pay == call[c].pay
           kind == call[c].kind
<1>1. fee \in Nat /\ pay \in Nat /\ kind \in Kinds /\ pay + fee \in Nat
  BY DEF WalletInv, WalletTyped, Calls, CallsSound, CallSound, Stage
<1>2. kind \in {"send", "claimflag"} => pay \in Nat \ {0}
  BY <1>1 DEF WalletBounded, PayPositive
<1>3. \A r \in Coins(c) : r.worth \in Nat
  BY CoinsAre DEF WalletInv
<1>4. ASSUME NEW q, NEW outs, plan = Plan(q, outs) PROVE plan.outs = outs
  BY <1>4 DEF Plan
<1>5. ASSUME NEW need \in Nat, NEW q \in LargestFirst(c, need) PROVE InAll(q) \in Nat
  BY <1>5, LargestAre DEF WalletInv
<1>6. CASE kind = "send"
  <2>1. PICK q \in LargestFirst(c, pay + fee) : plan = Plan(q, ToOther(c) \o Change(q, pay + fee))
    BY <1>6 DEF Plans, SendPlans
  <2> QED
    BY <1>1, <1>2, <1>4, <1>5, <1>6, <2>1, JoinedPositive
<1>7. CASE kind = "consolidate"
  <2>1. PICK q : plan = Plan(q, Change(q, fee)) /\ InAll(q) \in Nat
    <3> DEFINE n == Min({MaxInputs, Cardinality(Coins(c))})
    <3>1. PICK p \in Sorted(Coins(c), FALSE) :
            LET q == SubSeq(p, 1, n) IN n >= 2 /\ InAll(q) > fee /\ plan = Plan(q, Change(q, fee))
      BY <1>7 DEF Plans, ConsolidatePlans
    <3> DEFINE q == SubSeq(p, 1, n)
    <3>2. p \in Seq(Coins(c)) /\ Len(p) = Cardinality(Coins(c)) /\ IsInjective(p)
      BY CoinsAre, SortedOnce DEF WalletInv
    <3>3. n \in Nat /\ n <= Len(p)
      <4>1. Len(p) \in Nat /\ MaxInputs \in Nat
        BY <3>2, Limits
      <4> QED
        BY <3>2, <4>1, LeastOfTwo
    <3>4. q \in Seq(Coins(c))
      <4> HIDE DEF n
      <4> QED
        BY <3>2, <3>3, FirstOnce
    <3>5. plan = Plan(q, Change(q, fee))
      BY <3>1
    <3> HIDE DEF q, n
    <3> QED
      BY <1>3, <3>4, <3>5, InAllType
  <2> QED
    BY <1>1, <1>4, <2>1, ChangePositive
<1>8. CASE kind = "register"
  <2>1. PICK r \in Coins(c) : plan = Plan(<<r>>, Change(<<r>>, fee))
    BY <1>8 DEF Plans, RegisterPlans
  <2>2. <<r>> \in Seq(Coins(c))
    OBVIOUS
  <2>3. InAll(<<r>>) \in Nat
    BY <1>3, <2>2, InAllType
  <2> QED
    BY <1>1, <1>4, <2>1, <2>3, ChangePositive
<1>9. CASE kind = "createflag"
  <2>1. PICK q \in LargestFirst(c, pay + fee) : plan = Plan(q, Change(q, pay + fee))
    BY <1>9 DEF Plans, CreateFlagPlans
  <2> QED
    BY <1>1, <1>4, <1>5, <2>1, ChangePositive
<1>10. CASE kind = "claimflag"
  <2>1. PICK q \in LargestFirst(c, fee) : plan = Plan(q, ToOther(c) \o Change(q, fee))
    BY <1>10 DEF Plans, ClaimFlagPlans
  <2> QED
    BY <1>1, <1>2, <1>4, <1>5, <1>10, <2>1, JoinedPositive
<1> QED
  BY <1>1, <1>6, <1>7, <1>8, <1>9, <1>10 DEF Kinds, FlagKinds

\* What divides and is not zero is some units.
LEMMA SomeUnits ==
    ASSUME NEW a \in Nat \ {0}, NEW b \in Nat \ {0}, a % b = 0
    PROVE  a \div b # 0
  BY DividesSome

LEMMA EndedAt ==
    ASSUME call \in [Commands -> Calls], NEW c \in Commands, NEW how, Ends(c, how)
    PROVE  call'[c].step = how /\ \A d \in Commands \ {c} : call'[d] = call[d]
<1> DEFINE k == [AtStart EXCEPT !.step = how, !.kind = call[c].kind, !.late = call[c].late]
<1>1. k.step = how
  BY DEF AtStart
<1>2. call' = [call EXCEPT ![c] = k]
  BY DEF Ends, Step
<1> HIDE DEF k
<1> QED
  BY <1>1, <1>2

LEMMA WalletStaysBounded ==
    ASSUME WalletInv, WalletBounded, [WalletNext]_walletVars
    PROVE  WalletBounded'
<1>0. /\ call \in [Commands -> Calls] /\ signed \in [Commands -> SignedTxs]
      /\ tipHeight \in Nat /\ MaxTipHeight \in Nat
  BY Limits DEF WalletInv, WalletTyped
<1>1. ASSUME NEW c \in Commands, Begin(c) PROVE WalletBounded'
  <2> DEFINE unit == UnitAt(tipHeight + 1)
  <2>1. unit \in Nat \ {0}
    BY <1>0, UnitsAt
  <2> HIDE DEF unit
  <2>2. PICK kind \in Kinds, typed \in Amounts, fee \in TypedFees :
          LET fixed == kind \in {"register"} \union FlagKinds
          IN  /\ kind = "send" => typed % unit = 0
              /\ Step(c, [AtStart EXCEPT !.step = "list", !.kind = kind, !.scale = unit,
                          !.pay = IF kind \in FlagKinds THEN typed ELSE typed \div unit,
                          !.typed = typed,
                          !.fee = IF fixed THEN PiPerOldUnit \div unit ELSE fee \div unit])
    BY <1>1 DEF Begin, unit
  <2>3. typed \in Nat \ {0}
    BY Limits
  <2>4. call'[c].kind = kind
        /\ call'[c].pay = IF kind \in FlagKinds THEN typed ELSE typed \div unit
    BY <1>0, <2>2 DEF Step, AtStart
  <2>5. call'[c].kind \in {"send", "claimflag"} => call'[c].pay # 0
    BY <2>1, <2>2, <2>3, <2>4, SomeUnits DEF FlagKinds
  <2>6. \A d \in Commands \ {c} : call'[d] = call[d]
    BY <1>0, <2>2 DEF Step
  <2>7. UNCHANGED <<tipHeight, signed, mined>>
    BY <1>1 DEF Begin
  <2> QED
    BY <2>5, <2>6, <2>7 DEF WalletBounded, PayPositive
<1>2. ASSUME NEW c \in Commands, ListUnspent(c) PROVE WalletBounded'
  <2>1. \A d \in Commands : call'[d].step \in {"list", "pick"} /\ call'[d].kind \in {"send", "claimflag"}
          => call'[d].pay # 0
    <3>1. call[c].step = "list" /\ UNCHANGED <<tipHeight, signed, mined>>
      BY <1>2 DEF ListUnspent
    <3>2. \/ Ends(c, "failed")
          \/ \E rows : Step(c, [call[c] EXCEPT !.step = "pick", !.rows = rows])
      BY <1>2 DEF ListUnspent
    <3>3. /\ \A d \in Commands \ {c} : call'[d] = call[d]
          /\ \/ call'[c].step = "failed"
             \/ call'[c].kind = call[c].kind /\ call'[c].pay = call[c].pay
      <4>1. CASE Ends(c, "failed")
        BY <1>0, <4>1, EndedAt
      <4>2. ASSUME NEW rows, Step(c, [call[c] EXCEPT !.step = "pick", !.rows = rows])
            PROVE  /\ \A d \in Commands \ {c} : call'[d] = call[d]
                   /\ call'[c].kind = call[c].kind /\ call'[c].pay = call[c].pay
        BY <1>0, <4>2 DEF Step, Calls
      <4> QED
        BY <3>2, <4>1, <4>2
    <3> QED
      BY <3>1, <3>3 DEF WalletBounded, PayPositive
  <2> QED
    BY <1>2, <2>1 DEF ListUnspent, WalletBounded, PayPositive
<1>3. ASSUME NEW c \in Commands, Pick(c) PROVE WalletBounded'
  <2>1. call[c].step = "pick" /\ UNCHANGED <<tipHeight, mined>>
    BY <1>3 DEF Pick
  <2>2. \A d \in Commands \ {c} : signed'[d] = signed[d]
    BY <1>0, <1>3 DEF Pick
  <2>3. call'[c].step \in {"failed", "send"} /\ \A d \in Commands \ {c} : call'[d] = call[d]
    <3>1. CASE Ends(c, "failed")
      BY <1>0, <3>1, EndedAt
    <3>2. CASE Step(c, [call[c] EXCEPT !.step = "send", !.rows = {}])
      BY <1>0, <3>2 DEF Step, Calls
    <3> QED
      BY <1>3, <3>1, <3>2 DEF Pick
  <2>4. PaysMore(signed'[c].outs)
    <3>1. CASE signed' = signed
      BY <3>1 DEF WalletBounded, PayPositive
    <3>2. ASSUME NEW plan \in Plans(c), signed'[c].outs = plan.outs PROVE PaysMore(signed'[c].outs)
      BY <2>1, <3>2, PlanPositive
    <3>3. signed' = signed \/ \E plan \in Plans(c) : signed'[c].outs = plan.outs
      BY <1>0, <1>3 DEF Pick
    <3> QED
      BY <3>1, <3>2, <3>3
  <2> QED
    BY <2>1, <2>2, <2>3, <2>4 DEF WalletBounded, PayPositive
<1>4. ASSUME NEW S \in SUBSET Commands, NEW d \in Commands
      PROVE  /\ Outdates(S)[d].step = call[d].step /\ Outdates(S)[d].kind = call[d].kind
             /\ Outdates(S)[d].pay = call[d].pay
             /\ Outdates(S) \in [Commands -> Calls]
  BY <1>0 DEF Outdates, Calls
<1>5. ASSUME NEW c \in Commands, Send(c) PROVE WalletBounded'
  <2>1. call[c].step = "send" /\ UNCHANGED <<tipHeight, signed, mined>>
    BY <1>5 DEF Send
  <2>2. \/ call' = [Outdates(Commands \ {c}) EXCEPT ![c].step = "accepted"]
        \/ Ends(c, "refused")
    BY <1>5 DEF Send
  <2>3. \A d \in Commands \ {c} :
          call'[d].step = call[d].step /\ call'[d].kind = call[d].kind /\ call'[d].pay = call[d].pay
    BY <1>0, <1>4, <2>2 DEF Ends, Step
  <2>4. call'[c].step \in {"accepted", "refused"}
    <3>1. CASE Ends(c, "refused")
      BY <1>0, <3>1 DEF Ends, Step, AtStart
    <3>2. CASE call' = [Outdates(Commands \ {c}) EXCEPT ![c].step = "accepted"]
      <4>1. Outdates(Commands \ {c}) \in [Commands -> Calls]
        BY <1>4
      <4> QED
        BY <3>2, <4>1 DEF Calls
    <3> QED
      BY <2>2, <3>1, <3>2
  <2> QED
    BY <2>1, <2>3, <2>4 DEF WalletBounded, PayPositive
<1>6. CASE Mine
  <2>1. tipHeight < MaxTipHeight /\ tipHeight' = tipHeight + 1 /\ signed' = signed
        /\ call' = Outdates(Commands)
    BY <1>6 DEF Mine
  <2>2. mined' = [c \in DOMAIN mined' |-> mined'[c]]
    <3>1. PICK S \in SUBSET mempool :
            mined' = [c \in DOMAIN mined \union S |-> IF c \in S THEN tipHeight + 1 ELSE mined[c]]
      BY <1>6 DEF Mine
    <3> QED
      BY <3>1
  <2>3. tipHeight' <= MaxTipHeight
    BY <1>0, <2>1
  <2> QED
    BY <1>4, <2>1, <2>2, <2>3 DEF WalletBounded, PayPositive
<1>7. CASE Clear
  BY <1>7 DEF Clear, WalletBounded, PayPositive
<1>8. CASE UNCHANGED walletVars
  BY <1>8 DEF walletVars, WalletBounded, PayPositive
<1> QED
  BY <1>1, <1>2, <1>3, <1>5, <1>6, <1>7, <1>8 DEF WalletNext

\* The type invariant: outputs of one owner or another, of a positive value and of a
\* height the chain has (pswallet, submitblock).
THEOREM WalletTypeCorrect == WalletSpec => []WalletTypeOK
<1>1. WalletInit => WalletBounded
  <2> SUFFICES ASSUME WalletInit PROVE WalletBounded
    OBVIOUS
  <2>1. Activation \in Nat /\ MaxTipHeight \in Nat /\ Activation > 2 /\ Activation <= MaxTipHeight + 2
    BY WalletAssumption
  <2>2. tipHeight = Activation - 2 /\ tipHeight <= MaxTipHeight
    BY <2>1 DEF WalletInit
  <2>3. mined = [c \in DOMAIN mined |-> mined[c]]
    BY DEF WalletInit
  <2>4. PayPositive
    BY DEF WalletInit, PayPositive, PaysMore, NoTx, AtStart
  <2> QED
    BY <2>2, <2>3, <2>4 DEF WalletBounded
<1>2. WalletInv /\ WalletBounded => WalletTypeOK
  <2> SUFFICES ASSUME WalletInv, WalletBounded PROVE WalletTypeOK
    OBVIOUS
  <2>1. /\ tipHeight \in Nat /\ tipHeight + 2 >= Activation /\ tipHeight <= MaxTipHeight
        /\ Activation \in Nat /\ Activation > 2 /\ MaxTipHeight \in Nat \ {0}
    BY WalletAssumption, Limits DEF WalletInv, WalletTyped, WalletBounded
  <2>2. tipHeight \in (Activation - 2)..MaxTipHeight
    BY <2>1
  <2>3. \A c \in DOMAIN mined : c \in Commands /\ mined[c] \in 1..MaxTipHeight
    BY <2>1 DEF WalletInv, WalletTyped
  <2>4. mined \in [DOMAIN mined -> 1..MaxTipHeight] /\ DOMAIN mined \subseteq Commands
    BY <2>3 DEF WalletBounded
  <2>5. ASSUME NEW o \in DOMAIN unspent
        PROVE  unspent[o] \in [addr : {Me, Other}, value : Nat \ {0}, born : 1..MaxTipHeight]
    <3>1. CASE FromStart(o) /\ unspent[o] = [addr |-> Me, value |-> Coinbases[o[1]], born |-> 1]
      BY <2>1, <3>1, WalletAssumption DEF FromStart
    <3>2. CASE /\ IsOut(o) /\ o[1] \in DOMAIN mined
               /\ unspent[o] = [addr |-> OutOf(o).addr, value |-> OutOf(o).value, born |-> mined[o[1]]]
      <4>1. OutOf(o) \in Paid /\ OutOf(o).value # 0
        BY <3>2 DEF IsOut, OutOf, WalletInv, WalletTyped, SignedTxs, WalletBounded, PayPositive, PaysMore
      <4> QED
        BY <2>3, <3>2, <4>1 DEF Paid
    <3> QED
      BY <3>1, <3>2 DEF WalletInv, Coined
  <2>6. leaving \subseteq mempool /\ mempool \subseteq Commands
    BY DEF WalletInv, WalletTyped, PoolSound
  <2>7. ASSUME NEW c \in Commands
        PROVE  /\ signed[c].kind \in Kinds \union {"none"}
               /\ ToSet(signed[c].ins) \subseteq (Commands \union DOMAIN Coinbases) \X (Nat \ {0})
               /\ call[c].step \in {"start", "list", "pick", "send", "accepted", "refused", "failed"}
    <3>1. signed[c] \in SignedTxs /\ call[c] \in Calls
      BY DEF WalletInv, WalletTyped
    <3> QED
      BY <3>1 DEF SignedTxs, Calls, ToSet, Places
  <2> QED
    BY <2>2, <2>4, <2>5, <2>6, <2>7 DEF WalletTypeOK
<1>3. WalletInv /\ WalletBounded /\ [WalletNext]_walletVars => WalletBounded'
  BY WalletStaysBounded
<1> QED
  BY <1>1, <1>2, <1>3, WalletInvariant, PTL DEF WalletSpec
=============================================================================
