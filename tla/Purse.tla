------------------------------- MODULE Purse --------------------------------
(***************************************************************************)
(* The validator purse (validator_purse.cpp): a book of rewards in memory, *)
(* a file replaced through a temporary one, and a backup copied before     *)
(* that.  One mutex makes the calls follow one another; the process may    *)
(* die between any two file operations, and a write may come out short.    *)
(***************************************************************************)
EXTENDS Naturals

CONSTANTS
    MaxRewardBlock,  \* bound: heights rewarded
    MaxReward,       \* bound: reward of one block
    MaxFailures,     \* bound: file operations that fail
    MaxCrashes       \* bound: crashes

ASSUME PurseAssumption ==
    {MaxRewardBlock, MaxReward, MaxFailures, MaxCrashes} \subseteq Nat

VARIABLES
    purse,             \* state_: amounts and the last height rewarded
    dirty,             \* dirty_
    purseFile,         \* the purse file, its .tmp and its .bak
    tmpFile,
    bakFile,
    saving,            \* step of save_to_disk and what withdraw will return after it
    purseOpen,         \* the object exists
    paid,              \* history: paid out by withdraw since the last reset
    saved,             \* history: the book of the last save that succeeded
    failures, crashes

purseVars == <<purse, dirty, purseFile, tmpFile, bakFile, saving, purseOpen, paid, saved,
               failures, crashes>>

Missing == [kind |-> "missing"]
Torn == [kind |-> "torn"]
Content(b) == [kind |-> "book", book |-> b]

FreshPurse == [balance |-> 0, earned |-> 0, withdrawn |-> 0, last |-> 0]
PurseIdle == [step |-> "none", pays |-> 0]

PurseAmounts == 0 .. MaxRewardBlock * MaxReward
Books == [balance : PurseAmounts, earned : PurseAmounts, withdrawn : PurseAmounts,
          last : 0..MaxRewardBlock]
Files == {Missing, Torn} \cup [kind : {"book"}, book : Books]

PurseTypeOK ==
    /\ purse \in Books /\ dirty \in BOOLEAN /\ purseOpen \in BOOLEAN
    /\ {purseFile, tmpFile, bakFile, saved} \subseteq Files
    /\ saving \in [step : {"none", "backup", "copy", "open", "write", "rename"},
                   pays : PurseAmounts]
    /\ paid \in Nat
    /\ failures \in 0..MaxFailures /\ crashes \in 0..MaxCrashes

PurseInit ==
    /\ purse = FreshPurse /\ dirty = FALSE
    /\ purseFile = Missing /\ tmpFile = Missing /\ bakFile = Missing
    /\ saving = PurseIdle
    /\ purseOpen = FALSE
    /\ paid = 0 /\ saved = Missing
    /\ failures = 0 /\ crashes = 0
-----------------------------------------------------------------------------
\* The constructor: load_from_disk, where deserialize_state catches what the
\* parser throws, so restore_from_backup is never called; a new purse is not
\* dirty, so its save_to_disk writes nothing.
Open ==
    /\ ~purseOpen
    /\ purseOpen' = TRUE
    /\ purse' = IF purseFile.kind = "book" THEN purseFile.book ELSE FreshPurse
    /\ dirty' = FALSE
    /\ UNCHANGED <<purseFile, tmpFile, bakFile, saving, paid, saved, failures, crashes>>

Called == purseOpen /\ saving = PurseIdle

\* Nothing is saved unless dirty_; create_backup copies a file that is there.
FirstStep == IF purseFile = Missing THEN "open" ELSE "backup"
Saving(amount) == [step |-> FirstStep, pays |-> amount]

\* add_reward: a height at or below the last one earns nothing.
AddReward ==
    /\ Called
    /\ \E height \in purse.last + 1 .. MaxRewardBlock, r \in 1..MaxReward :
         purse' = [purse EXCEPT !.balance = @ + r, !.earned = @ + r, !.last = height]
    /\ dirty' = TRUE
    /\ UNCHANGED <<purseFile, tmpFile, bakFile, saving, purseOpen, paid, saved, failures, crashes>>

FaultyAfterWithdraw(amount) == PurseIdle

\* Withdrawals are saved at once.
AfterWithdraw(amount) == Saving(amount)

FaultyWithdrawable == 0 .. purse.balance + 1

\* More than the balance cannot be taken.
Withdrawable == 0 .. purse.balance

\* withdraw; 0 takes everything.
Withdraw ==
    /\ Called
    /\ \E amount \in Withdrawable :
         LET taken == IF amount = 0 THEN purse.balance ELSE amount IN
         /\ purse' = [purse EXCEPT !.balance = @ - taken, !.withdrawn = @ + taken]
         /\ saving' = AfterWithdraw(taken)
         /\ paid' = IF saving' = PurseIdle THEN paid + taken ELSE paid
    /\ dirty' = TRUE
    /\ UNCHANGED <<purseFile, tmpFile, bakFile, purseOpen, saved, failures, crashes>>

\* link_wallet, set_auto_sweep and a save after it, and the destructor of a
\* dirty purse.
Save ==
    /\ Called
    /\ dirty' = TRUE
    /\ saving' = Saving(0)
    /\ UNCHANGED <<purse, purseFile, tmpFile, bakFile, purseOpen, paid, saved, failures, crashes>>

\* reset does not mark the book dirty.
Reset ==
    /\ Called
    /\ purse' = FreshPurse
    /\ saving' = IF dirty THEN Saving(0) ELSE PurseIdle
    /\ paid' = 0
    /\ UNCHANGED <<dirty, purseFile, tmpFile, bakFile, purseOpen, saved, failures, crashes>>
-----------------------------------------------------------------------------
(* save_to_disk, a file operation at a time *)

AtStep(from, to) == purseOpen /\ saving.step = from /\ saving' = [saving EXCEPT !.step = to]

Returns ==
    /\ saving' = PurseIdle
    /\ paid' = paid + saving.pays

\* create_backup truncates the old copy, then fills it.
BackupOpens ==
    /\ AtStep("backup", "copy")
    /\ bakFile' = Torn
    /\ UNCHANGED <<purse, dirty, purseFile, tmpFile, purseOpen, paid, saved, failures, crashes>>

BackupCopies ==
    /\ AtStep("copy", "open")
    /\ bakFile' = purseFile
    /\ UNCHANGED <<purse, dirty, purseFile, tmpFile, purseOpen, paid, saved, failures, crashes>>

FaultyTarget(content) == purseFile' = content /\ tmpFile' = content

\* What is written goes to the temporary file.
Target(content) == tmpFile' = content /\ UNCHANGED purseFile

TmpOpens ==
    /\ AtStep("open", "write")
    /\ Target(Torn)
    /\ UNCHANGED <<purse, dirty, bakFile, purseOpen, paid, saved, failures, crashes>>

\* Neither the write, the flush nor the close is looked at.
TmpWrites ==
    /\ AtStep("write", "rename")
    /\ \/ Target(Content(purse)) /\ UNCHANGED failures
       \/ failures < MaxFailures /\ failures' = failures + 1 /\ Target(Torn)
    /\ UNCHANGED <<purse, dirty, bakFile, purseOpen, paid, saved, crashes>>

Renames ==
    /\ purseOpen /\ saving.step = "rename"
    /\ Returns
    /\ purseFile' = tmpFile /\ tmpFile' = Missing
    /\ dirty' = FALSE
    /\ saved' = Content(purse)
    /\ UNCHANGED <<purse, bakFile, purseOpen, failures, crashes>>

\* The temporary file cannot be opened or renamed: the caller is not told.
SaveFails ==
    /\ purseOpen /\ saving.step \in {"open", "rename"}
    /\ failures < MaxFailures /\ failures' = failures + 1
    /\ Returns
    /\ UNCHANGED <<purse, dirty, purseFile, tmpFile, bakFile, purseOpen, saved, crashes>>

PurseCrash ==
    /\ purseOpen /\ crashes < MaxCrashes
    /\ crashes' = crashes + 1
    /\ purseOpen' = FALSE /\ saving' = PurseIdle
    /\ UNCHANGED <<purse, dirty, purseFile, tmpFile, bakFile, paid, saved, failures>>
-----------------------------------------------------------------------------
PurseNext ==
    \/ Open \/ AddReward \/ Withdraw \/ Save \/ Reset
    \/ BackupOpens \/ BackupCopies \/ TmpOpens \/ TmpWrites \/ Renames \/ SaveFails
    \/ PurseCrash

PurseSpec == PurseInit /\ [][PurseNext]_purseVars
-----------------------------------------------------------------------------
(* Properties *)

\* Money that was paid out does not come back into the purse, at whatever
\* moment the process died, unless a file operation failed (withdraw saves
\* before it returns).
PaidStaysPaid ==
    Called /\ failures = 0 =>
        /\ purse.withdrawn >= paid
        /\ purse.balance + purse.withdrawn = purse.earned

\* At every moment a start would find the book of the last save whole, or a
\* later one (save_to_disk replaces the file in one step).
LastSaveFound ==
    failures = 0 /\ saved # Missing => purseFile = saved
=============================================================================
