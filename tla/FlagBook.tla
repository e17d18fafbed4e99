----------------------------- MODULE FlagBook ------------------------------
(***************************************************************************)
(* One flag book as the chain uses it: transactions are applied to it at   *)
(* growing heights, each one possibly more than once (when it is accepted  *)
(* into the mempool, when a block is checked, and when the chain is        *)
(* replayed).                                                              *)
(***************************************************************************)
EXTENDS FlagRules

CONSTANTS
    Creates,  \* the createflag transactions
    Claims,   \* the claimflag transactions
    MaxApply  \* bound on the heights looked at

\* escrow_lock was already applied when a create was parsed, amounts fit 64
\* bits, and a txid is the hash of its transaction.
ASSUME FlagTxAssumption ==
    /\ \A c \in Creates : c.max \in Nat /\ c.bounty \in Nat /\ c.expires \in Nat
    /\ \A c, d \in Creates : c.txid = d.txid => c = d
    /\ \A c, d \in Claims : c.txid = d.txid => c = d
    /\ MaxApply \in Nat

VARIABLES
    flagBook,    \* flags_
    applyHeight  \* the height transactions are applied at

flagVars == <<flagBook, applyHeight>>

Entry == [who : {c.who : c \in Claims}, txid : {c.txid : c \in Claims}]

Flag ==
    [txid : {c.txid : c \in Creates}, awards : {c.awards : c \in Creates},
     max : Nat, expires : Nat, bounty : Nat, escrow : Nat, claims : Seq(Entry)]

\* The book holds a flag per id, every amount a natural number.
FlagTypeOK ==
    /\ DOMAIN flagBook \subseteq {c.flag : c \in Creates}
    /\ flagBook \in [DOMAIN flagBook -> Flag]
    /\ applyHeight \in Nat

FlagInit ==
    /\ flagBook = EmptyBook
    /\ applyHeight = 1

Create(c) ==
    /\ CreateOk(flagBook, c)
    /\ flagBook' = AfterCreate(flagBook, c)
    /\ UNCHANGED applyHeight

Claim(c) ==
    /\ ClaimOk(flagBook, c, applyHeight)
    /\ flagBook' = AfterClaim(flagBook, c)
    /\ UNCHANGED applyHeight

\* Later transactions are applied at a greater height.
NextHeight ==
    /\ applyHeight < MaxApply
    /\ applyHeight' = applyHeight + 1
    /\ UNCHANGED flagBook

FlagNext ==
    \/ \E c \in Creates : Create(c)
    \/ \E c \in Claims : Claim(c)
    \/ NextHeight

FlagSpec == FlagInit /\ [][FlagNext]_flagVars
-----------------------------------------------------------------------------
\* What is left in escrow is one bounty for every claim still open, computed
\* without overflow, so a limited flag can always pay every claim it admits
\* (escrow_lock, FlagBook::claim).
EscrowBalances ==
    \A f \in DOMAIN flagBook :
        /\ flagBook[f].max # 0 => Len(flagBook[f].claims) <= flagBook[f].max
        /\ flagBook[f].escrow =
             IF flagBook[f].max = 0 THEN 0
             ELSE flagBook[f].bounty * (flagBook[f].max - Len(flagBook[f].claims))
        /\ flagBook[f].max = 0 => flagBook[f].bounty = 0

\* Nobody is paid twice by one flag, however often a claim is applied.
OneClaimEach ==
    \A f \in DOMAIN flagBook :
        \A i, j \in 1..Len(flagBook[f].claims) :
            flagBook[f].claims[i].who = flagBook[f].claims[j].who => i = j

TakenBy(bk, c) == c.flag \in DOMAIN bk /\ Recorded(bk[c.flag], c.who, c.txid)

\* A claim the book took stays in it and acceptable, and changes nothing when it
\* comes again, even after the flag was announced once more, expired or ran out:
\* a claim that was applied for the mempool can still be applied for its block.
\* This is one book, from its reset on; a start or a rewind builds another.
RecordedClaimStays ==
    [][\A c \in Claims :
         TakenBy(flagBook, c) =>
            /\ TakenBy(flagBook', c)
            /\ ClaimOk(flagBook', c, applyHeight')
            /\ AfterClaim(flagBook', c) = flagBook']_flagVars
=============================================================================
