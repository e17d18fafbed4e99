----------------------------- MODULE FlagRules -----------------------------
(***************************************************************************)
(* The rules of the flag book (flags.hpp): what a createflag and a         *)
(* claimflag transaction require of a book, and the book they leave.  A    *)
(* book is a function from the flag ids it holds to their flags; the       *)
(* commitment and the note of a flag are carried by the code and never     *)
(* looked at, so they are left out.                                        *)
(***************************************************************************)
EXTENDS Integers, Sequences

CONSTANT UMax   \* the largest amount a uint64_t holds

ASSUME UMaxAssumption == UMax \in Nat

EmptyBook == [f \in {} |-> {}]

\* The claims of a flag: claimants[i] was paid by claim_txids[i].
Recorded(flag, who, txid) ==
    \E i \in 1..Len(flag.claims) : flag.claims[i] = [who |-> who, txid |-> txid]

HasClaimed(flag, who) == \E i \in 1..Len(flag.claims) : flag.claims[i].who = who

FaultyEscrowOk(max, bounty) == max = 0 => bounty = 0

\* escrow_lock: an unlimited flag pays nothing, and the lock must fit 64 bits.
EscrowOk(max, bounty) ==
    IF max = 0 THEN bounty = 0 ELSE bounty <= UMax \div max

EscrowLock(max, bounty) == (bounty * max) % (UMax + 1)

\* FlagBook::create.  The transaction that made the flag may come again: it is
\* first seen in the mempool and then in a block.
CreateOk(book, c) ==
    IF c.flag \in DOMAIN book
    THEN book[c.flag].txid = c.txid
    ELSE EscrowOk(c.max, c.bounty)

NewFlag(c) ==
    [txid |-> c.txid, awards |-> c.awards, max |-> c.max, expires |-> c.expires,
     bounty |-> c.bounty, escrow |-> EscrowLock(c.max, c.bounty), claims |-> << >>]

FaultyAfterCreate(book, c) ==
    [f \in DOMAIN book \union {c.flag} |-> IF f = c.flag THEN NewFlag(c) ELSE book[f]]

AfterCreate(book, c) ==
    IF c.flag \in DOMAIN book
    THEN book
    ELSE [f \in DOMAIN book \union {c.flag} |->
            IF f = c.flag THEN NewFlag(c) ELSE book[f]]

\* What a first claim of a recipient requires: the awards key signed it, the
\* flag has not expired, and there is a claim and a bounty left.
Payable(flag, c, height) ==
    /\ c.signer = flag.awards
    /\ flag.expires # 0 => height <= flag.expires
    /\ flag.max # 0 => Len(flag.claims) < flag.max
    /\ flag.bounty <= flag.escrow

\* FlagBook::claim.  A claim that is already recorded under its own txid is
\* accepted again, before any other rule is looked at.
ClaimOk(book, c, height) ==
    /\ c.flag \in DOMAIN book
    /\ IF HasClaimed(book[c.flag], c.who)
       THEN Recorded(book[c.flag], c.who, c.txid)
       ELSE Payable(book[c.flag], c, height)

FaultyAfterClaim(book, c) ==
    [book EXCEPT ![c.flag].escrow = @ - book[c.flag].bounty,
                 ![c.flag].claims = Append(@, [who |-> c.who, txid |-> c.txid])]

AfterClaim(book, c) ==
    IF HasClaimed(book[c.flag], c.who)
    THEN book
    ELSE [book EXCEPT ![c.flag].escrow = @ - book[c.flag].bounty,
                      ![c.flag].claims = Append(@, [who |-> c.who, txid |-> c.txid])]
=============================================================================
