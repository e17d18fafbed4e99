------------------------------- MODULE Ledger -------------------------------
(***************************************************************************)
(* What one node makes of the transactions of its chain: the unspent       *)
(* outputs, the flag book, the mempool and its file (chain_rpc.cpp,        *)
(* storage.cpp).  A thread serves one call at a time.  sendtransaction     *)
(* holds no lock while it validates, admits and saves; submitblock holds   *)
(* g_chain_mu.  A crash loses the memory and keeps the blocks and the last *)
(* mempool.json.  The chain only grows here; NodeChain has its forks.      *)
(*                                                                         *)
(* Signatures, addresses and names are left to the definition of the       *)
(* transactions, and the amounts stay below height 3000.  A coinbase is    *)
(* one output of what the rules allow.  Mempool and file are sets: the     *)
(* code lists the first 1000 transactions in the order of a hash table, so *)
(* every such choice and every order the code can list them in is tried.   *)
(***************************************************************************)
EXTENDS FlagRules, FiniteSets, SequencesExt

CONSTANTS
    Txs,         \* the user transactions, named by their txids
    Def,         \* their contents, see TxAssumption
    Subsidy,     \* the subsidy of a block
    MinFee,      \* min_fee_for_height
    Senders,     \* the threads that serve sendtransaction
    Submitters,  \* the threads that submit blocks
    ListLimit,   \* transactions a listing of the mempool has at most (1000)
    MaxHeight,   \* bound on the height of the chain
    MaxBlockTxs  \* bound on the transactions of a block

\* An outpoint is a txid and an index; the inputs are a list, in which an
\* outpoint may come twice.  pays are the amounts a claim sends to its
\* recipient; act is what createflag and claimflag ask of the flag book.  A
\* height names the coinbase at it, which no txid of a user is.
ASSUME TxAssumption ==
    /\ Subsidy \in Nat /\ MaxHeight \in Nat /\ MaxBlockTxs \in Nat
    /\ ListLimit \in Nat
    /\ IsFiniteSet(Txs)
    /\ Txs \intersect (1..MaxHeight) = {}
    /\ \A t \in Txs :
        /\ Def[t].ins \in Seq((Txs \union 1..MaxHeight) \X (Nat \ {0}))
        /\ Def[t].outs \in Seq(Nat) /\ Def[t].fee \in Nat
        /\ Def[t].kind \in {"pay", "create", "claim"}
        /\ Def[t].kind # "pay" => Def[t].act.txid = t
        /\ Def[t].kind = "create" => Def[t].act.max \in Nat /\ Def[t].act.bounty \in Nat

VARIABLES
    chain,  \* the blocks of the active chain on disk, each its transactions
    utxo,   \* utxo_: the amount of every unspent outpoint
    flags,  \* g_flags
    pool,   \* mempool_
    file,   \* mempool.json
    th,     \* what each thread is doing
    up,     \* the daemon runs
    overlapped, \* two calls have run at the same time (a history variable)
    crowded     \* the mempool has held more than ListLimit (a history variable)

ledgerVars == <<chain, utxo, flags, pool, file, th, up, overlapped, crowded>>
memory == <<utxo, flags, pool>>
disk == <<chain, file>>

Threads == Senders \union Submitters

Height == Len(chain) + 1

TxsOf(c) == UNION {ToSet(c[h]) : h \in 1..Len(c)}

Mined == TxsOf(chain)
-----------------------------------------------------------------------------
(* Amounts and outpoints.                                                  *)

Plus(a, b) == a + b

Sum(s) == FoldLeft(Plus, 0, s)

Total(f) == FoldFunction(Plus, 0, f)

\* A uint64_t holds the rest of what passes UMax.
Wrap(n) == n % (UMax + 1)

\* The outpoint of the coinbase of the block at height h.
Coin(h) == <<h, 1>>

Fees(txs) == Sum([i \in 1..Len(txs) |-> Def[txs[i]].fee])

\* fee_shares: the floored share of the fees of a block (fee_units).
Share(txs, percent) == Wrap(Wrap(Fees(txs)) * percent) \div 100

\* What a coinbase pays out: the subsidy and the shares of the fees.
CoinValue(txs) ==
    Subsidy + Share(txs, 60) + Share(txs, 20) + Share(txs, 8) + Share(txs, 7)

CoinOut(h, txs) == [o \in {Coin(h)} |-> CoinValue(txs)]

Outs(t) ==
    [o \in {<<t, n>> : n \in 1..Len(Def[t].outs)} |-> Def[t].outs[o[2]]]

\* Every output of a set of transactions, spent or not.
AllOuts(S) ==
    [o \in UNION {DOMAIN Outs(t) : t \in S} |-> Def[o[1]].outs[o[2]]]

\* An output that is there is not replaced.
Joined(u, v) ==
    [o \in DOMAIN u \union DOMAIN v |-> IF o \in DOMAIN u THEN u[o] ELSE v[o]]

\* The outpoints a transaction spends.
Ins(t) == ToSet(Def[t].ins)

\* apply_utxos: all or nothing.  An input that is listed twice is there twice
\* when it is looked up, and erased once.
CanApply(u, t) == Ins(t) \subseteq DOMAIN u /\ DOMAIN Outs(t) \cap DOMAIN u = {}

Applied(u, t) ==
    IF CanApply(u, t) THEN Joined(Restrict(u, DOMAIN u \ Ins(t)), Outs(t)) ELSE u
-----------------------------------------------------------------------------
(* The rules of a transaction.                                             *)

Lock(t) ==
    IF Def[t].kind = "create" THEN EscrowLock(Def[t].act.max, Def[t].act.bounty) ELSE 0

\* claim_release: a claim may spend the bounty of its flag.
Release(t, book) ==
    IF Def[t].kind = "claim" /\ Def[t].act.flag \in DOMAIN book
    THEN book[Def[t].act.flag].bounty ELSE 0

FaultyNeed(t) == Wrap(Sum(Def[t].outs) + Def[t].fee)

\* The outputs, the fee and the lock are added up without a check.
Need(t) == Wrap(Sum(Def[t].outs) + Def[t].fee + Lock(t))

\* The inputs as they are listed; this sum is checked.
Funds(t, have) == Sum([i \in 1..Len(Def[t].ins) |-> have[Def[t].ins[i]]])

FaultyFresh(t, prior) == TRUE

\* No earlier transaction of the mempool or of the block spends the same input.
Fresh(t, prior) == \A p \in prior : Ins(p) \cap Ins(t) = {}

\* check_spendable, where have are the outputs it finds: the unspent ones and
\* those of the earlier transactions.
Spendable(t, have, prior, book) ==
    /\ Ins(t) # {}
    /\ Def[t].fee >= MinFee
    /\ Fresh(t, prior)
    /\ Ins(t) \subseteq DOMAIN have
    /\ Funds(t, have) <= UMax
    /\ LET funds == Wrap(Funds(t, have) + Release(t, book))
       IN  IF Def[t].kind = "pay" THEN Need(t) <= funds ELSE Need(t) = funds

\* flag_outputs_ok: a claim pays its recipient the bounty, once.
OutputsOk(t, book) ==
    Def[t].kind = "claim" =>
        /\ Def[t].act.flag \in DOMAIN book
        /\ LET bounty == book[Def[t].act.flag].bounty
           IN  Def[t].pays = IF bounty = 0 THEN << >> ELSE <<bounty>>

FlagOk(t, book, h) ==
    CASE Def[t].kind = "create" -> CreateOk(book, Def[t].act)
      [] Def[t].kind = "claim"  -> ClaimOk(book, Def[t].act, h)
      [] OTHER                  -> TRUE

FaultyBookAfter(book, t, h) ==
    IF Def[t].kind = "create" /\ FlagOk(t, book, h)
    THEN AfterCreate(book, Def[t].act) ELSE book

\* apply_flag_tx: a refused transaction leaves the book alone.
BookAfter(book, t, h) ==
    IF ~FlagOk(t, book, h) THEN book
    ELSE CASE Def[t].kind = "create" -> AfterCreate(book, Def[t].act)
           [] Def[t].kind = "claim"  -> AfterClaim(book, Def[t].act)
           [] OTHER                  -> book

Admissible(t, have, prior, book, h) ==
    /\ Spendable(t, have, prior, book)
    /\ OutputsOk(t, book)
    /\ FlagOk(t, book, h)

\* The transactions of a block at height h, checked one after the other; the
\* first may spend the coinbase of the block itself.
CheckTx(a, t) ==
    [ok    |-> a.ok /\ Admissible(t, a.have, a.prior, a.book, a.h),
     have  |-> Joined(a.have, Outs(t)),
     prior |-> a.prior \union {t},
     book  |-> BookAfter(a.book, t, a.h),
     h     |-> a.h]

Checked(txs, have, book, h) ==
    FoldLeft(CheckTx,
             [ok |-> TRUE, have |-> have, prior |-> {}, book |-> book, h |-> h], txs)

CheckBlock(txs) ==
    Checked(txs, Joined(utxo, CoinOut(Height, txs)), flags, Height)

FaultyStored(u, h, txs) == Joined(FoldLeft(Applied, u, txs), CoinOut(h, txs))

\* The unspent outputs once submitblock has stored a block.
Stored(u, h, txs) == FoldLeft(Applied, Joined(u, CoinOut(h, txs)), txs)

\* apply_chain: the state the blocks on disk rebuild, from an empty book.  The
\* outputs of a transaction are only checked against what is unspent.
ReplayTx(a, t) ==
    [ok   |-> a.ok /\ CanApply(a.utxo, t) /\ FlagOk(t, a.book, a.h),
     utxo |-> Applied(a.utxo, t),
     book |-> BookAfter(a.book, t, a.h),
     h    |-> a.h]

ReplayBlock(a, txs) ==
    LET r == FoldLeft(ReplayTx, [a EXCEPT !.utxo = Joined(@, CoinOut(a.h, txs))], txs)
    IN  [r EXCEPT !.h = @ + 1]

Replay(c) ==
    FoldLeft(ReplayBlock, [ok |-> TRUE, utxo |-> << >>, book |-> EmptyBook, h |-> 1], c)

\* mempool_txs: a transaction is listed after those whose outputs it spends.
Listings(S) ==
    {q \in SetToSeqs(S) :
        \A i, j \in 1..Len(q) : i < j => Ins(q[i]) \cap DOMAIN Outs(q[j]) = {}}

\* load_mempool: each transaction of the file must stand on the chain alone.
LoadTx(a, t) ==
    IF t \notin a.pool /\ Admissible(t, a.utxo, {}, a.book, a.h)
    THEN [a EXCEPT !.pool = @ \union {t}, !.book = BookAfter(@, t, a.h)]
    ELSE a

Loaded(q, u, book, h) ==
    FoldLeft(LoadTx, [pool |-> {}, book |-> book, utxo |-> u, h |-> h], q)
-----------------------------------------------------------------------------
Idle == [pc |-> "idle"]

LedgerInit ==
    /\ chain = << >>
    /\ utxo = << >> /\ flags = EmptyBook
    /\ pool = {} /\ file = {}
    /\ th = [s \in Threads |-> Idle]
    /\ up = TRUE
    /\ overlapped = FALSE /\ crowded = FALSE

At(s, pc) == up /\ th[s].pc = pc

Goto(s, step) == th' = [th EXCEPT ![s] = step]

Advance(s, pc) == th' = [th EXCEPT ![s].pc = pc]

\* get_mempool_transactions: the first ListLimit of a set of transactions, in
\* whatever order its hash table has.
Listable(S) == IF Cardinality(S) <= ListLimit THEN {S} ELSE kSubset(ListLimit, S)

(* rpc_sendtransaction.                                                    *)

FaultyEarlier == {{}}

\* The mempool as a call may see it (mempool_txs).
Earlier == Listable(pool)

\* A copy of the flag book, staged for the next block.
StageTx(a, t) == [a EXCEPT !.book = BookAfter(@, t, a.h)]

Staged(q, book, h) == FoldLeft(StageTx, [book |-> book, h |-> h], q).book

\* It copies the mempool and stages a copy of the flag book.
SendRead(s, t) ==
    /\ At(s, "idle")
    /\ t \notin pool
    /\ \E prior \in Earlier : \E q \in Listings(prior) :
          Goto(s, [pc |-> "check", tx |-> t, prior |-> prior, h |-> Height,
                   book |-> Staged(q, flags, Height)])
    /\ UNCHANGED <<memory, disk, up>>

\* It validates against the unspent outputs of the moment.  A placeholder has
\* no inputs and is not validated.
SendCheck(s) ==
    /\ At(s, "check")
    /\ LET c == th[s]
       IN  CASE Ins(c.tx) = {} -> Advance(s, "add")
             [] Ins(c.tx) # {} /\ Admissible(c.tx, Joined(utxo, AllOuts(c.prior)),
                                                 c.prior, c.book, c.h) ->
                  Goto(s, [c EXCEPT !.pc = "add", !.book = BookAfter(@, c.tx, c.h)])
             [] OTHER -> Goto(s, Idle)
    /\ UNCHANGED <<memory, disk, up>>

SendAdd(s) ==
    /\ At(s, "add")
    /\ pool' = pool \union {th[s].tx}
    /\ Advance(s, "list")
    /\ UNCHANGED <<utxo, flags, disk, up>>

\* save_mempool lists the mempool ...
SendList(s) ==
    /\ At(s, "list")
    /\ \E list \in Listable(pool) :
          Goto(s, [pc |-> "save", list |-> list, book |-> th[s].book])
    /\ UNCHANGED <<memory, disk, up>>

\* ... and replaces the file; the staged flag book becomes the node's.
SendSave(s) ==
    /\ At(s, "save")
    /\ file' = th[s].list
    /\ flags' = th[s].book
    /\ Goto(s, Idle)
    /\ UNCHANGED <<chain, utxo, pool, up>>

(* rpc_submitblock, under g_chain_mu.                                      *)

ChainLocked == \E s \in Submitters : th[s].pc \in {"apply", "relist", "resave"}

Submit(s, txs) ==
    /\ At(s, "idle") /\ ~ChainLocked
    /\ Height <= MaxHeight
    /\ LET c == CheckBlock(txs)
       IN  c.ok /\ Goto(s, [pc |-> "apply", txs |-> txs, book |-> c.book])
    /\ UNCHANGED <<memory, disk, up>>

\* The mempool once the transactions of a block are removed.
Unconfirmed(txs) == pool \ ToSet(txs)

FaultyMustSave(txs) == FALSE

MustSave(txs) == txs # << >>

SubApply(s) ==
    /\ At(s, "apply")
    /\ chain' = Append(chain, th[s].txs)
    /\ utxo' = Stored(utxo, Height, th[s].txs)
    /\ pool' = Unconfirmed(th[s].txs)
    /\ flags' = th[s].book
    /\ IF MustSave(th[s].txs) THEN Goto(s, [pc |-> "relist"]) ELSE Goto(s, Idle)
    /\ UNCHANGED <<file, up>>

SubList(s) ==
    /\ At(s, "relist")
    /\ \E list \in Listable(pool) : Goto(s, [pc |-> "resave", list |-> list])
    /\ UNCHANGED <<memory, disk, up>>

SubSave(s) ==
    /\ At(s, "resave")
    /\ file' = th[s].list
    /\ Goto(s, Idle)
    /\ UNCHANGED <<memory, chain, up>>

Crash ==
    /\ up
    /\ up' = FALSE
    /\ utxo' = << >> /\ flags' = EmptyBook /\ pool' = {}
    /\ th' = [s \in Threads |-> Idle]
    /\ UNCHANGED disk

\* restore_chain: the daemon does not start on a chain that does not replay.
\* The file is written again when a transaction of it was not kept.
Restart ==
    /\ ~up
    /\ LET r == Replay(chain)
       IN  /\ r.ok
           /\ utxo' = r.utxo
           /\ \E q \in SetToSeqs(file) :
                 LET l == Loaded(q, r.utxo, r.book, Height)
                 IN  /\ pool' = l.pool /\ flags' = l.book
                     /\ file' \in IF l.pool # file THEN Listable(l.pool) ELSE {file}
    /\ up' = TRUE
    /\ UNCHANGED <<chain, th>>

LedgerStep ==
    \/ \E s \in Senders, t \in Txs : SendRead(s, t)
    \/ \E s \in Senders :
          SendCheck(s) \/ SendAdd(s) \/ SendList(s) \/ SendSave(s)
    \/ \E s \in Submitters, txs \in BoundedSeq(Txs, MaxBlockTxs) : Submit(s, txs)
    \/ \E s \in Submitters : SubApply(s) \/ SubList(s) \/ SubSave(s)
    \/ Crash
    \/ Restart

Overlaps == \E s, r \in Threads : s # r /\ th'[s] # Idle /\ th'[r] # Idle

LedgerNext ==
    /\ LedgerStep
    /\ overlapped' = (overlapped \/ Overlaps)
    /\ crowded' = (crowded \/ Cardinality(pool') > ListLimit)

LedgerSpec == LedgerInit /\ [][LedgerNext]_ledgerVars
-----------------------------------------------------------------------------
Outpoints == (Txs \union 1..MaxHeight) \X (Nat \ {0})

\* The types of the variables; nothing is in memory while the daemon is down.
LedgerTypeOK ==
    /\ chain \in Seq(Seq(Txs))
    /\ DOMAIN utxo \subseteq Outpoints
    /\ utxo \in [DOMAIN utxo -> Nat]
    /\ pool \subseteq Txs /\ file \subseteq Txs
    /\ DOMAIN th = Threads /\ up \in BOOLEAN
    /\ overlapped \in BOOLEAN /\ crowded \in BOOLEAN
    /\ ~up => utxo = << >> /\ flags = EmptyBook /\ pool = {}

Quiet == up /\ \A s \in Threads : th[s] = Idle

\* The unspent outputs kept block by block are those a replay of the chain
\* rebuilds (rpc_submitblock against apply_chain), whatever threads do.
UtxoMatchesChain == up => utxo = Replay(chain).utxo

\* No two transactions of the chain spend the same output.
SpentOnce ==
    \A h, k \in 1..Len(chain) :
        \A i \in 1..Len(chain[h]), j \in 1..Len(chain[k]) :
            <<h, i>> # <<k, j>> => Ins(chain[h][i]) \cap Ins(chain[k][j]) = {}

\* The daemon can start again on the blocks it accepted (restore_chain).
Restorable == Replay(chain).ok

\* It can, where flags are not in play, whatever threads do.
SpendsRestorable == (\A t \in Mined : Def[t].kind = "pay") => Restorable

\* The bounties a flag book keeps in escrow.
Locked(book) == Total([f \in DOMAIN book |-> book[f].escrow])

\* What a transaction pays, charges and locks fits 64 bits, and no input of it
\* is listed twice.
Plain(t) ==
    /\ IsInjective(Def[t].ins)
    /\ Sum(Def[t].outs) + Def[t].fee + Lock(t) <= UMax

\* As long as calls come one after the other and the chain replays, the coins in
\* circulation, the bounties in escrow and the fees are covered by what the
\* coinbases paid out: a bounty is locked out of the funds of its creator, and
\* leaves the escrow when its claim spends it.  This is said of chains of plain
\* transactions: check_spendable adds up what a transaction needs without
\* looking at the 64 bits, and counts an input as often as it is listed.  (A
\* call that stores its copy of the flag book over a block's can give a claim
\* the bounty of another flag.)
NoMinting ==
    LET r == Replay(chain)
    IN  ~overlapped /\ r.ok /\ (\A t \in Mined : Plain(t)) =>
          Total(r.utxo) + Locked(r.book) + Sum([h \in 1..Len(chain) |-> Fees(chain[h])])
            <= Sum([h \in 1..Len(chain) |-> CoinValue(chain[h])])

\* Between two calls mempool.json lists the mempool, so a crash loses no spend
\* that was accepted (save_mempool), as long as calls come one after the other
\* and the mempool holds no more than a listing has; with more in it, the file
\* has as many as a listing has, and all of them are in the mempool.
FileMirrorsPool == Quiet /\ ~overlapped => file \in Listable(pool)

\* As long as calls come one after the other, a transaction of a block does not
\* stay in the mempool (rpc_submitblock removes it, and sendtransaction does not
\* take it again); and as long as a listing has had the whole mempool, it holds
\* no two spends of one output, also after the file was loaded without looking
\* at the other transactions of it.
PoolStands ==
    ~overlapped =>
        /\ \A t \in pool : Ins(t) # {} => t \notin Mined
        /\ ~crowded => \A t, p \in pool : t # p => Ins(t) \cap Ins(p) = {}

\* As long as calls come one after the other, every flag and claim of the chain
\* is in the flag book of the node, though calls stage copies of the book and
\* store them back.
BookCoversChain ==
    up /\ ~overlapped => \A t \in Mined :
        LET act == Def[t].act
        IN  /\ Def[t].kind = "create" =>
                 act.flag \in DOMAIN flags /\ flags[act.flag].txid = t
            /\ Def[t].kind = "claim" =>
                 act.flag \in DOMAIN flags /\ Recorded(flags[act.flag], act.who, t)

\* A restart loads every spend of mempool.json when they can all follow the
\* chain together (load_mempool).
SpendsReloaded ==
    [][~up /\ up' /\ (\E q \in Listings(file) :
                        Checked(q, Replay(chain).utxo, Replay(chain).book, Height).ok)
         => pool' = file]_ledgerVars
=============================================================================
