------------------------------- MODULE Names --------------------------------
(***************************************************************************)
(* Shortnames (chain_rpc.cpp): the book of a running node, names.json, the *)
(* register transactions in the mempool and in the blocks, and the         *)
(* snapshot of the book each block carries.  A name stands for its folded  *)
(* spelling.  A register is a transaction with a name and the address that *)
(* owns its inputs.  Signatures hold; a reload of the mempool may find the  *)
(* coins of any register spent, for their coins are not modelled.          *)
(***************************************************************************)
EXTENDS Naturals, FiniteSets, Sequences, SequencesExt

CONSTANTS
    Registers,      \* register transactions
    NameOf,         \* NameOf[t], AddrOf[t]: the name and the address of t
    AddrOf,
    Reserved,       \* names given by a reserved_bind row of names.json only
    Grants,         \* what an operator may have put there before the first start
    MaxRegisters,   \* bound: registers in a block
    MaxNameBlocks,  \* bound: blocks
    MaxRestarts     \* bound: restarts and rewinds

Row == [name : {NameOf[t] : t \in Registers}, addr : {AddrOf[t] : t \in Registers}]

ASSUME NamesAssumption ==
    /\ Registers \subseteq DOMAIN NameOf /\ Registers \subseteq DOMAIN AddrOf
    /\ Grants \subseteq Seq(Row)
    /\ {MaxRegisters, MaxNameBlocks, MaxRestarts} \subseteq Nat

VARIABLES
    book,           \* g_names, in order
    namesFile,      \* names.json
    registers,      \* registers in the mempool
    registersFile,  \* registers in mempool.json
    nameChain,      \* active chain: each block's registers and its snapshot
    sending,        \* sendtransaction calls between admission and the book
    inHand,         \* the block in submitblock, under g_chain_mu
    restarts,
    taken           \* registers that ever left a row, in a block of the active chain or
                    \* by an accepted send, whatever became of them (a history variable)

nameVars == <<book, namesFile, registers, registersFile, nameChain, sending, inHand,
              restarts, taken>>

NoBlock == [txs |-> << >>, local |-> FALSE, step |-> "none"]

NamesTypeOK ==
    /\ book \in Seq(Row) /\ namesFile \in Seq(Row)
    /\ {registers, registersFile, sending, taken} \subseteq SUBSET Registers
    /\ nameChain \in Seq([txs : Seq(Registers), names : Seq(Row)])
    /\ inHand \in [txs : Seq(Registers), local : BOOLEAN,
                   step : {"none", "admitted", "learning"}]
    /\ restarts \in 0..MaxRestarts

-----------------------------------------------------------------------------
RowOf(t) == [name |-> NameOf[t], addr |-> AddrOf[t]]

\* find_name_locked, find_address_locked
Named(bk, n) == {i \in DOMAIN bk : bk[i].name = n}
Owned(bk, a) == {i \in DOMAIN bk : bk[i].addr = a}

FaultyAddressFree(bk, row) == TRUE

\* remember_name refuses an address that has another name ...
AddressFree(bk, row) == \A i \in Owned(bk, row.addr) : bk[i].name = row.name

FaultyAccepts(bk, row, overwrite) == AddressFree(bk, row)

\* ... and, unless it may overwrite, a name that has another address.
Accepts(bk, row, overwrite) ==
    /\ AddressFree(bk, row)
    /\ overwrite \/ \A i \in Named(bk, row.name) : bk[i].addr = row.addr

\* The row of a name is added, or takes the place of the one it has.
SetRow(bk, row) ==
    IF Named(bk, row.name) = {} THEN Append(bk, row)
    ELSE [i \in DOMAIN bk |-> IF i \in Named(bk, row.name) THEN row ELSE bk[i]]

\* remember_name
Remember(bk, row, overwrite) == IF Accepts(bk, row, overwrite) THEN SetRow(bk, row) ELSE bk

RememberNew(bk, row) == Remember(bk, row, FALSE)
RememberOver(bk, row) == Remember(bk, row, TRUE)

\* absorb_name_record of every row: of names.json, which overwrites nothing, and
\* of the chain, which does.
AbsorbFile(bk, rows) == FoldLeft(RememberNew, bk, rows)
AbsorbChain(bk, rows) == FoldLeft(RememberOver, bk, rows)

RowsOf(txs) == [i \in DOMAIN txs |-> RowOf(txs[i])]

\* snapshot_including: a register replaces its name's row, whoever owns it.
Snapshot(bk, txs) == FoldLeft(SetRow, bk, RowsOf(txs))

\* apply_chain: absorb_block_names of every block, its registers and snapshot.
AbsorbBlock(bk, b) == AbsorbChain(AbsorbChain(bk, RowsOf(b.txs)), b.names)
ReplayNames(bk, blocks) == FoldLeft(AbsorbBlock, bk, blocks)

\* save_names writes the reserved rows first, and load_names_file reads them so.
AddReserved(rows, row) == IF row.name \in Reserved THEN Append(rows, row) ELSE rows
AddOther(rows, row) == IF row.name \in Reserved THEN rows ELSE Append(rows, row)

Saved(bk) == FoldLeft(AddReserved, << >>, bk) \o FoldLeft(AddOther, << >>, bk)

MinedNames(blocks) == UNION {ToSet(b.txs) : b \in ToSet(blocks)}

\* admit_register: the name is free, or the signer's own ...
Uncontested(bk, t) == \A i \in Named(bk, NameOf[t]) : bk[i].addr = AddrOf[t]

\* ... and for a local send or block a reserved name is bound to the signer in
\* names.json (grant_matches, which then remembers the row).
MayHave(t) == NameOf[t] \in Reserved => RowOf(t) \in ToSet(namesFile)

Learnt(bk, t) ==
    IF NameOf[t] \in Reserved THEN Remember(bk, RowOf(t), FALSE) ELSE bk

LearntAll(bk, txs) == FoldLeft(Learnt, bk, txs)

NamesInit ==
    /\ namesFile \in Grants /\ book = AbsorbFile(<< >>, namesFile)
    /\ registers = {} /\ registersFile = {}
    /\ nameChain = << >>
    /\ sending = {} /\ inHand = NoBlock
    /\ restarts = 0 /\ taken = {}
-----------------------------------------------------------------------------
(* sendtransaction holds no g_chain_mu *)

\* Admission: the transaction enters the mempool and mempool.json is saved.
AdmitSend(t) ==
    /\ t \notin registers \union MinedNames(nameChain) \union sending
    /\ Uncontested(book, t) /\ MayHave(t)
    /\ registers' = registers \union {t} /\ registersFile' = registers'
    /\ sending' = sending \union {t}
    /\ book' = Learnt(book, t)
    /\ UNCHANGED <<namesFile, nameChain, inHand, restarts, taken>>

\* A name lost since then takes the transaction out of the mempool again.
\* mempool.json keeps it until the next save.
RememberSend(t) ==
    /\ t \in sending
    /\ sending' = sending \ {t}
    /\ \/ /\ Accepts(book, RowOf(t), FALSE)
          /\ book' = Remember(book, RowOf(t), FALSE)
          /\ namesFile' = Saved(book')
          /\ taken' = taken \union {t}
          /\ UNCHANGED registers
       \/ /\ ~Accepts(book, RowOf(t), FALSE)
          /\ registers' = registers \ {t}
          /\ UNCHANGED <<book, namesFile, taken>>
    /\ UNCHANGED <<registersFile, nameChain, inHand, restarts>>
-----------------------------------------------------------------------------
(* submitblock *)

\* What a template held (the mempool, or what it was before more came), or
\* what a peer's block holds.
BlockTxs(local) ==
    {txs \in UNION {[1..k -> Registers \ MinedNames(nameChain)] : k \in 0..MaxRegisters} :
       /\ IsInjective(txs)
       /\ local => ToSet(txs) \subseteq registers}

\* admit_register for each register, against the book alone.
AdmitBlock(local) ==
    /\ inHand = NoBlock /\ Len(nameChain) < MaxNameBlocks
    /\ \E txs \in BlockTxs(local) :
         /\ \A i \in DOMAIN txs : Uncontested(book, txs[i])
         /\ local => \A i \in DOMAIN txs : MayHave(txs[i])
         /\ inHand' = [txs |-> txs, local |-> local, step |-> "admitted"]
         /\ book' = IF local THEN LearntAll(book, txs) ELSE book
    /\ UNCHANGED <<namesFile, registers, registersFile, nameChain, sending, restarts, taken>>

\* The block with the snapshot is on disk and on the active chain.
StoreBlock ==
    /\ inHand.step = "admitted"
    /\ nameChain' = Append(nameChain, [txs |-> inHand.txs, names |-> Snapshot(book, inHand.txs)])
    /\ inHand' = [inHand EXCEPT !.step = "learning"]
    /\ taken' = taken \union ToSet(inHand.txs)
    /\ UNCHANGED <<book, namesFile, registers, registersFile, sending, restarts, taken>>

\* remove_transaction and remember_name of one register: a peer's overwrites.
LearnName ==
    /\ inHand.step = "learning" /\ inHand.txs # << >>
    /\ registers' = registers \ {Head(inHand.txs)}
    /\ book' = Remember(book, RowOf(Head(inHand.txs)), ~inHand.local)
    /\ inHand' = IF Len(inHand.txs) > 1
                 THEN [inHand EXCEPT !.txs = Tail(inHand.txs)] ELSE NoBlock
    /\ namesFile' = IF inHand' = NoBlock THEN Saved(book') ELSE namesFile
    /\ registersFile' = IF inHand' = NoBlock THEN registers' ELSE registersFile
    /\ UNCHANGED <<nameChain, sending, restarts, taken>>

\* A block without transactions saves nothing.
LearnNothing ==
    /\ inHand.step = "learning" /\ inHand.txs = << >>
    /\ inHand' = NoBlock
    /\ UNCHANGED <<book, namesFile, registers, registersFile, nameChain, sending, restarts,
                   taken>>
-----------------------------------------------------------------------------
FaultyRestored(names, blocks) == AbsorbFile(<< >>, names)

\* restore_chain: names.json first, then the blocks over it.
Restored(names, blocks) == ReplayNames(AbsorbFile(<< >>, names), blocks)

\* load_mempool looks at coins, not at names: it drops what is mined, and a
\* register whose coins are spent or not there yet, while its row stays where it
\* is.  Which ones the coins decide: any of them, and so those that mempool.json
\* did not list beyond its first 1000.
Reloaded(blocks) == SUBSET (registersFile \ MinedNames(blocks))

\* A start at any point, with names.json or without it (a fresh node has none,
\* and one that cannot be parsed is passed over).
RestartNames ==
    /\ restarts < MaxRestarts /\ restarts' = restarts + 1
    /\ \E names \in {namesFile, << >>} :
         /\ namesFile' = names
         /\ book' = Restored(names, nameChain)
    /\ registers' \in Reloaded(nameChain) /\ registersFile' = registers'
    /\ sending' = {} /\ inHand' = NoBlock
    /\ UNCHANGED <<nameChain, taken>>

\* rpc_replay_chain at an ancestor, for an adoption: the book is not cleared.
Rewind ==
    /\ restarts < MaxRestarts /\ restarts' = restarts + 1
    /\ inHand = NoBlock
    /\ \E h \in 0..(Len(nameChain) - 1) :
         /\ nameChain' = SubSeq(nameChain, 1, h)
         /\ book' = ReplayNames(book, nameChain')
    /\ registers' \in Reloaded(nameChain') /\ registersFile' = registers'
    /\ UNCHANGED <<namesFile, sending, inHand, taken>>
-----------------------------------------------------------------------------
(* names.json while the daemon runs *)

\* A query (namelookup, the balance of a name) and every report to the bootstrap
\* registry load the file over the book, holding no g_chain_mu.
ReloadNames ==
    /\ book' = AbsorbFile(book, namesFile)
    /\ UNCHANGED <<namesFile, registers, registersFile, nameChain, sending, inHand, restarts,
                   taken>>

\* write_grant of the wallet: a reserved name gets the address the operator
\* gives it, in the rows of reserved names.
Granted(rows, row) ==
    IF Named(rows, row.name) = {}
    THEN FoldLeft(AddReserved, << >>, rows) \o <<row>> \o FoldLeft(AddOther, << >>, rows)
    ELSE SetRow(rows, row)

WriteGrant(t) ==
    /\ NameOf[t] \in Reserved
    /\ namesFile' = Granted(namesFile, RowOf(t))
    /\ UNCHANGED <<book, registers, registersFile, nameChain, sending, inHand, restarts,
                   taken>>
-----------------------------------------------------------------------------
NamesNext ==
    \/ \E t \in Registers : AdmitSend(t) \/ RememberSend(t) \/ WriteGrant(t)
    \/ \E local \in BOOLEAN : AdmitBlock(local)
    \/ StoreBlock \/ LearnName \/ LearnNothing
    \/ RestartNames \/ Rewind \/ ReloadNames

NamesSpec == NamesInit /\ [][NamesNext]_nameVars
-----------------------------------------------------------------------------
(* Properties *)

\* One address to a name and one name to an address, through sends that race,
\* blocks of peers that overwrite, snapshots, restarts and rewinds.
BookOneToOne ==
    \A i, j \in DOMAIN book :
      i # j => book[i].name # book[j].name /\ book[i].addr # book[j].addr

RowsIn(txs) == {RowOf(t) : t \in txs}

\* What the blocks say of names: their registers and their snapshots.
ChainRows(blocks) ==
    RowsIn(MinedNames(blocks)) \union UNION {ToSet(b.names) : b \in ToSet(blocks)}

\* What an operator may write.
GrantRows ==
    RowsIn({t \in Registers : NameOf[t] \in Reserved}) \union UNION {ToSet(g) : g \in Grants}

\* No row has the name of t and another address, or its address and another name.
Undisputed(t, rows) == \A row \in rows : row.name = NameOf[t] <=> row.addr = AddrOf[t]

\* The registers submitblock has stored and not remembered yet.
Unlearnt == IF inHand.step = "learning" THEN ToSet(inHand.txs) ELSE {}

\* A mined register has its name, whatever the process lost after storing the
\* block, whatever it starts from and however far it rewinds: unless a grant or
\* another register that left a row, in the mempool still or not, has its name or
\* its address.
MinedNameHeld ==
    \A t \in MinedNames(nameChain) \ Unlearnt :
      Undisputed(t, GrantRows \union RowsIn(taken)) => RowOf(t) \in ToSet(book)

\* A name held by the address that mined it stays with it, over blocks, races,
\* rewinds and starts with or without names.json, while neither the blocks, their
\* snapshots nor names.json give the name or the address to another.
MinedNameKept ==
    [][\A t \in MinedNames(nameChain) \intersect MinedNames(nameChain') :
         RowOf(t) \in ToSet(book) /\ Undisputed(t, ToSet(namesFile) \union ChainRows(nameChain'))
           => RowOf(t) \in ToSet(book')]_nameVars

\* README.md: "Shortnames are unique."  The chain gives a name to one address.
NamesUnique ==
    \A t, u \in MinedNames(nameChain) : NameOf[t] = NameOf[u] => AddrOf[t] = AddrOf[u]
=============================================================================
