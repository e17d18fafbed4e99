------------------------------- MODULE Wallet -------------------------------
(***************************************************************************)
(* pswallet spending from one address: each command reads the unit of the  *)
(* chain, lists the address's coins, reads the mempool, picks coins, signs *)
(* and sends, with blocks and other commands between any two of these      *)
(* calls.  The node is what its answers make of it: the unspent outputs,   *)
(* the mempool, and the judgement of sendtransaction.  At height           *)
(* Activation a stored unit becomes a pi; an older unit is worth           *)
(* PiPerOldUnit.  A command makes one transaction and stands for its txid; *)
(* keys, names and the text of amounts are left out.                       *)
(***************************************************************************)
EXTENDS Naturals, FiniteSets, Sequences, SequencesExt, FiniteSetsExt, Functions

CONSTANTS
    Commands,      \* the commands run, each once
    Me, Other,     \* the address the commands spend from; any other
    Coinbases,     \* Coinbases[c]: stored value of a coin of Me at the start
    Amounts,       \* what may be typed, in pi
    TypedFees,     \* the fees that may be typed, in pi
    PiPerOldUnit,  \* 1000
    MinFeePi,      \* the least fee from Activation on (314; 1 before)
    Activation,    \* kPiActivationHeight (3000)
    MaxInputs,     \* inputs of a transaction (200)
    MaxTipHeight   \* bound: the tip starts two below Activation

ASSUME WalletAssumption ==
    /\ Me # Other
    /\ Commands \intersect DOMAIN Coinbases = {}
    /\ IsFiniteSet(DOMAIN Coinbases) /\ Coinbases \in [DOMAIN Coinbases -> Nat \ {0}]
    /\ Amounts \union TypedFees \subseteq Nat \ {0}
    /\ {PiPerOldUnit, MinFeePi, Activation, MaxInputs, MaxTipHeight} \subseteq Nat \ {0}
    /\ Activation > 2 /\ Activation <= MaxTipHeight + 2 /\ MinFeePi <= PiPerOldUnit

VARIABLES
    tipHeight,  \* of the tip
    unspent,    \* utxo_: each unspent outpoint's owner, stored value and height
    mempool,    \* the commands whose transaction is in mempool_
    leaving,    \* those a block just stored still has to take out of it
    signed,     \* signed[c]: the transaction c signed
    mined,      \* mined[c]: the height of the block with the transaction of c
    call        \* call[c]: where command c is

walletVars == <<tipHeight, unspent, mempool, leaving, signed, mined, call>>

FlagKinds == {"createflag", "claimflag"}
Kinds == {"send", "consolidate", "register"} \union FlagKinds
NoTx == [kind |-> "none", ins |-> << >>, outs |-> << >>, fee |-> 0, scale |-> 0, typed |-> 0]
AtStart == [step |-> "start", kind |-> "none", scale |-> 0, pay |-> 0, fee |-> 0,
            typed |-> 0, rows |-> {}, late |-> FALSE]

WalletInit ==
    /\ tipHeight = Activation - 2
    /\ unspent = [o \in {<<c, 1>> : c \in DOMAIN Coinbases} |->
                    [addr |-> Me, value |-> Coinbases[o[1]], born |-> 1]]
    /\ mempool = {} /\ leaving = {}
    /\ signed = [c \in Commands |-> NoTx]
    /\ mined = << >>
    /\ call = [c \in Commands |-> AtStart]
-----------------------------------------------------------------------------
(* Amounts *)

\* amount_scale: what one stored unit is worth at the next block.
UnitAt(h) == IF h >= Activation THEN 1 ELSE PiPerOldUnit

FaultyLeastFee(h) == 1

\* min_fee_for_height
LeastFee(h) == IF h >= Activation THEN MinFeePi ELSE 1

\* stored_to_pi: a value in pi, by the height of its block.
Pi(value, born) == value * UnitAt(born)

Add(value, sum) == value + sum

Summed(values) == FoldLeft(Add, 0, values)

Worth(values) == FoldFunction(Add, 0, values)

\* The worth of a value to a spend at height h (check_spendable).
WorthAt(value, born, h) == IF h >= Activation THEN Pi(value, born) ELSE value
-----------------------------------------------------------------------------
(* The node *)

Pending == UNION {{<<c, i>> : i \in DOMAIN signed[c].outs} : c \in mempool}
Spent == UNION {ToSet(signed[c].ins) : c \in mempool}

\* find_outpoint: unspent, or an output of the mempool, taken as it is.
Known == DOMAIN unspent \union Pending
ValueAt(o, h) ==
    IF o \in DOMAIN unspent THEN WorthAt(unspent[o].value, unspent[o].born, h)
    ELSE signed[o[1]].outs[o[2]].value

OutSum(tx) == Summed([i \in DOMAIN tx.outs |-> tx.outs[i].value])

InSum(tx, h) == Summed([i \in DOMAIN tx.ins |-> ValueAt(tx.ins[i], h)])

\* parse_user_tx asks a name of every typed transaction: the wallet gives none
\* with a flag.
WellFormed(tx) == tx.kind \notin FlagKinds

\* check_spendable, less the inputs spent by earlier transactions.
Funded(tx, h) ==
    /\ WellFormed(tx)
    /\ tx.fee >= LeastFee(h)
    /\ ToSet(tx.ins) \subseteq Known
    /\ OutSum(tx) + tx.fee <= InSum(tx, h)
-----------------------------------------------------------------------------
(* A command *)

Step(c, s) == call' = [call EXCEPT ![c] = s]
Ends(c, how) ==
    Step(c, [AtStart EXCEPT !.step = how, !.kind = call[c].kind, !.late = call[c].late])

\* load_money, parse_amount and parse_fee: before Activation an amount is a
\* multiple of the old unit.  register and flag pay a fixed fee.
Begin(c) ==
    /\ call[c].step = "start"
    /\ \E kind \in Kinds, typed \in Amounts, fee \in TypedFees :
         LET unit == UnitAt(tipHeight + 1)
             fixed == kind \in {"register"} \union FlagKinds
         IN  /\ kind \notin {"send", "createflag"} => typed = Min(Amounts)
             /\ fixed => fee = Min(TypedFees)
             /\ kind = "send" => typed % unit = 0
             /\ ~fixed => fee % unit = 0 /\ fee >= LeastFee(tipHeight + 1)
             /\ Step(c, [AtStart EXCEPT !.step = "list", !.kind = kind, !.scale = unit,
                          !.pay = IF kind \in FlagKinds THEN typed ELSE typed \div unit,
                          !.typed = typed,
                          !.fee = IF fixed THEN PiPerOldUnit \div unit ELSE fee \div unit])
    /\ UNCHANGED <<tipHeight, unspent, mempool, leaving, signed, mined>>

\* rpc_listunspent: the outputs of the address, with their value in pi.
ListedUnspent ==
    {[at |-> o, pi |-> Pi(unspent[o].value, unspent[o].born)] :
       o \in {u \in DOMAIN unspent : unspent[u].addr = Me}}

\* The wallet counts in the unit it read: a coin that is no multiple of it ends
\* the command (coin_from_row, set_worth).
ListUnspent(c) ==
    /\ call[c].step = "list"
    /\ IF \E r \in ListedUnspent : r.pi % call[c].scale # 0 THEN Ends(c, "failed")
       ELSE Step(c, [call[c] EXCEPT !.step = "pick",
              !.rows = {[at |-> r.at, worth |-> r.pi \div call[c].scale] : r \in ListedUnspent}])
    /\ UNCHANGED <<tipHeight, unspent, mempool, leaving, signed, mined>>

FaultyUnreserved(c) == call[c].rows

\* The listed coins no transaction of the mempool spends.
Unreserved(c) == {r \in call[c].rows : r.at \notin Spent}

Listed(c, o) == \E r \in call[c].rows : r.at = o

\* coins_for adds the address's outputs in the mempool, each as it stands; one
\* listed already (its block was just stored) is not added again.
PendingCoins(c) ==
    {[at |-> o, worth |-> signed[o[1]].outs[o[2]].value, pool |-> TRUE] :
       o \in {p \in Pending \ Spent : signed[p[1]].outs[p[2]].addr = Me /\ ~Listed(c, p)}}

Coins(c) == Unreserved(c) \union PendingCoins(c)

\* std::sort, which leaves equal coins in any order.
Sorted(S, down) ==
    {q \in SetToSeqs(S) : \A i \in 1..(Len(q) - 1) :
       IF down THEN q[i].worth >= q[i + 1].worth ELSE q[i].worth <= q[i + 1].worth}

InAll(q) == Summed([i \in DOMAIN q |-> q[i].worth])

\* take_units: the largest coins of a block until they cover the need.
LargestFirst(c, need) ==
    LET starts(q) == {SubSeq(q, 1, n) : n \in 1..Min({Len(q), MaxInputs})}
    IN  {t \in UNION {starts(q) : q \in Sorted(Unreserved(c), TRUE)} :
           InAll(t) >= need /\ InAll(Front(t)) < need}

\* Change goes back to the address, unless there is none.
Change(q, need) ==
    IF InAll(q) > need THEN <<[addr |-> Me, value |-> InAll(q) - need]>> ELSE << >>

ToOther(c) == <<[addr |-> Other, value |-> call[c].pay]>>

Plan(q, outs) == [ins |-> [i \in DOMAIN q |-> q[i].at], outs |-> outs]

SendPlans(c) ==
    LET need == call[c].pay + call[c].fee
    IN  {Plan(q, ToOther(c) \o Change(q, need)) : q \in LargestFirst(c, need)}

\* cmd_consolidate: the smallest coins, two or more, pending ones too, into one.
ConsolidatePlans(c) ==
    LET n == Min({MaxInputs, Cardinality(Coins(c))})
        smallest == {SubSeq(q, 1, n) : q \in Sorted(Coins(c), FALSE)}
    IN  {Plan(q, Change(q, call[c].fee)) :
           q \in {t \in smallest : n >= 2 /\ InAll(t) > call[c].fee}}

\* cmd_register: the first coin of twice the fee, those in a block first.
RegisterPlans(c) ==
    LET fit == {r \in Coins(c) : r.worth >= 2 * call[c].fee}
        first == {r \in fit : r \in Unreserved(c)}
    IN  {Plan(<<r>>, Change(<<r>>, call[c].fee)) : r \in IF first = {} THEN fit ELSE first}

\* cmd_flag_create locks the bounties; what is locked has no output.
CreateFlagPlans(c) ==
    LET need == call[c].pay + call[c].fee
    IN  {Plan(q, Change(q, need)) : q \in LargestFirst(c, need)}

\* cmd_flag_claim pays the bounty out of the escrow.
ClaimFlagPlans(c) ==
    {Plan(q, ToOther(c) \o Change(q, call[c].fee)) : q \in LargestFirst(c, call[c].fee)}

Plans(c) ==
    CASE call[c].kind = "send"        -> SendPlans(c)
      [] call[c].kind = "consolidate" -> ConsolidatePlans(c)
      [] call[c].kind = "register"    -> RegisterPlans(c)
      [] call[c].kind = "createflag"  -> CreateFlagPlans(c)
      [] call[c].kind = "claimflag"   -> ClaimFlagPlans(c)

\* getmempool; then the transaction is made and signed.
Pick(c) ==
    /\ call[c].step = "pick"
    /\ \/ /\ Plans(c) = {} /\ Ends(c, "failed")
          /\ UNCHANGED signed
       \/ \E plan \in Plans(c) :
            /\ signed' = [signed EXCEPT ![c] =
                 [kind |-> call[c].kind, ins |-> plan.ins, outs |-> plan.outs,
                  fee |-> call[c].fee, scale |-> call[c].scale, typed |-> call[c].typed]]
            /\ Step(c, [call[c] EXCEPT !.step = "send", !.rows = {}])
    /\ UNCHANGED <<tipHeight, unspent, mempool, leaving, mined>>

\* The others have read something this call changes.
Outdates(S) == [d \in Commands |-> IF d \in S /\ call[d].step \in {"list", "pick", "send"}
                                   THEN [call[d] EXCEPT !.late = TRUE] ELSE call[d]]

\* sendtransaction
Send(c) ==
    /\ call[c].step = "send"
    /\ IF Funded(signed[c], tipHeight + 1) /\ ToSet(signed[c].ins) \intersect Spent = {}
       THEN /\ mempool' = mempool \union {c}
            /\ call' = [Outdates(Commands \ {c}) EXCEPT ![c].step = "accepted"]
       ELSE Ends(c, "refused") /\ UNCHANGED mempool
    /\ UNCHANGED <<tipHeight, unspent, leaving, signed, mined>>
-----------------------------------------------------------------------------
(* Blocks *)

\* What a block may hold: transactions that are funded at its height, with those
\* whose outputs they spend.
Mineable(S) ==
    \A c \in S :
      /\ Funded(signed[c], tipHeight + 1)
      /\ \A i \in DOMAIN signed[c].ins :
           signed[c].ins[i] \in DOMAIN unspent \/ signed[c].ins[i][1] \in S

\* submitblock stores the block and its outputs ...
Mine ==
    /\ leaving = {} /\ tipHeight < MaxTipHeight
    /\ \E S \in SUBSET mempool :
         /\ Mineable(S)
         /\ LET new == UNION {{<<c, i>> : i \in DOMAIN signed[c].outs} : c \in S}
                gone == UNION {ToSet(signed[c].ins) : c \in S}
            IN  unspent' = [o \in (DOMAIN unspent \union new) \ gone |->
                  IF o \in DOMAIN unspent THEN unspent[o]
                  ELSE [addr |-> signed[o[1]].outs[o[2]].addr,
                        value |-> signed[o[1]].outs[o[2]].value, born |-> tipHeight + 1]]
         /\ leaving' = S
         /\ mined' = [c \in DOMAIN mined \union S |->
                        IF c \in S THEN tipHeight + 1 ELSE mined[c]]
    /\ tipHeight' = tipHeight + 1
    /\ call' = Outdates(Commands)
    /\ UNCHANGED <<mempool, signed>>

\* ... and takes its transactions out of the mempool, in view of a wallet.
Clear ==
    /\ leaving # {}
    /\ mempool' = mempool \ leaving
    /\ leaving' = {}
    /\ UNCHANGED <<tipHeight, unspent, signed, mined, call>>
-----------------------------------------------------------------------------
WalletNext ==
    \/ \E c \in Commands : Begin(c) \/ ListUnspent(c) \/ Pick(c) \/ Send(c)
    \/ Mine \/ Clear

WalletSpec == WalletInit /\ [][WalletNext]_walletVars
-----------------------------------------------------------------------------
(* Properties *)

WalletTypeOK ==
    /\ tipHeight \in (Activation - 2)..MaxTipHeight
    /\ \A o \in DOMAIN unspent :
         unspent[o] \in [addr : {Me, Other}, value : Nat \ {0}, born : 1..MaxTipHeight]
    /\ leaving \subseteq mempool /\ mempool \subseteq Commands
    /\ mined \in [DOMAIN mined -> 1..MaxTipHeight] /\ DOMAIN mined \subseteq Commands
    /\ \A c \in Commands :
         /\ signed[c].kind \in Kinds \union {"none"}
         /\ ToSet(signed[c].ins) \subseteq (Commands \union DOMAIN Coinbases) \X (Nat \ {0})
         /\ call[c].step \in {"start", "list", "pick", "send", "accepted", "refused", "failed"}

\* An old transaction mined as a new one: its amounts count for less.
Crossed(c) == signed[c].scale # 1 /\ mined[c] >= Activation

\* What the chain holds and the fees it took are what the address began with,
\* in pi, through sends, consolidations and registers racing each other and the
\* change of unit.  Only a fee of MinFeePi old units or more can lose money: the
\* least fee keeps every other old transaction out of the new blocks.
WealthKept ==
    (\A c \in DOMAIN mined : Crossed(c) => signed[c].fee < MinFeePi) =>
      LET held == [o \in DOMAIN unspent |-> Pi(unspent[o].value, unspent[o].born)]
          fees == [c \in DOMAIN mined |-> Pi(signed[c].fee, mined[c])]
          begun == [c \in DOMAIN Coinbases |-> Pi(Coinbases[c], 1)]
      IN  Worth(held) + Worth(fees) = Worth(begun)

\* A command is refused only when a block or another command's spend came
\* between its calls (or it is a flag): alone, the coins it picks are good.
AloneAccepted ==
    \A c \in Commands : call[c].step = "refused" => call[c].late \/ call[c].kind \in FlagKinds

\* PI5_PISECURED.md: "CLI amounts are 314ST with six decimal places. 0.216000 is
\* 216000 pi."  A send that is mined pays what was typed.
AmountAsTyped ==
    \A c \in DOMAIN mined :
      signed[c].kind = "send" => Pi(signed[c].outs[1].value, mined[c]) = signed[c].typed
=============================================================================
