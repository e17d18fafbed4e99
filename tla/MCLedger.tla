------------------------------ MODULE MCLedger ------------------------------
(***************************************************************************)
(* Ledger with a handful of transactions.  pay1 and rival spend the first  *)
(* coinbase, which rival lists twice; pay2 spends the output of pay1, and  *)
(* blank has no inputs.                                                    *)
(* create makes a flag with one claim of one unit, unfunded does the same  *)
(* but does not fund the bounty, and won and lost are claims of it.        *)
(***************************************************************************)
EXTENDS Ledger

CONSTANTS pay1, pay2, rival, blank, create, unfunded, won, lost, flag, key, ann, bob

Pay(ins, outs, fee) ==
    [ins |-> ins, outs |-> outs, fee |-> fee, kind |-> "pay", act |-> "none",
     pays |-> << >>]

Make(t, ins, outs) ==
    [ins |-> ins, outs |-> outs, fee |-> 1, kind |-> "create", pays |-> << >>,
     act |-> [flag |-> flag, txid |-> t, awards |-> key, max |-> 1, bounty |-> 1,
              expires |-> 0]]

Win(t, ins, outs, who) ==
    [ins |-> ins, outs |-> outs, fee |-> 1, kind |-> "claim", pays |-> <<1>>,
     act |-> [flag |-> flag, txid |-> t, who |-> who, signer |-> key]]

MCDef ==
    (pay1 :> Pay(<<<<1, 1>>>>, <<2>>, 1)) @@
    (pay2 :> Pay(<<<<pay1, 1>>>>, <<1>>, 1)) @@
    (rival :> Pay(<<<<1, 1>>, <<1, 1>>>>, <<1>>, 2)) @@
    (blank :> Pay(<< >>, <<1>>, 1)) @@
    (create :> Make(create, <<<<1, 1>>>>, <<1>>)) @@
    (unfunded :> Make(unfunded, <<<<1, 1>>>>, <<2>>)) @@
    (won :> Win(won, <<<<2, 1>>>>, <<2, 1>>, ann)) @@
    (lost :> Win(lost, <<<<3, 1>>>>, <<2, 1>>, bob))
=============================================================================
