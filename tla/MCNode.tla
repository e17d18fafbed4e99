------------------------------- MODULE MCNode -------------------------------
(***************************************************************************)
(* The parts of one node and its wallet that keep state of their own, each *)
(* checked from its initial state with the others at rest.  They share no  *)
(* variable, so a part moves alone: nothing another part does could change *)
(* what it does next.  The ledger is checked twice: one call at a time     *)
(* with every kind of transaction, and with calls that race over spends.   *)
(* Its mempool outgrows a listing where there are only spends in it.       *)
(***************************************************************************)
EXTENDS MCFlagBook, MCBlockFile, MCLedger, MCNames, MCWallet, MCWsServer,
        Challenges, Purse

CONSTANTS
    ws, p2p,   \* the threads of the ledger
    RacingTxs, \* the transactions its racing calls are about
    CrowdTxs   \* the transactions more than a listing holds are taken from

VARIABLE part   \* the part that moves

Parts == {"flags", "blocks", "serial ledger", "racing ledger", "names",
          "wallet", "ws", "challenges", "purse"}

nodeVars == <<part, flagVars, blockVars, ledgerVars, nameVars, walletVars,
              wsVars, challengeVars, purseVars>>

NodeInit ==
    /\ part \in Parts
    /\ FlagInit /\ BlockInit /\ LedgerInit /\ NamesInit /\ WalletInit
    /\ WsInit /\ ChallengeInit /\ PurseInit
    /\ part # "names" => book = << >>
    /\ part # "challenges" => now = 0

Rests(parts, variables) == part \in parts \/ UNCHANGED variables

\* Racing calls are about spends only; the others come one after the other.  A
\* mempool with more than a listing has, and the chain with it, are of CrowdTxs.
Kept ==
    IF part = "racing ledger"
    THEN \A s \in Threads :
           LET c == th'[s] IN CASE c.pc \in {"check", "add"} -> c.tx \in RacingTxs
                                [] c.pc = "apply" -> ToSet(c.txs) \subseteq RacingTxs
                                [] OTHER -> TRUE
    ELSE /\ th'[p2p] = th[p2p]
         /\ Cardinality(pool') > ListLimit => pool' \union Mined' \subseteq CrowdTxs

NodeNext ==
    /\ UNCHANGED part
    /\ \/ part = "flags" /\ FlagNext
       \/ part = "blocks" /\ BlockNext
       \/ part \in {"serial ledger", "racing ledger"} /\ LedgerNext /\ Kept
       \/ part = "names" /\ NamesNext
       \/ part = "wallet" /\ WalletNext
       \/ part = "ws" /\ WsNext
       \/ part = "challenges" /\ ChallengeNext
       \/ part = "purse" /\ PurseNext
    /\ Rests({"flags"}, flagVars) /\ Rests({"blocks"}, blockVars)
    /\ Rests({"serial ledger", "racing ledger"}, ledgerVars)
    /\ Rests({"names"}, nameVars) /\ Rests({"wallet"}, walletVars)
    /\ Rests({"ws"}, wsVars) /\ Rests({"challenges"}, challengeVars)
    /\ Rests({"purse"}, purseVars)

NodeSpec == NodeInit /\ [][NodeNext]_nodeVars
-----------------------------------------------------------------------------
(* Properties *)

\* Every part keeps its types.
NodeTypeOK ==
    /\ part \in Parts
    /\ FlagTypeOK /\ BlockTypeOK /\ LedgerTypeOK /\ NamesTypeOK /\ WalletTypeOK
    /\ WsTypeOK /\ ChallengeTypeOK /\ PurseTypeOK
=============================================================================
