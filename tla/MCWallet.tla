------------------------------ MODULE MCWallet ------------------------------
(***************************************************************************)
(* Wallet with two coins and two commands; an old unit is worth four pi,   *)
(* and the least new fee is three.                                         *)
(***************************************************************************)
EXTENDS Wallet, TLC

CONSTANTS cmd1, cmd2, cb1, cb2

MCCoinbases == (cb1 :> 5) @@ (cb2 :> 3)
=============================================================================
