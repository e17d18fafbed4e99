---------------------------- MODULE MCBlockFile ----------------------------
(***************************************************************************)
(* BlockFile with a short and a long block.                                *)
(***************************************************************************)
EXTENDS BlockFile, TLC

CONSTANTS small, large

MCSize == (small :> 1) @@ (large :> 3)
=============================================================================
