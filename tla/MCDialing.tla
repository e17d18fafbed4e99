----------------------------- MODULE MCDialing ------------------------------
(***************************************************************************)
(* One peer that never answers, one that refuses or the node itself, and   *)
(* one that joins the directory later.                                     *)
(***************************************************************************)
EXTENDS Dialing, TLC

CONSTANTS silent, near, extra

MCKind == silent :> "public" @@ near :> "lan" @@ extra :> "public"
MCHost == silent :> "silent" @@ near :> "refuses" @@ extra :> "answers"
=============================================================================
