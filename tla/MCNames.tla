------------------------------ MODULE MCNames -------------------------------
(***************************************************************************)
(* Names with three registers: two names for amy, one of which bert asks   *)
(* for too.                                                                *)
(***************************************************************************)
EXTENDS Names, TLC

CONSTANTS ax, ay, by, x, y, amy, bert

MCNameOf == (ax :> x) @@ (ay :> y) @@ (by :> y)
MCAddrOf == (ax :> amy) @@ (ay :> amy) @@ (by :> bert)
MCGrants == {<< >>, <<[name |-> x, addr |-> amy]>>}
=============================================================================
