---------------------------- MODULE MCFlagBook -----------------------------
(***************************************************************************)
(* FlagBook with 64-bit amounts cut to 0..1023: a flag with two claims, a  *)
(* second create of the same id, an unlimited flag, and creates at and     *)
(* above the limit of the lock.                                            *)
(***************************************************************************)
EXTENDS FlagBook, TLC

CONSTANTS f, g, h, k, ada, ben, cat, t1, t2, t3, t4, t5, u1, u2, u3, u4, u5

Made(flag, tx, max, bounty, expires) ==
    [flag |-> flag, txid |-> tx, awards |-> k, max |-> max, bounty |-> bounty,
     expires |-> expires]

MCCreates ==
    {Made(f, t1, 2, 3, 2), Made(f, t2, 1, 3, 0), Made(g, t3, 0, 0, 0),
     Made(h, t4, 2, 512, 0), Made(h, t5, 3, 341, 0)}

Paid(flag, tx, who, signer) ==
    [flag |-> flag, txid |-> tx, who |-> who, signer |-> signer]

MCClaims ==
    {Paid(f, u1, ada, k), Paid(f, u2, ada, k), Paid(f, u3, ben, k),
     Paid(f, u4, cat, k), Paid(g, u5, ada, ben)} \union
    {Paid(h, <<u1, w>>, w, k) : w \in {ada, ben, cat}}
=============================================================================
