---------------------------- MODULE MCNodeChain ----------------------------
(***************************************************************************)
(* A block tree for NodeChain: one genesis block g, a branch of two        *)
(* blocks, and a branch that can grow to height 4.                         *)
(***************************************************************************)
EXTENDS NodeChain, TLC

CONSTANTS g, a2, a3, b2, b3, b4, x3

\* g is height 1.  x3 is a bad block on b2.
Tree ==
    g  :> <<g>> @@
    a2 :> <<g, a2>> @@ a3 :> <<g, a2, a3>> @@
    b2 :> <<g, b2>> @@ b3 :> <<g, b2, b3>> @@ b4 :> <<g, b2, b3, b4>> @@
    x3 :> <<g, b2, x3>>

\* The part of the tree a run uses.
MCBranch == [b \in Blocks |-> Tree[b]]
=============================================================================
