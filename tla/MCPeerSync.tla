---------------------------- MODULE MCPeerSync -----------------------------
(***************************************************************************)
(* Two nodes on a tree with a fork at height 2; node p dials node q.       *)
(***************************************************************************)
EXTENDS PeerSync, TLC

CONSTANTS p, q, g, a2, b2, b3, b4, AheadTips

Tree ==
    g  :> <<g>> @@ a2 :> <<g, a2>> @@
    b2 :> <<g, b2>> @@ b3 :> <<g, b2, b3>> @@ b4 :> <<g, b2, b3, b4>>

MCBranch == [b \in Blocks |-> Tree[b]]
MCLinks == {<<p, q>>}
MCForsaken == p :> {} @@ q :> {a2}
MCStart == p :> ({g, a2} \intersect Blocks) @@ q :> (AheadTips \intersect Blocks)
=============================================================================
