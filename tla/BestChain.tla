----------------------------- MODULE BestChain -----------------------------
(***************************************************************************)
(* What a PiSecure node promises about its ledger, with no storage, peers  *)
(* or replays in sight: there is one committed chain; it is always a valid *)
(* one; while the node runs it only gives way to a strictly taller chain;  *)
(* and a restart never comes back with a shorter one.  NodeChain           *)
(* implements this specification.                                          *)
(***************************************************************************)
EXTENDS Naturals, Sequences

CONSTANTS
    Blocks,  \* every block any node can produce
    Branch,  \* Branch[b]: the chain from height 1 up to and including b
    Bad      \* blocks that fail the content rules on top of their parent

\* The three are NodeChain's, with the assumptions NodeChain makes of them.

VARIABLES
    chain,  \* the committed chain: chain[h] is the block at height h
    up      \* the daemon is running

chainVars == <<chain, up>>

\* Every block of the chain that ends at b passes the content rules.
Sound(b) == \A i \in 1..Len(Branch[b]) : Branch[b][i] \notin Bad

Init ==
    /\ chain = << >>
    /\ up = TRUE

\* A block extends the tip, or a strictly taller peer chain replaces it.
Move ==
    /\ up
    /\ \E b \in Blocks :
         /\ Sound(b)
         /\ Len(Branch[b]) > Len(chain)
         /\ chain' = Branch[b]
    /\ UNCHANGED up

Stop ==
    /\ up
    /\ up' = FALSE
    /\ UNCHANGED chain

\* A restart picks a longest chain found on disk.  Chains of equal height are
\* told apart by their place on disk, so the tip may change but the height
\* may not shrink.
Recover ==
    /\ ~up
    /\ up' = TRUE
    /\ \/ UNCHANGED chain
       \/ \E b \in Blocks :
            /\ Sound(b)
            /\ Len(Branch[b]) >= Len(chain)
            /\ chain' = Branch[b]

Next == Move \/ Stop \/ Recover

Spec == Init /\ [][Next]_chainVars
=============================================================================
