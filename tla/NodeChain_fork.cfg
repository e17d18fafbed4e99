\* Two branches that overtake each other up to height 3, with a bad block on the
\* longer one and a tip stamped ahead of the clock.
CONSTANTS
    g = g a2 = a2 a3 = a3 b2 = b2 b3 = b3 b4 = b4 x3 = x3
    Blocks = {g, a2, b2, b3, x3}
    Bad = {x3}
    Ahead = {b3}
    MaxHeld = 3
    MaxRefused = 2
    Branch <- MCBranch
SPECIFICATION FairSpec
INVARIANTS TypeOK DiskClosed IndexMatchesDisk AdoptionIntact RejectedForCause
PROPERTIES RestartTakesTallest BestChainSpec HeldTipSettles
