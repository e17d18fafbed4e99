\* A valid, strictly taller peer branch is refused.
CONSTANTS
    g = g a2 = a2 a3 = a3 b2 = b2 b3 = b3 b4 = b4 x3 = x3
    Blocks = {g, b2, b3, b4, x3}
    Bad = {x3}
    Ahead = {}
    MaxHeld = 3
    MaxRefused = 2
    Branch <- MCBranch
SPECIFICATION Spec
INVARIANTS NoValidTipRefused
