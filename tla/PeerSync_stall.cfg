\* A fork that one HEADERS message does not carry past the node's own height,
\* deeper than its locator reaches.
CONSTANTS
    p = p q = q g = g a2 = a2 b2 = b2 b3 = b3 b4 = b4
    Nodes = {p, q}  Nobody = Nobody
    Blocks = {g, a2, b2, b3}
    AheadTips = {b3}
    MaxHeaders = 2
    MaxLocator = 1
    MaxHeld = 2 MaxRefused = 1
    MaxMishaps = 0
    MaxWire = 1
    Branch <- MCBranch
    Links <- MCLinks
    Start <- MCStart
    Forsaken <- MCForsaken
SPECIFICATION PeerFairSpec
PROPERTIES TallerPeerWins
CHECK_DEADLOCK FALSE
