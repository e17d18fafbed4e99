CONSTANTS
    p = p q = q g = g a2 = a2 b2 = b2 b3 = b3 b4 = b4
    Nodes = {p, q}  Nobody = Nobody
    Blocks = {g, a2, b2, b3, b4}
    AheadTips = {b3, b4}
    MaxHeaders = 3
    MaxLocator = 2
    MaxHeld = 2 MaxRefused = 1
    MaxMishaps = 1
    MaxWire = 1
    Branch <- MCBranch
    Links <- MCLinks
    Start <- MCStart
    Forsaken <- MCForsaken
    silent = silent near = near extra = extra
    Addrs = {silent, near, extra}
    Peers = {silent}
    Directory = {extra}
    Told = {near}
    Conn = Conn Beat = Beat Msg = Msg Free = Free
    MaxOutbound = 1
    MaxPeers = 1
    SelectBelow = 1
    BanAt = 2
    Kind <- MCKind
    Host <- MCHost
    MaxLost = 3 MaxChanges = 3
    MaxTag = 3 MaxFailures = 2
    P2PThreads = {dial, other} Dialers = {dial} HttpClients = {web, app, mute} Silent = {mute}
SPECIFICATION NetworkSpec
INVARIANTS NetworkTypeOK RequestIsAnswered ConnectionsBounded ImageWhole
PROPERTIES PeersCatchUp ListedNodeDialed DirectorySettled ReleaseInstalled StopsInTime HttpServed
CHECK_DEADLOCK FALSE
