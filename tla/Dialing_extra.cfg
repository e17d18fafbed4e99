CONSTANTS
    silent = silent near = near extra = extra
    Addrs = {silent, near, extra}
    Peers = {silent}
    Directory = {extra}
    Told = {near}
    Conn = Conn Beat = Beat Msg = Msg Free = Free
    MaxOutbound = 4
    MaxPeers = 1
    SelectBelow = 1
    BanAt = 2
    Kind <- MCKind
    Host <- MCHost
SPECIFICATION DialFairSpec
PROPERTIES ExtraNodeDialed
CHECK_DEADLOCK FALSE
