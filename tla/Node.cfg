CONSTANTS
    f = f g = g h = h k = k ada = ada ben = ben cat = cat
    t1 = t1 t2 = t2 t3 = t3 t4 = t4 t5 = t5
    u1 = u1 u2 = u2 u3 = u3 u4 = u4 u5 = u5
    UMax = 1023
    MaxApply = 4
    Creates <- MCCreates
    Claims <- MCClaims
    small = small large = large
    Blocks = {small, large}
    Size <- MCSize
    MaxFileSize = 6
    MaxFiles = 2
    pay1 = pay1 pay2 = pay2 rival = rival blank = blank
    create = create unfunded = unfunded won = won lost = lost
    flag = flag key = key ann = ann bob = bob
    Def <- MCDef
    Txs = {pay1, pay2, rival, blank, create, unfunded, won, lost}
    Senders = {ws}
    Submitters = {ws, p2p}
    ws = ws p2p = p2p RacingTxs = {pay1, pay2, rival}
    CrowdTxs = {pay1, pay2, rival, blank}
    Subsidy = 3
    MinFee = 1
    ListLimit = 2
    MaxHeight = 3
    MaxBlockTxs = 2
    ax = ax ay = ay by = by x = x y = y amy = amy bert = bert
    Registers = {ax, ay, by}
    NameOf <- MCNameOf
    AddrOf <- MCAddrOf
    Reserved = {x}
    Grants <- MCGrants
    MaxRegisters = 2 MaxNameBlocks = 2 MaxRestarts = 1
    cmd1 = cmd1 cmd2 = cmd2 cb1 = cb1 cb2 = cb2
    Commands = {cmd1, cmd2}
    Me = me Other = other
    Coinbases <- MCCoinbases
    Amounts = {4, 6}
    TypedFees = {4, 12}
    PiPerOldUnit = 4
    MinFeePi = 3
    Activation = 4
    MaxInputs = 3
    MaxTipHeight = 5
    Clients = {c1} Requests = {"fits", "long", "spend", "join", "list"}
    SizeOf <- MCSizeOf KindOf <- MCKindOf MaxWs = 3 MaxTx = 1 Piece = 3 MaxSent = 2 MaxConnects = 2
    Miners = {ann, bob} First = 2 Ahead = 1 MaxTip = 3 MaxNow = 2 MaxRoots = 1 MaxChallenges = 4 MaxStarts = 1
    MaxRewardBlock = 2 MaxReward = 1 MaxFailures = 1 MaxCrashes = 2
SPECIFICATION NodeSpec
INVARIANTS NodeTypeOK EscrowBalances OneClaimEach OwnBlocksRead ScanResyncs UtxoMatchesChain SpentOnce NoMinting BookCoversChain SpendsRestorable FileMirrorsPool PoolStands   WealthKept AloneAccepted AnsweredOnceInOrder WorkStands PaidStaysPaid LastSaveFound
PROPERTY RecordedClaimStays 
CHECK_DEADLOCK FALSE
