CONSTANTS
    cmd1 = cmd1 cmd2 = cmd2 cb1 = cb1 cb2 = cb2
    Commands = {cmd1, cmd2}
    Me = me Other = other
    Coinbases <- MCCoinbases
    Amounts = {4, 6}
    TypedFees = {4, 12}
    PiPerOldUnit = 4
    MinFeePi = 3
    Activation = 4
    MaxInputs = 3
    MaxTipHeight = 5
SPECIFICATION WalletSpec
INVARIANT AmountAsTyped
CHECK_DEADLOCK FALSE
