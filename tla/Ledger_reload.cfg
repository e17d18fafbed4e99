CONSTANTS
    pay1 = pay1 pay2 = pay2 rival = rival blank = blank
    create = create unfunded = unfunded won = won lost = lost
    flag = flag key = key ann = ann bob = bob
    UMax = 1023
    Def <- MCDef
    Txs = {pay1, pay2}
    Senders = {ws}
    Submitters = {ws}
    Subsidy = 3
    MinFee = 1
    ListLimit = 2
    MaxHeight = 2
    MaxBlockTxs = 2
SPECIFICATION LedgerSpec
PROPERTY SpendsReloaded
