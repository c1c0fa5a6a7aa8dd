SPECIFICATION BlockSpec
CONSTANTS
    NoBlock = NoBlock
    NoAddress = NoAddress
    Deleted = Deleted
    g = g
    p = p
    a2 = a2
    a3 = a3
    b2 = b2
    b3 = b3
    x = x
    y = y
    Genesis = g
    Addresses = {x, y}
    Blocks <- ForkBlocks
    Parent <- ForkParent
    Height <- ForkHeight
    TxsOf <- TwoBranchTxs
    Ins <- TwoBranchIns
    Outs <- TwoPayeesOuts
    Removals = 2
    Crashes = 1
    Queries = 1
    Pending <- InMempool
INVARIANT LookupTypeOK
INVARIANT OperationsExact
INVARIANT OperationsSound
INVARIANT IndexedNotRefused
