SPECIFICATION Spec
CONSTANTS
    NoBlock = NoBlock
    NoAddress = NoAddress
    Deleted = Deleted
    g = g
    p = p
    a2 = a2
    a3 = a3
    b2 = b2
    b3 = b3
    x = x
    y = y
    Genesis = g
    Addresses = {x, y}
    Blocks <- AbortBlocks
    Parent <- AbortParent
    Height <- AbortHeight
    TxsOf <- AbortTxs
    Ins <- AbortIns
    Outs <- AbortOuts
    Removals = 6
    Crashes = 3
    Queries = 1
INVARIANT TypeOK
INVARIANT HistoryCorrect
INVARIANT CoinsCorrect
INVARIANT ChainNamed
INVARIANT UtxoTableExact
INVARIANT SymbolsDistinct
INVARIANT InputsFound
PROPERTY ImplementsIndex
