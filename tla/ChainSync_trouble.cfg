SPECIFICATION Spec
CONSTANTS
    NoBlock = NoBlock
    Genesis = g
    g = g
    a1 = a1
    a2 = a2
    a3 = a3
    b1 = b1
    b2 = b2
    b3 = b3
    Blocks <- ForkBlocks
    Parent <- ForkParent
    Height <- ForkHeight
    CacheSpace = 4
    MaxSync = 1
    RoundSpan = 2
    BatchSize = 3
    QuietReorgs = FALSE
    Budgets <- Trouble
INVARIANT TypeOK
INVARIANT SaveExclusive
INVARIANT PendingKnown
INVARIANT FedInOrder
INVARIANT NothingLost
INVARIANT TipHasHeight
INVARIANT SafeIsCommitted
INVARIANT DbIsChain
PROPERTY ImplementsIndex
