\* Failures, crashes and reorganisations under fairness, with a cache that never evicts.
SPECIFICATION FairSpec
CONSTANTS
    NoBlock = NoBlock
    Genesis = g
    g = g
    a1 = a1
    a2 = a2
    a3 = a3
    b1 = b1
    b2 = b2
    b3 = b3
    Blocks <- ForkBlocks
    Parent <- ForkParent
    Height <- ForkHeight
    CacheSpace = 5
    MaxSync = 1
    RoundSpan = 2
    BatchSize = 2
    QuietReorgs = FALSE
    Budgets <- Recoverable
PROPERTY CatchesUp
