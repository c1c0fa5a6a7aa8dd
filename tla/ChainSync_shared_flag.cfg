SPECIFICATION Spec
CONSTANTS
    NoBlock = NoBlock
    Genesis = g
    g = g
    a1 = a1
    a2 = a2
    a3 = a3
    b1 = b1
    b2 = b2
    b3 = b3
    Blocks <- LineBlocks
    Parent <- LineParent
    Height <- LineHeight
    CacheSpace = 3
    MaxSync = 1
    RoundSpan = 2
    BatchSize = 2
    QuietReorgs = FALSE
    Budgets <- FailedFetch
INVARIANT NoAbort
