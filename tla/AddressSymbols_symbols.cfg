SPECIFICATION Spec
CONSTANTS
    x = x
    y = y
    Addresses = {x, y}
    Clients = {1, 2}
    Worker = Worker
    Payees <- SomePayees
    Payments = 2
    Queries = 2
    Crashes = 1
INVARIANT TypeOK
INVARIANT SymbolsDistinct
INVARIANT ListsComplete
PROPERTY SymbolKept
