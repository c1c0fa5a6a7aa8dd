\* Every list of at most four operations over two accounts and three coins.
SPECIFICATION Spec
CONSTANTS
    c1 = c1
    c2 = c2
    c3 = c3
    x = x
    y = y
    NoCoin = NoCoin
    Coins = {c1, c2, c3}
    Accounts = {x, y}
    Owner <- CoinOwner
    Worth <- CoinWorth
    Intents <- AllIntents
    Forms = {"ecdsa", "script"}
CHECK_DEADLOCK FALSE
INVARIANT TypeOK
INVARIANT IntentPreserved
INVARIANT SubmittedIsIntended
INVARIANT SingleCoinSubmitted
