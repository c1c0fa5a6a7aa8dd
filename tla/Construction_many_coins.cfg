SPECIFICATION Spec
CONSTANTS
    c1 = c1
    c2 = c2
    c3 = c3
    x = x
    y = y
    NoCoin = NoCoin
    Coins = {c1, c2, c3}
    Accounts = {x, y}
    Owner <- CoinOwner
    Worth <- CoinWorth
    Intents <- AllIntents
    Forms = {"script"}
CHECK_DEADLOCK FALSE
INVARIANT TransferSubmitted
