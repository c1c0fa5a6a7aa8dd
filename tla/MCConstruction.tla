--------------------------- MODULE MCConstruction ---------------------------
(* Instances of Construction for TLC: two coins of one account, one of another. *)
EXTENDS Construction

CONSTANTS c1, c2, c3, x, y

CoinOwner == c1 :> x @@ c2 :> x @@ c3 :> y
CoinWorth == c1 :> 1 @@ c2 :> 2 @@ c3 :> 1

Spend(c, account, amount) ==
    [type |-> "INPUT", account |-> account, amount |-> amount, coin |-> c]
Pay(account, amount) ==
    [type |-> "OUTPUT", account |-> account, amount |-> amount, coin |-> NoCoin]

\* operations with the right account and amount, with the wrong account, and with a sign
\* the client got wrong
SomeOperations ==
    {Spend(c, CoinOwner[c], -CoinWorth[c]) : c \in Coins}
    \union {Spend(c3, x, -CoinWorth[c3]), Spend(c1, x, CoinWorth[c1])}
    \union {Pay(x, 1), Pay(y, 1), Pay(y, -1)}

\* at most MaxOperations operations: three inputs of which the outer two are of one
\* account, and an output, need four
MaxOperations == 4
AllIntents == BoundedSeq(SomeOperations, MaxOperations)
=============================================================================
