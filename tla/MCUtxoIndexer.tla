---------------------------- MODULE MCUtxoIndexer ----------------------------
(* Instances of UtxoIndexer for TLC: one fork, and transactions to mine on it. *)
EXTENDS UtxoIndexer

CONSTANTS g, p, a2, a3, b2, b3, x, y

\* g - p - a2 (- a3)
\*       \ b2 - b3
ForkBlocks == {g, p, a2, b2, b3}
ForkParent == g :> NoBlock @@ p :> g @@ a2 :> p @@ b2 :> p @@ b3 :> b2
ForkHeight == g :> 0 @@ p :> 1 @@ a2 :> 2 @@ b2 :> 2 @@ b3 :> 3

AbortBlocks == ForkBlocks \cup {a3}
AbortParent == ForkParent @@ a3 :> a2
AbortHeight == ForkHeight @@ a3 :> 3

To(a, s) == [address |-> a, sats |-> s]

\* Coinbases 1 (genesis), 2 (p), 3 (a2), 4 (b2) and 5 (b3). Transaction 6 spends
\* the coinbase of p and is mined on both branches; 7 spends the coinbase of b2 and
\* the change of 6. No block pays an address twice or spends what it makes.
TwoBranchTxs == (g :> <<1>>) @@ (p :> <<2>>) @@ (a2 :> <<3, 6>>) @@ (b2 :> <<4, 6>>)
                @@ (b3 :> <<5, 7>>)
TwoBranchIns == <<<<>>, <<>>, <<>>, <<>>, <<>>, <<<<2, 1>>>>, <<<<4, 1>>, <<6, 1>>>>>>
TwoBranchOuts ==
    <<<<To(NoAddress, 0)>>, <<To(x, 50), To(NoAddress, 0)>>, <<To(y, 50)>>, <<To(y, 51)>>,
      <<To(y, 52)>>, <<To(x, 30)>>, <<To(x, 81), To(NoAddress, 0)>>>>

\* The same with a3, whose coinbase is 8 and whose transaction 9 spends the second output
\* of the coinbase of p, which has not exactly one address (a bare multisig output, say).
AbortTxs == TwoBranchTxs @@ a3 :> <<8, 9>>
AbortIns == TwoBranchIns \o <<<<>>, <<<<2, 2>>>>>>
AbortOuts == TwoBranchOuts \o <<<<To(y, 53)>>, <<To(x, 10)>>>>

\* The same, but 6 pays to the address that the coinbases of a2 and b2 pay to.
SharedOuts ==
    <<<<To(NoAddress, 0)>>, <<To(x, 50), To(NoAddress, 0)>>, <<To(y, 50)>>, <<To(y, 51)>>,
      <<To(y, 52)>>, <<To(y, 30)>>, <<To(x, 81), To(NoAddress, 0)>>>>
==============================================================================
