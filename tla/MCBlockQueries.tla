---------------------------- MODULE MCBlockQueries ----------------------------
(* Instances of BlockQueries for TLC, over the fork of MCUtxoIndexer. *)
EXTENDS BlockQueries, MCUtxoIndexer

\* Transaction 7 of b3, which spends two outputs, pays two addresses.
TwoPayeesOuts == [TwoBranchOuts EXCEPT ![7] = <<To(x, 80), To(y, 1)>>]

\* Transactions that are also asked for while they are unconfirmed, or mined only on a branch
\* the indexer has not seen.
InMempool == {6, 7}
==============================================================================
