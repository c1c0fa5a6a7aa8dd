----------------------------- MODULE ChainIndex ------------------------------
(***************************************************************************)
(* What the UTXO indexer promises about the chain it has indexed, whatever *)
(* the node, the syncer and crashes do: the index in memory follows the    *)
(* block tree one edge at a time, and what is on disk is always the chain  *)
(* of one block that the index in memory has been at. A block is taken     *)
(* back only when disk and memory agree (Indexer.js:298-300: "Flush        *)
(* evereything to disk before we remove the affected data").               *)
(***************************************************************************)
EXTENDS BlockTree

VARIABLES
    working,    \* the block up to which the index in memory reaches
    committed   \* the block up to which the index on disk reaches

Init == working = NoBlock /\ committed = NoBlock

Extend ==
    /\ \E b \in Blocks : Parent[b] = working /\ working' = b
    /\ UNCHANGED committed

Retract ==
    /\ working # NoBlock
    /\ committed = working
    /\ working' = Parent[working]
    /\ UNCHANGED committed

Commit ==
    /\ committed' = working
    /\ UNCHANGED working

\* The process ends and starts again from what is on disk.
Restart ==
    /\ working' = committed
    /\ UNCHANGED committed

Next == Extend \/ Retract \/ Commit \/ Restart

Spec == Init /\ [][Next]_<<working, committed>>
==============================================================================
