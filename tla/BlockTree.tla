------------------------------ MODULE BlockTree ------------------------------
(***************************************************************************)
(* The blocks a Flux node can serve, as the indexer sees them: the fields  *)
(* hash, height and previousblockhash of the JSON that getblock returns.   *)
(* The node itself is not part of the repository; what is assumed of it is *)
(* what src/Indexer.js and src/services/BlockService.js use: a genesis     *)
(* block at height 0, and a height that grows by one along each            *)
(* previousblockhash link.                                                 *)
(***************************************************************************)
EXTENDS Integers, FiniteSets

CONSTANTS
    Blocks,     \* the block hashes
    NoBlock,    \* "no hash": an undefined previousblockhash, a null best hash
    Genesis,    \* the block of height 0
    Parent,     \* Parent[b] is b.previousblockhash
    Height      \* Height[b] is b.height, which is also the block symbol of b

ASSUME BlockTreeAssumption ==
    /\ NoBlock \notin Blocks
    /\ Genesis \in Blocks
    /\ Parent \in [Blocks -> Blocks \cup {NoBlock}]
    /\ Height \in [Blocks -> Nat]
    /\ \A b \in Blocks : Parent[b] = NoBlock <=> b = Genesis
    /\ \A b \in Blocks : Height[b] = IF b = Genesis THEN 0 ELSE Height[Parent[b]] + 1

BlockOrNone == Blocks \cup {NoBlock}

ParentClosed(S) == \A c \in S : Parent[c] \in S \cup {NoBlock}

\* Chain[b]: the blocks from genesis to b, the smallest set that holds b and
\* the parent of each of its blocks. The chain of NoBlock is empty.
Chain == [b \in BlockOrNone |->
             {c \in Blocks : \A S \in SUBSET Blocks :
                                (ParentClosed(S) /\ b \in S \cup {NoBlock}) => c \in S}]

\* The block symbol of a chain's last block, and lastBlockSymbol on an empty
\* database (Indexer.js:1260).
HeightOf(b) == IF b = NoBlock THEN -1 ELSE Height[b]
==============================================================================
