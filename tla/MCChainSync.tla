----------------------------- MODULE MCChainSync -----------------------------
(* Instances of ChainSync for TLC: a chain that only grows, and a fork. *)
EXTENDS ChainSync

CONSTANTS g, a1, a2, a3, b1, b2, b3

\* Line: g - a1 - a2 - a3          Fork: g - a1 - a2
\*                                       \ b1 - b2 - b3
LineBlocks == {g, a1, a2, a3}
ForkBlocks == {g, a1, a2, b1, b2, b3}

ParentIn(blocks) == [b \in blocks |->
    CASE b = g -> NoBlock
      [] b \in {a1, b1} -> g
      [] b = a2 -> a1
      [] b = a3 -> a2
      [] b = b2 -> b1
      [] b = b3 -> b2]

HeightIn(blocks) == [b \in blocks |->
    CASE b = g -> 0
      [] b \in {a1, b1} -> 1
      [] b \in {a2, b2} -> 2
      [] b \in {a3, b3} -> 3]

LineParent == ParentIn(LineBlocks)
LineHeight == HeightIn(LineBlocks)
ForkParent == ParentIn(ForkBlocks)
ForkHeight == HeightIn(ForkBlocks)

Bound(reorgs, crashes, errors, clients) ==
    [reorgs |-> reorgs, crashes |-> crashes, errors |-> errors, clients |-> clients]

\* trouble that the pipeline recovers from
Recoverable == {Bound(2, 0, 0, 0), Bound(1, 0, 1, 0), Bound(0, 1, 1, 1)}
\* trouble at any time that leaves the index whole
Trouble == {Bound(1, 1, 1, 0), Bound(1, 0, 1, 1)}
FailedFetch == {Bound(0, 0, 1, 0)}
RestartAndReorg == {Bound(1, 1, 0, 0)}
==============================================================================
