--------------------------- MODULE MCAccountQueries ---------------------------
(* Instances of AccountQueries for TLC, over the fork of MCUtxoIndexer. *)
EXTENDS AccountQueries, MCUtxoIndexer

Question(k, a, by, b) == [kind |-> k, address |-> a, by |-> by, block |-> b]

AllQuestions ==
    {Question(k, a, "latest", NoBlock) : k \in {"balance", "coins"}, a \in {x, y}}
    \cup {Question("balance", a, "height", b) : a \in {x, y}, b \in {p, b2, b3}}
    \cup {Question("balance", a, "hash", b) : a \in {x, y}, b \in {p, a2, b2}}
==============================================================================
