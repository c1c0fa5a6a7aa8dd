----------------------------- MODULE BlockCache ------------------------------
(***************************************************************************)
(* src/BlockCache.js: the cache through which the /block endpoint hands    *)
(* the node's blocks to the indexer. map says which blocks have an entry;  *)
(* hashes is the eviction order. put never looks for an earlier entry of   *)
(* the same hash, so hashes may hold a hash twice, and evicting its first  *)
(* occurrence deletes the entry that the second one stands for.            *)
(***************************************************************************)
EXTENDS Integers, Sequences, FiniteSets

CONSTANT CacheSpace     \* new BlockCache(space); 250 in src/syncBlockCache.js

ASSUME CacheSpaceAssumption == CacheSpace \in Nat

EmptyCache == [map |-> {}, hashes |-> <<>>]

Has(c, hash) == hash \in c.map

\* _removeEldest: shift hashes, deleting their entries, while there are more
\* than CacheSpace of them.
RemoveEldest(c) ==
    LET surplus == IF Len(c.hashes) > CacheSpace THEN Len(c.hashes) - CacheSpace ELSE 0
    IN  [map    |-> c.map \ {c.hashes[i] : i \in 1..surplus},
         hashes |-> SubSeq(c.hashes, surplus + 1, Len(c.hashes))]

Put(c, hash) ==
    RemoveEldest([map |-> c.map \cup {hash}, hashes |-> Append(c.hashes, hash)])
==============================================================================
