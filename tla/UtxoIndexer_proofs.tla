-------------------------- MODULE UtxoIndexer_proofs --------------------------
(* Proofs about UtxoIndexer, for every block tree, all transactions and every   *)
(* bound: the indexer implements the abstract chain index, and its tables of    *)
(* symbols name exactly the chain it is at, without a symbol for two.           *)
EXTENDS UtxoIndexer, TLAPS, WellFoundedInduction

\* The batch in flight is for the block that memory is at, and a block is removed
\* only when the disk is at that block.
FlushInv ==
    /\ best \in BlockOrNone
    /\ pc \in {"flush", "removalFlush"} => inflight.best = best
    /\ pc = "removing" => db.best = best
    /\ pc \in {"removalFlush", "removing"} => best # NoBlock
    /\ db.best \in BlockOrNone

\* The empty database is at no block.
LEMMA EmptyDbAtNoBlock == EmptyDb.best = NoBlock
  BY DEF EmptyDb

\* A batch takes the disk to the block it was gathered at.
LEMMA WrittenBest == ASSUME NEW d, NEW g PROVE Written(d, g).best = g.best
  BY DEF Written

\* Gathering remembers the block.
LEMMA GatherBest == ASSUME NEW b, NEW m, NEW d PROVE Gather(b, m, d).best = b
  BY DEF Gather

\* What a client's early look-up changes: its beginning is only remembered, and its end
\* allocates a symbol.
LEMMA QueryStep ==
    Query => /\ UNCHANGED <<best, pc, safe, inflight, db>> /\ pc # "aborted"
             /\ \/ \E a \in Addresses :
                      /\ budget.queries > 0 /\ budget' = [budget EXCEPT !.queries = @ - 1]
                      /\ mem' = [mem EXCEPT !.asking = @ \cup {<<budget.queries, a>>}]
                \/ \E call \in mem.asking :
                      /\ UNCHANGED budget
                      /\ mem' = [NewSymbol(mem, call[2]) EXCEPT !.asking = @ \ {call}]
  BY Zenon DEF Query, AskEarly, NameEarly

\* The invariant holds at the start.
LEMMA FlushInvInit == Init => FlushInv
  BY EmptyDbAtNoBlock DEF Init, FlushInv, BlockOrNone

\* Every step keeps the invariant.
LEMMA FlushInvNext == FlushInv /\ [Next]_vars => FlushInv'
<1> SUFFICES ASSUME FlushInv, [Next]_vars PROVE FlushInv'
  OBVIOUS
<1> USE BlockTreeAssumption DEF FlushInv, BlockOrNone
<1>1. CASE AddBlock
  BY <1>1 DEF AddBlock
<1>2. CASE Flush
  BY <1>2, GatherBest DEF Flush, BeginFlush
<1>3. CASE StartRemoval
  BY <1>3, GatherBest DEF StartRemoval, BeginFlush
<1>4. CASE FlushEnds
  BY <1>4, WrittenBest DEF FlushEnds
<1>5. CASE RemoveBest
  <2> DEFINE m == RemoveBlock(mem, db, best)
  <2>1. CASE m.failed
    BY <1>5, <2>1 DEF RemoveBest
  <2>2. CASE ~m.failed
    <3>1. /\ best' = Parent[best]
          /\ BeginFlush(best', m)
          /\ pc' = "flush" /\ db' = db
      BY <1>5, <2>2 DEF RemoveBest
    <3>2. inflight'.best = best'
      BY <3>1, GatherBest DEF BeginFlush
    <3>3. best' \in Blocks \cup {NoBlock}
      BY <1>5, <3>1 DEF RemoveBest
    <3> QED
      BY <3>1, <3>2, <3>3
  <2> QED
    BY <2>1, <2>2
<1>6. CASE Query
  BY <1>6, QueryStep
<1>7. CASE Restart
  <2>1. db' = db \/ (db' = Written(db, inflight) /\ pc \in {"flush", "removalFlush"})
    BY <1>7 DEF Restart
  <2>2. db'.best \in Blocks \cup {NoBlock}
    BY <2>1, WrittenBest
  <2> QED
    BY <1>7, <2>2 DEF Restart
<1>8. CASE UNCHANGED vars
  BY <1>8 DEF vars
<1> QED
  BY <1>1, <1>2, <1>3, <1>4, <1>5, <1>6, <1>7, <1>8 DEF Next

\* The invariant is an invariant of the specification.
THEOREM BatchInvariant == Spec => []FlushInv
  BY FlushInvInit, FlushInvNext, PTL DEF Spec

\* A step of the indexer is a step of the chain index or leaves it alone.
LEMMA IndexStep == FlushInv /\ [Next]_vars => [Index!Next]_<<best, db.best>>
<1> SUFFICES ASSUME FlushInv, [Next]_vars PROVE [Index!Next]_<<best, db.best>>
  OBVIOUS
<1> USE DEF FlushInv, Index!Next
<1>1. CASE AddBlock
  BY <1>1 DEF AddBlock, Index!Extend
<1>2. CASE Flush
  BY <1>2 DEF Flush
<1>3. CASE StartRemoval
  BY <1>3 DEF StartRemoval
<1>4. CASE FlushEnds
  BY <1>4, WrittenBest DEF FlushEnds, Index!Commit
<1>5. CASE RemoveBest
  BY <1>5 DEF RemoveBest, Index!Retract
<1>6. CASE Query
  BY <1>6, QueryStep
<1>7. CASE Restart
  <2>1. best' = db'.best
    BY <1>7 DEF Restart
  <2>2. CASE db' = db
    BY <2>1, <2>2 DEF Index!Restart
  <2>3. CASE db' = Written(db, inflight) /\ pc \in {"flush", "removalFlush"}
    BY <2>1, <2>3, WrittenBest DEF Index!Commit
  <2> QED
    BY <1>7, <2>2, <2>3 DEF Restart
<1>8. CASE UNCHANGED vars
  BY <1>8 DEF vars
<1> QED
  BY <1>1, <1>2, <1>3, <1>4, <1>5, <1>6, <1>7, <1>8 DEF Next

\* The indexer implements the abstract chain index: whatever the transactions, the
\* flushes, the queries and the crashes, blocks join and leave at the tip, they leave
\* only when disk and memory agree, and a restart resumes at a committed block.
THEOREM IndexRefined == Spec => ImplementsIndex
<1>1. Init => Index!Init
  BY EmptyDbAtNoBlock DEF Init, Index!Init
<1>2. FlushInv /\ [Next]_vars => [Index!Next]_<<best, db.best>>
  BY IndexStep
<1> QED
  BY <1>1, <1>2, BatchInvariant, PTL DEF Spec, ImplementsIndex, Index!Spec

------------------------------------------------------------------------------
(* The safe height *)

\* The safe height is that of the block on disk; while the flush of a removal runs it is
\* already that of the block memory went back to.
SafeInv ==
    /\ safe = HeightOf(db.best) \/ safe = HeightOf(best)
    /\ pc # "flush" => safe = HeightOf(db.best)

LEMMA SafeInvInit == Init => SafeInv
  BY EmptyDbAtNoBlock DEF Init, SafeInv

LEMMA SafeInvNext == FlushInv /\ SafeInv /\ [Next]_vars => SafeInv'
<1> SUFFICES ASSUME FlushInv, SafeInv, [Next]_vars PROVE SafeInv'
  OBVIOUS
<1>1. CASE AddBlock
  <2>1. UNCHANGED <<safe, db>> /\ pc = "idle" /\ pc' \in {"idle", "aborted"}
    BY <1>1 DEF AddBlock
  <2> QED
    BY <2>1 DEF SafeInv
<1>2. CASE Flush
  BY <1>2 DEF Flush, SafeInv
<1>3. CASE StartRemoval
  BY <1>3 DEF StartRemoval, SafeInv
<1>4. CASE FlushEnds
  BY <1>4, WrittenBest DEF FlushEnds, SafeInv, FlushInv
<1>5. CASE RemoveBest
  BY <1>5 DEF RemoveBest, SafeInv
<1>6. CASE Query
  BY <1>6, QueryStep DEF SafeInv
<1>7. CASE Restart
  BY <1>7 DEF Restart, SafeInv
<1>8. CASE UNCHANGED vars
  BY <1>8 DEF vars, SafeInv
<1> QED
  BY <1>1, <1>2, <1>3, <1>4, <1>5, <1>6, <1>7, <1>8 DEF Next

\* No block of a chain is higher than its last one: the chain is the smallest closed set, and
\* the blocks that are not higher are one.
LEMMA ChainHeight ==
    ASSUME NEW b \in BlockOrNone, NEW c \in Chain[b]
    PROVE  c \in Blocks /\ Height[c] <= HeightOf(b)
<1> USE BlockTreeAssumption DEF BlockTreeAssumption
<1> DEFINE S == {d \in Blocks : b # NoBlock /\ Height[d] <= Height[b]}
<1>1. ParentClosed(S)
  <2> SUFFICES ASSUME NEW d \in S PROVE Parent[d] \in S \cup {NoBlock}
    BY DEF ParentClosed
  <2>1. CASE d = Genesis
    BY <2>1
  <2>2. CASE d # Genesis
    <3>1. Parent[d] \in Blocks /\ Height[d] = Height[Parent[d]] + 1
      BY <2>2
    <3>2. Height[d] \in Nat /\ Height[Parent[d]] \in Nat /\ Height[d] <= Height[b]
          /\ Height[b] \in Nat
      BY <3>1 DEF BlockOrNone
    <3> QED
      BY <3>1, <3>2
  <2> QED
    BY <2>1, <2>2
<1>2. b \in S \cup {NoBlock}
  BY DEF BlockOrNone
<1>3. c \in Blocks /\ c \in S
  BY <1>1, <1>2 DEF Chain
<1> QED
  BY <1>3 DEF HeightOf
------------------------------------------------------------------------------
(* Symbols: the inductive invariants *)

\* What a table of address symbols must be like: no symbol for two addresses, none
\* beyond the counter.
Symbols(table, last) ==
    /\ DOMAIN table \subseteq Addresses
    /\ table \in [DOMAIN table -> Nat]
    /\ IsInjective(table)
    /\ last \in Nat
    /\ \A a \in DOMAIN table : table[a] <= last

IsMem(m) ==
    /\ DOMAIN m = {"lastTx", "lastAddress", "seenBlock", "seenTx", "seenAddress", "seenUtxo",
                   "added", "asking", "ops", "failed"}
    /\ DOMAIN m.ops = {"block", "at", "tx", "txid", "address", "utxo", "list"}
    /\ \A call \in m.asking : call[2] \in Addresses

\* Memory whose waiting operations, on top of a table of address symbols, give one again,
\* and whose utxo records have keys that are pairs of numbers.
Sound(m, table) ==
    /\ IsMem(m)
    /\ DOMAIN m.ops.address \subseteq Addresses
    /\ m.ops.address \in [DOMAIN m.ops.address -> Nat]
    /\ Symbols(Apply(m.ops.address, table), m.lastAddress)
    /\ DOMAIN m.ops.utxo \subseteq Nat \X Nat
    /\ \A ref \in DOMAIN m.seenUtxo : ref \in OutputRefs /\ m.seenUtxo[ref].symbol \in Nat

Flushing == pc \in {"flush", "removalFlush"}

\* Address symbols on disk, in the batch in flight, and in memory, each on top of the other.
SoundInv ==
    /\ pc \in {"idle", "flush", "removalFlush", "removing", "aborted"}
    /\ Symbols(db.address, db.lastAddress)
    /\ DOMAIN db.utxo \subseteq Nat \X Nat
    /\ ~Flushing => inflight = Nothing
    /\ Flushing => Symbols(Apply(inflight.ops.address, db.address), inflight.lastAddress)
    /\ DOMAIN inflight.ops.utxo \subseteq Nat \X Nat
    /\ pc # "aborted" => Sound(mem, Apply(inflight.ops.address, db.address))
    /\ mem.lastAddress \in Nat

\* The tables of transactions and blocks when they are those of the chain of b. A
\* transaction has a higher symbol than those of the blocks below.
TxNames(tx, txid, last, b) ==
    /\ tx \in [Mined(b) -> Nat]
    /\ last \in Nat \cup {NoSymbol}
    /\ \A t \in Mined(b) : tx[t] <= last /\ tx[t] \in DOMAIN txid /\ txid[tx[t]] = t
    /\ \A c, e \in Chain[b] : Height[c] < Height[e] =>
          \A t \in ToSet(TxsOf[c]), u \in ToSet(TxsOf[e]) : tx[t] < tx[u]

BlockNames(block, at, b) ==
    /\ block = [c \in Chain[b] |-> Height[c]]
    /\ \A c \in Chain[b] : Height[c] \in DOMAIN at /\ at[Height[c]] = c

\* The same of operations on top of the tables on disk.
Names(ops, last, d, b) ==
    /\ TxNames(Apply(ops.tx, d.tx), Apply(ops.txid, d.txid), last, b)
    /\ BlockNames(Apply(ops.block, d.block), Apply(ops.at, d.at), b)

NoNames(m) == /\ m.ops.tx = EmptyTable /\ m.ops.txid = EmptyTable
              /\ m.ops.block = EmptyTable /\ m.ops.at = EmptyTable

NameInv ==
    /\ TxNames(db.tx, db.txid, db.lastTx, db.best) /\ BlockNames(db.block, db.at, db.best)
    /\ mem.lastTx \in Nat \cup {NoSymbol}
    /\ Flushing => /\ Names(inflight.ops, inflight.lastTx, db, best)
                   /\ mem.lastTx = inflight.lastTx
                   /\ NoNames(mem)
    /\ pc \in {"idle", "removing"} =>
          /\ mem.seenTx = mem.ops.tx
          /\ mem.ops.tx \in [DOMAIN mem.ops.tx -> Nat]
          /\ Names(mem.ops, mem.lastTx, db, best)
    /\ pc = "removing" => NoNames(mem)
------------------------------------------------------------------------------
(* Induction *)

\* A set of the numbers up to N that has 0, and with each number but N the next.
LEMMA UpTo ==
    ASSUME NEW N \in Nat, NEW S \in SUBSET (0..N), 0 \in S, \A n \in S : n < N => n + 1 \in S
    PROVE  S = 0..N
<1> SUFFICES ASSUME (0..N) \ S # {} PROVE FALSE
  OBVIOUS
<1> DEFINE T == (0..N) \ S
<1>1. T \subseteq Nat /\ T # {}
  OBVIOUS
<1>2. PICK n \in T : \A m \in T : ~ (<<m, n>> \in OpToRel(<, Nat))
  BY <1>1, NatLessThanWellFounded, WFMin
<1>3. n \in 0..N /\ n \notin S /\ n # 0
  OBVIOUS
<1>4. \A m \in T : ~ (m < n)
  BY <1>1, <1>2 DEF OpToRel
<1>5. n - 1 \in S
  BY <1>3, <1>4
<1> QED
  BY <1>3, <1>5
------------------------------------------------------------------------------
(* Tables *)

\* A table without entries.
LEMMA EmptyTableIsEmpty == DOMAIN EmptyTable = {} /\ EmptyTable = [k \in {} |-> k]
  BY DEF EmptyTable

\* An operation decides about its key; other keys keep their values.
LEMMA ApplyTable ==
    ASSUME NEW ops, NEW table
    PROVE  /\ \A k : k \in DOMAIN Apply(ops, table) <=>
                     \/ k \in DOMAIN ops /\ ops[k] # Deleted
                     \/ k \in DOMAIN table /\ k \notin DOMAIN ops
           /\ \A k \in DOMAIN Apply(ops, table) :
                 Apply(ops, table)[k] = IF k \in DOMAIN ops THEN ops[k] ELSE table[k]
           /\ Apply(ops, table) = [k \in DOMAIN Apply(ops, table) |-> Apply(ops, table)[k]]
  BY DEF Apply

\* The type of the table that results.
LEMMA ApplyType ==
    ASSUME NEW ops, NEW table, NEW V, \A k \in DOMAIN Apply(ops, table) : Apply(ops, table)[k] \in V
    PROVE  Apply(ops, table) \in [DOMAIN Apply(ops, table) -> V]
<1>1. Apply(ops, table) = [k \in DOMAIN Apply(ops, table) |-> Apply(ops, table)[k]]
  BY DEF Apply
<1> QED
  BY <1>1

\* No operations leave a table as it is.
LEMMA ApplyNothing ==
    ASSUME NEW table, NEW D, NEW V, table \in [D -> V]
    PROVE  Apply(EmptyTable, table) = table
<1>1. \A k : k \in DOMAIN Apply(EmptyTable, table) <=> k \in DOMAIN table
  BY ApplyTable, EmptyTableIsEmpty
<1>2. \A k \in DOMAIN Apply(EmptyTable, table) : Apply(EmptyTable, table)[k] = table[k]
  BY ApplyTable, EmptyTableIsEmpty
<1>3. DOMAIN Apply(EmptyTable, table) = D /\ table = [k \in D |-> table[k]]
  BY <1>1
<1>4. Apply(EmptyTable, table) = [k \in D |-> Apply(EmptyTable, table)[k]]
  BY <1>3, ApplyTable
<1> QED
  BY <1>2, <1>3, <1>4

\* An operation that puts a value is an entry of the table it is applied to.
LEMMA ApplyWith ==
    ASSUME NEW ops, NEW table, NEW key, NEW value, value # Deleted
    PROVE  /\ \A k : k \in DOMAIN Apply(With(ops, key, value), table)
                     <=> k \in DOMAIN Apply(ops, table) \/ k = key
           /\ Apply(With(ops, key, value), table)[key] = value
           /\ \A k \in DOMAIN Apply(ops, table) :
                 k # key => Apply(With(ops, key, value), table)[k] = Apply(ops, table)[k]
<1> DEFINE old == Apply(ops, table)
           new == Apply(With(ops, key, value), table)
<1>1. \A k : k \in DOMAIN With(ops, key, value) <=> k \in DOMAIN ops \/ k = key
  BY DEF With
<1>2. \A k : k \in DOMAIN new <=> k \in DOMAIN old \/ k = key
  <2>1. \A k : k \in DOMAIN new <=>
              \/ k \in DOMAIN With(ops, key, value) /\ With(ops, key, value)[k] # Deleted
              \/ k \in DOMAIN table /\ k \notin DOMAIN With(ops, key, value)
    BY ApplyTable
  <2>2. \A k : k \in DOMAIN old <=>
              \/ k \in DOMAIN ops /\ ops[k] # Deleted
              \/ k \in DOMAIN table /\ k \notin DOMAIN ops
    BY ApplyTable
  <2> HIDE DEF old, new
  <2>3. With(ops, key, value)[key] = value
        /\ \A k \in DOMAIN ops : k # key => With(ops, key, value)[k] = ops[k]
    BY DEF With
  <2> QED
    BY <1>1, <2>1, <2>2, <2>3
<1>3. key \in DOMAIN new /\ new[key] = value
  BY <1>1, <1>2, ApplyTable DEF With
<1>4. ASSUME NEW k \in DOMAIN old, k # key PROVE new[k] = old[k]
  <2>1. k \in DOMAIN new
    BY <1>2
  <2>2. new[k] = IF k \in DOMAIN With(ops, key, value) THEN With(ops, key, value)[k]
                 ELSE table[k]
    BY <2>1, ApplyTable
  <2>3. old[k] = IF k \in DOMAIN ops THEN ops[k] ELSE table[k]
    BY ApplyTable
  <2> QED
    BY <1>1, <1>4, <2>2, <2>3 DEF With
<1> QED
  BY <1>2, <1>3, <1>4

------------------------------------------------------------------------------
(* Chains *)

\* The chain of a block is that of its parent, and the block above all others.
LEMMA ChainEnds ==
    /\ Chain[NoBlock] = {}
    /\ \A b \in Blocks : /\ Parent[b] \in BlockOrNone
                         /\ Chain[b] = Chain[Parent[b]] \cup {b}
                         /\ \A c \in Chain[Parent[b]] : c \in Blocks /\ Height[c] < Height[b]
<1> USE BlockTreeAssumption DEF BlockTreeAssumption
<1>0. NoBlock \in BlockOrNone /\ Blocks \subseteq BlockOrNone
  BY DEF BlockOrNone
<1>1. Chain[NoBlock] = {}
  <2>1. ParentClosed({}) /\ {} \in SUBSET Blocks
    BY DEF ParentClosed
  <2> QED
    BY <1>0, <2>1 DEF Chain
<1>2. ASSUME NEW b \in BlockOrNone
      PROVE  /\ Chain[b] \subseteq Blocks /\ ParentClosed(Chain[b])
             /\ b \in Chain[b] \cup {NoBlock}
  BY <1>2 DEF Chain, ParentClosed, BlockOrNone
<1>3. ASSUME NEW b \in BlockOrNone, NEW S \in SUBSET Blocks, ParentClosed(S),
             b \in S \cup {NoBlock}
      PROVE  Chain[b] \subseteq S
  BY <1>3 DEF Chain
<1>4. ASSUME NEW b \in Blocks
      PROVE  /\ Parent[b] \in BlockOrNone
             /\ Chain[b] = Chain[Parent[b]] \cup {b}
             /\ \A c \in Chain[Parent[b]] : c \in Blocks /\ Height[c] < Height[b]
  <2>1. Parent[b] \in BlockOrNone /\ b \in BlockOrNone /\ b # NoBlock
    BY DEF BlockOrNone
  <2>2. Chain[b] \subseteq Chain[Parent[b]] \cup {b}
    <3> DEFINE S == Chain[Parent[b]] \cup {b}
    <3>1. S \in SUBSET Blocks /\ ParentClosed(S)
      BY <1>2, <2>1 DEF ParentClosed
    <3> QED
      BY <1>3, <2>1, <3>1
  <2>3. b \in Chain[b] /\ Parent[b] \in Chain[b] \cup {NoBlock}
    BY <1>2, <2>1 DEF ParentClosed
  <2>4. Chain[Parent[b]] \subseteq Chain[b]
    BY <1>2, <1>3, <2>1, <2>3
  <2>5. ASSUME NEW c \in Chain[Parent[b]] PROVE c \in Blocks /\ Height[c] < Height[b]
    <3>1. c \in Blocks /\ Height[c] <= HeightOf(Parent[b])
      BY <2>1, ChainHeight
    <3>2. Parent[b] # NoBlock
      BY <1>1
    <3>3. b # Genesis /\ Height[b] = Height[Parent[b]] + 1
      BY <3>2
    <3>4. Height[b] \in Nat /\ Height[c] \in Nat /\ Height[Parent[b]] \in Nat
      BY <2>1, <3>1, <3>2 DEF BlockOrNone
    <3> QED
      BY <3>1, <3>2, <3>3, <3>4 DEF HeightOf
  <2> QED
    BY <2>1, <2>2, <2>3, <2>4, <2>5
<1> QED
  BY <1>1, <1>4

\* The transactions of a block are new on its chain.
LEMMA MinedSplit ==
    ASSUME NEW b \in Blocks
    PROVE  /\ Mined(b) = Mined(Parent[b]) \cup ToSet(TxsOf[b])
           /\ Mined(Parent[b]) \cap ToSet(TxsOf[b]) = {}
<1>1. Chain[b] = Chain[Parent[b]] \cup {b} /\ b \notin Chain[Parent[b]]
  <2>1. \A c \in Chain[Parent[b]] : Height[c] < Height[b]
    BY ChainEnds
  <2>2. Height[b] \in Nat
    BY BlockTreeAssumption DEF BlockTreeAssumption
  <2> QED
    BY <2>1, <2>2, ChainEnds
<1>2. Mined(b) = Mined(Parent[b]) \cup ToSet(TxsOf[b])
  BY <1>1 DEF Mined
<1>3. \A c, d \in Chain[b] : ToSet(TxsOf[c]) \cap ToSet(TxsOf[d]) # {} => c = d
  BY MinedOnce
<1>4. ASSUME NEW t \in Mined(Parent[b]), t \in ToSet(TxsOf[b]) PROVE FALSE
  <2>1. PICK c \in Chain[Parent[b]] : t \in ToSet(TxsOf[c])
    BY DEF Mined
  <2> QED
    BY <1>1, <1>3, <1>4, <2>1
<1> QED
  BY <1>2, <1>4

------------------------------------------------------------------------------
(* What one input or output does to memory *)

\* n has the counter, the cache and the operations for transactions and blocks that m has,
\* and the same look-ups of clients.
SameNames(m, n) ==
    /\ n.lastTx = m.lastTx /\ n.seenTx = m.seenTx
    /\ n.ops.tx = m.ops.tx /\ n.ops.txid = m.ops.txid
    /\ n.ops.block = m.ops.block /\ n.ops.at = m.ops.at /\ n.asking = m.asking

\* The next symbol is one no address has: an address that gets it, for the first time or in
\* place of another, shares it with none.
LEMMA NewSymbolSound ==
    ASSUME NEW m, NEW table, Sound(m, table), NEW a \in Addresses
    PROVE  /\ Sound(NewSymbol(m, a), table) /\ SameNames(m, NewSymbol(m, a))
           /\ NewSymbol(m, a).ops.utxo = m.ops.utxo /\ NewSymbol(m, a).seenUtxo = m.seenUtxo
           /\ NewSymbol(m, a).asking = m.asking
<1> DEFINE n == NewSymbol(m, a)
           s == m.lastAddress + 1
           old == Apply(m.ops.address, table)
           new == Apply(With(m.ops.address, a, s), table)
<1>1. IsMem(m)
  BY DEF Sound
<1>2. n = [m EXCEPT !.lastAddress = s, !.seenAddress = With(@, a, s),
                    !.ops.address = With(@, a, s)]
  BY Zenon DEF NewSymbol
<1>3. /\ IsMem(n) /\ SameNames(m, n)
      /\ n.lastAddress = s /\ n.ops.address = With(m.ops.address, a, s)
      /\ n.ops.utxo = m.ops.utxo /\ n.seenUtxo = m.seenUtxo /\ n.asking = m.asking
  BY <1>1, <1>2 DEF IsMem, SameNames
<1>4. s \in Nat /\ s # Deleted
  BY UtxoIndexerAssumption DEF UtxoIndexerAssumption, Sound, Symbols
<1>5. /\ \A k : k \in DOMAIN new <=> k \in DOMAIN old \/ k = a
      /\ new[a] = s
      /\ \A k \in DOMAIN old : k # a => new[k] = old[k]
  BY <1>4, ApplyWith
<1>6. Symbols(old, m.lastAddress)
  BY DEF Sound
<1> HIDE DEF n, old, new
<1>7. Symbols(new, s)
  <2>1. \A k \in DOMAIN new : new[k] \in Nat /\ new[k] <= s /\ k \in Addresses
    BY <1>4, <1>5, <1>6 DEF Symbols
  <2>2. IsInjective(new)
    BY <1>5, <1>6 DEF Symbols, IsInjective
  <2>3. new \in [DOMAIN new -> Nat]
    BY <2>1, ApplyType DEF new
  <2> QED
    BY <1>4, <1>5, <2>1, <2>2, <2>3 DEF Symbols
<1>8. /\ DOMAIN With(m.ops.address, a, s) \subseteq Addresses
      /\ With(m.ops.address, a, s) \in [DOMAIN With(m.ops.address, a, s) -> Nat]
  BY <1>4 DEF With, Sound
<1> QED
  BY <1>3, <1>7, <1>8 DEF Sound, n, new

\* The look-up of the worker names an address at most.
LEMMA WithSymbolSound ==
    ASSUME NEW m, NEW d, NEW table, Sound(m, table), NEW a \in Addresses
    PROVE  /\ Sound(WithSymbol(m, d, a), table) /\ SameNames(m, WithSymbol(m, d, a))
           /\ WithSymbol(m, d, a).ops.utxo = m.ops.utxo
           /\ WithSymbol(m, d, a).seenUtxo = m.seenUtxo
<1>1. CASE HasSymbol(m, d, a)
  BY <1>1 DEF WithSymbol, SameNames
<1>2. CASE ~HasSymbol(m, d, a)
  BY <1>2, NewSymbolSound, Zenon DEF WithSymbol
<1> QED
  BY <1>1, <1>2

\* Changes of the tables of utxos, and of what only they depend on, leave the symbols alone.
LEMMA UtxoChangeSound ==
    ASSUME NEW m, NEW n, NEW table, Sound(m, table), IsMem(n),
           n.lastAddress = m.lastAddress, n.ops.address = m.ops.address,
           DOMAIN n.ops.utxo \subseteq DOMAIN m.ops.utxo \cup (Nat \X Nat),
           \A ref \in DOMAIN n.seenUtxo :
              \/ ref \in DOMAIN m.seenUtxo /\ n.seenUtxo[ref] = m.seenUtxo[ref]
              \/ ref \in OutputRefs /\ n.seenUtxo[ref].symbol \in Nat
    PROVE  Sound(n, table)
  BY DEF Sound

\* An output reference is of a transaction and has a number.
LEMMA RefType ==
    ASSUME NEW ref \in OutputRefs
    PROVE  /\ ref = <<ref[1], ref[2]>> /\ ref[1] \in Txs /\ ref[2] \in Nat
           /\ ref[2] \in 1..Len(Outs[ref[1]])
           /\ Outs[ref[1]][ref[2]] \in [address : Addresses \cup {NoAddress}, sats : Nat]
<1>1. PICK t \in Txs : ref \in {<<t, n>> : n \in DOMAIN Outs[t]}
  BY DEF OutputRefs
<1> DEFINE O == [address : Addresses \cup {NoAddress}, sats : Nat]
<1>2. Outs[t] \in Seq(O)
  BY UtxoIndexerAssumption DEF UtxoIndexerAssumption
<1>3. PICK n \in DOMAIN Outs[t] : ref = <<t, n>>
  BY <1>1
<1> HIDE DEF O
<1>4. n \in 1..Len(Outs[t]) /\ Len(Outs[t]) \in Nat /\ Outs[t][n] \in O
  BY <1>2
<1>5. ref[1] = t /\ ref[2] = n
  BY <1>3
<1> QED
  BY <1>3, <1>4, <1>5 DEF O

\* The key of an output that is found is a pair of numbers.
LEMMA KeyType ==
    ASSUME NEW m, NEW d, NEW table, Sound(m, table), DOMAIN d.utxo \subseteq Nat \X Nat,
           NEW ref \in OutputRefs, Found(m, d, ref)
    PROVE  UtxoKey(m, d, ref) \in Nat \X Nat
<1>1. CASE ref \in DOMAIN m.seenUtxo
  BY <1>1, RefType DEF UtxoKey, Sound
<1>2. CASE ref \notin DOMAIN m.seenUtxo
  BY <1>2 DEF UtxoKey, Found
<1> QED
  BY <1>1, <1>2

\* One input that is spent.
LEMMA InvalidateSound ==
    ASSUME NEW m, NEW d, NEW table, Sound(m, table), DOMAIN d.utxo \subseteq Nat \X Nat,
           NEW ref \in OutputRefs, NEW symbol \in Nat, NEW height
    PROVE  LET n == InvalidateUtxo(m, d, ref, symbol, height)
           IN  Sound(n, table) /\ SameNames(m, n)
<1> DEFINE n == InvalidateUtxo(m, d, ref, symbol, height)
<1>0. IsMem(m)
  BY DEF Sound
<1>1. CASE ~Found(m, d, ref)
  <2>1. n = [m EXCEPT !.failed = TRUE]
    BY <1>1, Zenon DEF InvalidateUtxo
  <2> HIDE DEF n
  <2>2. /\ IsMem(n) /\ SameNames(m, n) /\ n.lastAddress = m.lastAddress
        /\ n.ops = m.ops /\ n.seenUtxo = m.seenUtxo
    BY <1>0, <2>1 DEF IsMem, SameNames
  <2> QED
    BY <2>2, UtxoChangeSound DEF n
<1>2. CASE Found(m, d, ref)
  <2> DEFINE spent == [UtxoValue(m, d, ref) EXCEPT !.spentIn = symbol, !.spentOn = height]
             key == UtxoKey(m, d, ref)
             seen == [symbol |-> symbol, value |-> spent]
  <2>1. n = [m EXCEPT !.ops.utxo = With(@, key, spent), !.seenUtxo = With(@, ref, seen)]
    BY <1>2, Zenon DEF InvalidateUtxo
  <2>2. key \in Nat \X Nat
    BY <1>2, KeyType
  <2>3. seen.symbol = symbol
    OBVIOUS
  <2> HIDE DEF n, spent, key, seen
  <2>4. /\ IsMem(n) /\ SameNames(m, n) /\ n.lastAddress = m.lastAddress
        /\ n.ops.address = m.ops.address
        /\ n.ops.utxo = With(m.ops.utxo, key, spent)
        /\ n.seenUtxo = With(m.seenUtxo, ref, seen)
    BY <1>0, <2>1 DEF IsMem, SameNames
  <2>5. DOMAIN n.ops.utxo \subseteq DOMAIN m.ops.utxo \cup (Nat \X Nat)
    BY <2>2, <2>4 DEF With
  <2>6. \A r \in DOMAIN n.seenUtxo :
              \/ r \in DOMAIN m.seenUtxo /\ n.seenUtxo[r] = m.seenUtxo[r]
              \/ r \in OutputRefs /\ n.seenUtxo[r].symbol \in Nat
    BY <2>3, <2>4 DEF With
  <2> QED
    BY <2>4, <2>5, <2>6, UtxoChangeSound DEF n
<1> QED
  BY <1>1, <1>2

\* One output that is made.
LEMMA OutputSound ==
    ASSUME NEW m, NEW d, NEW table, Sound(m, table),
           NEW ref \in OutputRefs, NEW symbol \in Nat, NEW height
    PROVE  LET n == BatchOutput(m, d, ref, symbol, height)
           IN  Sound(n, table) /\ SameNames(m, n)
<1> DEFINE n     == BatchOutput(m, d, ref, symbol, height)
           out   == Outs[ref[1]][ref[2]]
           known == WithSymbol(m, d, out.address)
           record == [sats |-> out.sats, address |-> AddressSymbol(known, d, out.address),
                      createdOn |-> height, spentIn |-> NoSymbol, spentOn |-> NoSymbol]
           entry == <<symbol, ref[2]>>
           added == IF out.address \in DOMAIN m.added THEN m.added[out.address] ELSE <<>>
           seen  == [symbol |-> symbol, value |-> record]
<1>1. CASE out.address = NoAddress
  <2>1. n = m
    BY <1>1, Zenon DEF BatchOutput
  <2> QED
    BY <2>1 DEF SameNames
<1>2. CASE out.address # NoAddress
  <2>1. out.address \in Addresses
    BY <1>2, RefType
  <2>2. /\ Sound(known, table) /\ SameNames(m, known)
        /\ known.ops.utxo = m.ops.utxo /\ known.seenUtxo = m.seenUtxo
    BY <2>1, WithSymbolSound
  <2>3. IsMem(known)
    BY <2>2 DEF Sound
  <2>4. \/ n = [known EXCEPT !.failed = TRUE]
        \/ n = [known EXCEPT !.ops.utxo = With(@, entry, record),
                             !.seenUtxo = With(@, ref, seen),
                             !.added = With(@, out.address, Append(added, entry))]
    BY <1>2, Zenon DEF BatchOutput
  <2>5. entry \in Nat \X Nat /\ seen.symbol = symbol
    BY RefType
  <2> HIDE DEF n, known, record, entry, added, seen
  <2>6. /\ IsMem(n) /\ SameNames(m, n) /\ n.lastAddress = known.lastAddress
        /\ n.ops.address = known.ops.address
        /\ n.ops.utxo \in {known.ops.utxo, With(known.ops.utxo, entry, record)}
        /\ n.seenUtxo \in {known.seenUtxo, With(known.seenUtxo, ref, seen)}
    <3>1. CASE n = [known EXCEPT !.failed = TRUE]
      BY <2>2, <2>3, <3>1 DEF IsMem, SameNames
    <3>2. CASE n = [known EXCEPT !.ops.utxo = With(@, entry, record),
                                 !.seenUtxo = With(@, ref, seen),
                                 !.added = With(@, out.address, Append(added, entry))]
      BY <2>2, <2>3, <3>2 DEF IsMem, SameNames
    <3> QED
      BY <2>4, <3>1, <3>2
  <2>7. DOMAIN n.ops.utxo \subseteq DOMAIN known.ops.utxo \cup (Nat \X Nat)
    BY <2>5, <2>6 DEF With
  <2>8. \A r \in DOMAIN n.seenUtxo :
              \/ r \in DOMAIN known.seenUtxo /\ n.seenUtxo[r] = known.seenUtxo[r]
              \/ r \in OutputRefs /\ n.seenUtxo[r].symbol \in Nat
    BY <2>5, <2>6 DEF With
  <2> QED
    BY <2>2, <2>6, <2>7, <2>8, UtxoChangeSound DEF n
<1> QED
  BY <1>1, <1>2

\* One input that is unspent again.
LEMMA RevalidateSound ==
    ASSUME NEW m, NEW d, NEW table, Sound(m, table), DOMAIN d.utxo \subseteq Nat \X Nat,
           NEW ref \in OutputRefs
    PROVE  LET n == RevalidateUtxo(m, d, ref)
           IN  Sound(n, table) /\ SameNames(m, n)
<1> DEFINE n == RevalidateUtxo(m, d, ref)
           record == [UtxoValue(m, d, ref) EXCEPT !.spentIn = NoSymbol, !.spentOn = NoSymbol]
           key == UtxoKey(m, d, ref)
<1>0. IsMem(m)
  BY DEF Sound
<1>1. n = IF ~Found(m, d, ref) THEN [m EXCEPT !.failed = TRUE]
          ELSE [m EXCEPT !.ops.utxo = With(@, key, record)]
  BY Zenon DEF RevalidateUtxo
<1>2. Found(m, d, ref) => key \in Nat \X Nat
  BY KeyType
<1> HIDE DEF n, record, key
<1>3. /\ IsMem(n) /\ SameNames(m, n) /\ n.lastAddress = m.lastAddress
      /\ n.ops.address = m.ops.address /\ n.seenUtxo = m.seenUtxo
      /\ \/ n.ops.utxo = m.ops.utxo
         \/ n.ops.utxo = With(m.ops.utxo, key, record) /\ Found(m, d, ref)
  BY <1>0, <1>1 DEF IsMem, SameNames
<1>4. DOMAIN n.ops.utxo \subseteq DOMAIN m.ops.utxo \cup (Nat \X Nat)
  BY <1>2, <1>3 DEF With
<1> QED
  BY <1>3, <1>4, UtxoChangeSound DEF n

\* One output that is taken back.
LEMMA RemoveOutputSound ==
    ASSUME NEW m, NEW d, NEW table, Sound(m, table),
           NEW ref \in OutputRefs, NEW symbol \in Nat
    PROVE  LET n == RemoveOutput(m, d, ref, symbol)
           IN  Sound(n, table) /\ SameNames(m, n)
<1> DEFINE n     == RemoveOutput(m, d, ref, symbol)
           out   == Outs[ref[1]][ref[2]]
           entry == <<symbol, ref[2]>>
           known == WithSymbol(m, d, out.address)
           holder == AddressSymbol(known, d, out.address)
           deleted == With(m.ops.utxo, entry, Deleted)
           list == Without(ListOf(d, holder), entry)
<1>1. n = IF out.address = NoAddress THEN [m EXCEPT !.ops.utxo = deleted]
          ELSE [known EXCEPT !.ops.utxo = deleted, !.ops.list = With(@, holder, list)]
  BY Zenon DEF RemoveOutput
<1>2. out.address # NoAddress =>
         /\ Sound(known, table) /\ SameNames(m, known)
         /\ known.ops.utxo = m.ops.utxo /\ known.seenUtxo = m.seenUtxo
  BY RefType, WithSymbolSound
<1>3. PICK k \in {m, known} :
         /\ Sound(k, table) /\ SameNames(m, k)
         /\ k.ops.utxo = m.ops.utxo /\ k.seenUtxo = m.seenUtxo
         /\ \/ n = [k EXCEPT !.ops.utxo = deleted]
            \/ n = [k EXCEPT !.ops.utxo = deleted, !.ops.list = With(@, holder, list)]
  <2> HIDE DEF known, deleted, n, holder, list, entry
  <2>1. CASE out.address = NoAddress
    BY <1>1, <2>1, Zenon DEF SameNames
  <2>2. CASE out.address # NoAddress
    BY <1>1, <1>2, <2>2, Zenon
  <2> QED
    BY <2>1, <2>2
<1>4. entry \in Nat \X Nat
  BY RefType
<1>5. DOMAIN deleted \subseteq DOMAIN k.ops.utxo \cup (Nat \X Nat)
  BY <1>3, <1>4 DEF With
<1>6. IsMem(k)
  BY <1>3 DEF Sound
<1> HIDE DEF n, known, holder, deleted, list
<1>7. /\ IsMem(n) /\ SameNames(m, n) /\ n.lastAddress = k.lastAddress
      /\ n.ops.address = k.ops.address /\ n.seenUtxo = k.seenUtxo
      /\ n.ops.utxo = deleted
  <2>1. CASE n = [k EXCEPT !.ops.utxo = deleted]
    BY <1>3, <1>6, <2>1 DEF IsMem, SameNames
  <2>2. CASE n = [k EXCEPT !.ops.utxo = deleted, !.ops.list = With(@, holder, list)]
    BY <1>3, <1>6, <2>2 DEF IsMem, SameNames
  <2> QED
    BY <1>3, <2>1, <2>2
<1> QED
  BY <1>3, <1>5, <1>7, UtxoChangeSound DEF n

------------------------------------------------------------------------------
(* What all inputs or outputs of a transaction do to memory *)

\* f holds what memory is after each step of BatchTransactionInputs.
InputsRun(f, m, d, t, symbol, height) ==
    /\ f[0] = m
    /\ \A n \in 0..Len(Ins[t]) : n < Len(Ins[t]) =>
          f[n + 1] = InvalidateUtxo(f[n], d, Ins[t][n + 1], symbol, height)

\* The recursion has a solution, whose last value it is.
LEMMA InputsUnfolds ==
    ASSUME NEW m, NEW d, NEW t, NEW symbol, NEW height, Len(Ins[t]) \in Nat
    PROVE  \E f : /\ InputsRun(f, m, d, t, symbol, height)
                  /\ BatchTransactionInputs(m, d, t, symbol, height) = f[Len(Ins[t])]
<1> DEFINE N == Len(Ins[t])
           Next1(v, n) == InvalidateUtxo(v, d, Ins[t][n], symbol, height)
           Solves(f, k) == f = [n \in 0..k |-> IF n = 0 THEN m ELSE Next1(f[n - 1], n)]
           S == {k \in 0..N : \E f : Solves(f, k)}
<1>1. 0 \in S
  <2>1. Solves([n \in 0..0 |-> m], 0)
    <3>1. \A n \in 0..0 : n = 0
      OBVIOUS
    <3> HIDE DEF Next1
    <3> QED
      BY <3>1, Zenon
  <2>2. 0 \in 0..N
    OBVIOUS
  <2> HIDE DEF Solves, N
  <2> QED
    BY <2>1, <2>2
<1>2. ASSUME NEW k \in S, k < N PROVE k + 1 \in S
  <2>1. PICK f : Solves(f, k)
    OBVIOUS
  <2> DEFINE g == [n \in 0..(k + 1) |-> IF n = k + 1 THEN Next1(f[k], n) ELSE f[n]]
  <2> HIDE DEF Next1
  <2>2. k \in Nat /\ k + 1 \in 0..N
    BY <1>2
  <2>3. ASSUME NEW n \in 0..(k + 1)
        PROVE  g[n] = IF n = 0 THEN m ELSE Next1(g[n - 1], n)
    BY <2>1, <2>2
  <2>4. Solves(g, k + 1)
    BY <2>3, Zenon
  <2> HIDE DEF Solves, N, g
  <2> QED
    BY <2>2, <2>4
<1>3. \E f : Solves(f, N)
  <2>1. S \in SUBSET (0..N)
    OBVIOUS
  <2>2. N \in Nat
    OBVIOUS
  <2> HIDE DEF S, N
  <2>3. N \in S
    BY <1>1, <1>2, <2>1, <2>2, UpTo
  <2> QED
    BY <2>3 DEF S
<1> DEFINE q == CHOOSE f : Solves(f, N)
<1>4. Solves(q, N)
  BY <1>3
<1>5. BatchTransactionInputs(m, d, t, symbol, height) = q[N]
  BY Zenon DEF BatchTransactionInputs
<1> HIDE DEF q, Next1
<1>6. q[0] = m
  BY <1>4
<1>7. ASSUME NEW n \in 0..N, n < N PROVE q[n + 1] = Next1(q[n], n + 1)
  BY <1>4, <1>7
<1> QED
  BY <1>5, <1>6, <1>7 DEF Next1, InputsRun

\* BatchTransactionInputs leaves memory sound and the names alone.
LEMMA InputsSound ==
    ASSUME NEW m, NEW d, NEW table, Sound(m, table), DOMAIN d.utxo \subseteq Nat \X Nat,
           NEW t \in Txs, NEW symbol \in Nat, NEW height
    PROVE  /\ Sound(BatchTransactionInputs(m, d, t, symbol, height), table)
           /\ SameNames(m, BatchTransactionInputs(m, d, t, symbol, height))
<1>1. Len(Ins[t]) \in Nat /\ \A n \in 1..Len(Ins[t]) : Ins[t][n] \in OutputRefs
  BY UtxoIndexerAssumption DEF UtxoIndexerAssumption
<1>2. PICK f : /\ InputsRun(f, m, d, t, symbol, height)
               /\ BatchTransactionInputs(m, d, t, symbol, height) = f[Len(Ins[t])]
  BY <1>1, InputsUnfolds
<1> DEFINE S == {n \in 0..Len(Ins[t]) : Sound(f[n], table) /\ SameNames(m, f[n])}
<1>3. 0 \in S
  BY <1>1, <1>2 DEF SameNames, InputsRun
<1>4. ASSUME NEW n \in S, n < Len(Ins[t]) PROVE n + 1 \in S
  <2>1. n \in 0..Len(Ins[t]) /\ n + 1 \in 0..Len(Ins[t]) /\ n + 1 \in 1..Len(Ins[t])
    BY <1>1, <1>4
  <2>2. Sound(f[n + 1], table) /\ SameNames(f[n], f[n + 1])
    BY <1>1, <1>2, <1>4, <2>1, InvalidateSound DEF InputsRun
  <2> QED
    BY <1>4, <2>1, <2>2 DEF SameNames
<1>5. Len(Ins[t]) \in S
  <2> DEFINE N == Len(Ins[t])
  <2>1. S \in SUBSET (0..N) /\ N \in Nat
    BY <1>1
  <2>2. \A n \in S : n < N => n + 1 \in S
    BY <1>4
  <2> HIDE DEF S, N
  <2>3. N \in S
    BY <1>3, <2>1, <2>2, UpTo
  <2> QED
    BY <2>3 DEF N
<1> QED
  BY <1>2, <1>5

\* f holds what memory is after each step of BatchTransactionOutputs.
OutputsRun(f, m, d, t, symbol, height) ==
    /\ f[0] = m
    /\ \A n \in 0..Len(Outs[t]) : n < Len(Outs[t]) =>
          f[n + 1] = BatchOutput(f[n], d, <<t, n + 1>>, symbol, height)

\* The recursion has a solution, whose last value it is.
LEMMA OutputsUnfolds ==
    ASSUME NEW m, NEW d, NEW t, NEW symbol, NEW height, Len(Outs[t]) \in Nat
    PROVE  \E f : /\ OutputsRun(f, m, d, t, symbol, height)
                  /\ BatchTransactionOutputs(m, d, t, symbol, height) = f[Len(Outs[t])]
<1> DEFINE N == Len(Outs[t])
           Next1(v, n) == BatchOutput(v, d, <<t, n>>, symbol, height)
           Solves(f, k) == f = [n \in 0..k |-> IF n = 0 THEN m ELSE Next1(f[n - 1], n)]
           S == {k \in 0..N : \E f : Solves(f, k)}
<1>1. 0 \in S
  <2>1. Solves([n \in 0..0 |-> m], 0)
    <3>1. \A n \in 0..0 : n = 0
      OBVIOUS
    <3> HIDE DEF Next1
    <3> QED
      BY <3>1, Zenon
  <2>2. 0 \in 0..N
    OBVIOUS
  <2> HIDE DEF Solves, N
  <2> QED
    BY <2>1, <2>2
<1>2. ASSUME NEW k \in S, k < N PROVE k + 1 \in S
  <2>1. PICK f : Solves(f, k)
    OBVIOUS
  <2> DEFINE g == [n \in 0..(k + 1) |-> IF n = k + 1 THEN Next1(f[k], n) ELSE f[n]]
  <2> HIDE DEF Next1
  <2>2. k \in Nat /\ k + 1 \in 0..N
    BY <1>2
  <2>3. ASSUME NEW n \in 0..(k + 1)
        PROVE  g[n] = IF n = 0 THEN m ELSE Next1(g[n - 1], n)
    BY <2>1, <2>2
  <2>4. Solves(g, k + 1)
    BY <2>3, Zenon
  <2> HIDE DEF Solves, N, g
  <2> QED
    BY <2>2, <2>4
<1>3. \E f : Solves(f, N)
  <2>1. S \in SUBSET (0..N)
    OBVIOUS
  <2>2. N \in Nat
    OBVIOUS
  <2> HIDE DEF S, N
  <2>3. N \in S
    BY <1>1, <1>2, <2>1, <2>2, UpTo
  <2> QED
    BY <2>3 DEF S
<1> DEFINE q == CHOOSE f : Solves(f, N)
<1>4. Solves(q, N)
  BY <1>3
<1>5. BatchTransactionOutputs(m, d, t, symbol, height) = q[N]
  BY Zenon DEF BatchTransactionOutputs
<1> HIDE DEF q, Next1
<1>6. q[0] = m
  BY <1>4
<1>7. ASSUME NEW n \in 0..N, n < N PROVE q[n + 1] = Next1(q[n], n + 1)
  BY <1>4, <1>7
<1> QED
  BY <1>5, <1>6, <1>7 DEF Next1, OutputsRun

\* BatchTransactionOutputs leaves memory sound and the names alone.
LEMMA OutputsSound ==
    ASSUME NEW m, NEW d, NEW table, Sound(m, table), DOMAIN d.utxo \subseteq Nat \X Nat,
           NEW t \in Txs, NEW symbol \in Nat, NEW height
    PROVE  /\ Sound(BatchTransactionOutputs(m, d, t, symbol, height), table)
           /\ SameNames(m, BatchTransactionOutputs(m, d, t, symbol, height))
<1>1. Len(Outs[t]) \in Nat /\ \A n \in 1..Len(Outs[t]) : <<t, n>> \in OutputRefs
  BY UtxoIndexerAssumption DEF UtxoIndexerAssumption, OutputRefs
<1>2. PICK f : /\ OutputsRun(f, m, d, t, symbol, height)
               /\ BatchTransactionOutputs(m, d, t, symbol, height) = f[Len(Outs[t])]
  BY <1>1, OutputsUnfolds
<1> DEFINE S == {n \in 0..Len(Outs[t]) : Sound(f[n], table) /\ SameNames(m, f[n])}
<1>3. 0 \in S
  BY <1>1, <1>2 DEF SameNames, OutputsRun
<1>4. ASSUME NEW n \in S, n < Len(Outs[t]) PROVE n + 1 \in S
  <2>1. n \in 0..Len(Outs[t]) /\ n + 1 \in 0..Len(Outs[t]) /\ n + 1 \in 1..Len(Outs[t])
    BY <1>1, <1>4
  <2>2. Sound(f[n + 1], table) /\ SameNames(f[n], f[n + 1])
    BY <1>1, <1>2, <1>4, <2>1, OutputSound DEF OutputsRun
  <2> QED
    BY <1>4, <2>1, <2>2 DEF SameNames
<1>5. Len(Outs[t]) \in S
  <2> DEFINE N == Len(Outs[t])
  <2>1. S \in SUBSET (0..N) /\ N \in Nat
    BY <1>1
  <2>2. \A n \in S : n < N => n + 1 \in S
    BY <1>4
  <2> HIDE DEF S, N
  <2>3. N \in S
    BY <1>3, <2>1, <2>2, UpTo
  <2> QED
    BY <2>3 DEF N
<1> QED
  BY <1>2, <1>5

\* f holds what memory is after each step of RevalidateInputs.
RevalidatedRun(f, m, d, t) ==
    /\ f[0] = m
    /\ \A n \in 0..Len(Ins[t]) : n < Len(Ins[t]) =>
          f[n + 1] = RevalidateUtxo(f[n], d, Ins[t][n + 1])

\* The recursion has a solution, whose last value it is.
LEMMA RevalidatedUnfolds ==
    ASSUME NEW m, NEW d, NEW t, Len(Ins[t]) \in Nat
    PROVE  \E f : RevalidatedRun(f, m, d, t) /\ RevalidateInputs(m, d, t) = f[Len(Ins[t])]
<1> DEFINE N == Len(Ins[t])
           Next1(v, n) == RevalidateUtxo(v, d, Ins[t][n])
           Solves(f, k) == f = [n \in 0..k |-> IF n = 0 THEN m ELSE Next1(f[n - 1], n)]
           S == {k \in 0..N : \E f : Solves(f, k)}
<1>1. 0 \in S
  <2>1. Solves([n \in 0..0 |-> m], 0)
    <3>1. \A n \in 0..0 : n = 0
      OBVIOUS
    <3> HIDE DEF Next1
    <3> QED
      BY <3>1, Zenon
  <2>2. 0 \in 0..N
    OBVIOUS
  <2> HIDE DEF Solves, N
  <2> QED
    BY <2>1, <2>2
<1>2. ASSUME NEW k \in S, k < N PROVE k + 1 \in S
  <2>1. PICK f : Solves(f, k)
    OBVIOUS
  <2> DEFINE g == [n \in 0..(k + 1) |-> IF n = k + 1 THEN Next1(f[k], n) ELSE f[n]]
  <2> HIDE DEF Next1
  <2>2. k \in Nat /\ k + 1 \in 0..N
    BY <1>2
  <2>3. ASSUME NEW n \in 0..(k + 1)
        PROVE  g[n] = IF n = 0 THEN m ELSE Next1(g[n - 1], n)
    BY <2>1, <2>2
  <2>4. Solves(g, k + 1)
    BY <2>3, Zenon
  <2> HIDE DEF Solves, N, g
  <2> QED
    BY <2>2, <2>4
<1>3. \E f : Solves(f, N)
  <2>1. S \in SUBSET (0..N)
    OBVIOUS
  <2>2. N \in Nat
    OBVIOUS
  <2> HIDE DEF S, N
  <2>3. N \in S
    BY <1>1, <1>2, <2>1, <2>2, UpTo
  <2> QED
    BY <2>3 DEF S
<1> DEFINE q == CHOOSE f : Solves(f, N)
<1>4. Solves(q, N)
  BY <1>3
<1>5. RevalidateInputs(m, d, t) = q[N]
  BY Zenon DEF RevalidateInputs
<1> HIDE DEF q, Next1
<1>6. q[0] = m
  BY <1>4
<1>7. ASSUME NEW n \in 0..N, n < N PROVE q[n + 1] = Next1(q[n], n + 1)
  BY <1>4, <1>7
<1> QED
  BY <1>5, <1>6, <1>7 DEF Next1, RevalidatedRun

\* RevalidateInputs leaves memory sound and the names alone.
LEMMA RevalidatedSound ==
    ASSUME NEW m, NEW d, NEW table, Sound(m, table), DOMAIN d.utxo \subseteq Nat \X Nat,
           NEW t \in Txs
    PROVE  /\ Sound(RevalidateInputs(m, d, t), table)
           /\ SameNames(m, RevalidateInputs(m, d, t))
<1>1. Len(Ins[t]) \in Nat /\ \A n \in 1..Len(Ins[t]) : Ins[t][n] \in OutputRefs
  BY UtxoIndexerAssumption DEF UtxoIndexerAssumption
<1>2. PICK f : RevalidatedRun(f, m, d, t) /\ RevalidateInputs(m, d, t) = f[Len(Ins[t])]
  BY <1>1, RevalidatedUnfolds
<1> DEFINE S == {n \in 0..Len(Ins[t]) : Sound(f[n], table) /\ SameNames(m, f[n])}
<1>3. 0 \in S
  BY <1>1, <1>2 DEF SameNames, RevalidatedRun
<1>4. ASSUME NEW n \in S, n < Len(Ins[t]) PROVE n + 1 \in S
  <2>1. n \in 0..Len(Ins[t]) /\ n + 1 \in 0..Len(Ins[t]) /\ n + 1 \in 1..Len(Ins[t])
    BY <1>1, <1>4
  <2>2. Sound(f[n + 1], table) /\ SameNames(f[n], f[n + 1])
    BY <1>1, <1>2, <1>4, <2>1, RevalidateSound DEF RevalidatedRun
  <2> QED
    BY <1>4, <2>1, <2>2 DEF SameNames
<1>5. Len(Ins[t]) \in S
  <2> DEFINE N == Len(Ins[t])
  <2>1. S \in SUBSET (0..N) /\ N \in Nat
    BY <1>1
  <2>2. \A n \in S : n < N => n + 1 \in S
    BY <1>4
  <2> HIDE DEF S, N
  <2>3. N \in S
    BY <1>3, <2>1, <2>2, UpTo
  <2> QED
    BY <2>3 DEF N
<1> QED
  BY <1>2, <1>5

\* f holds what memory is after each step of RemoveOutputs.
RemovedRun(f, m, d, t, symbol) ==
    /\ f[0] = m
    /\ \A n \in 0..Len(Outs[t]) : n < Len(Outs[t]) =>
          f[n + 1] = RemoveOutput(f[n], d, <<t, n + 1>>, symbol)

\* The recursion has a solution, whose last value it is.
LEMMA RemovedUnfolds ==
    ASSUME NEW m, NEW d, NEW t, NEW symbol, Len(Outs[t]) \in Nat
    PROVE  \E f : /\ RemovedRun(f, m, d, t, symbol)
                  /\ RemoveOutputs(m, d, t, symbol) = f[Len(Outs[t])]
<1> DEFINE N == Len(Outs[t])
           Next1(v, n) == RemoveOutput(v, d, <<t, n>>, symbol)
           Solves(f, k) == f = [n \in 0..k |-> IF n = 0 THEN m ELSE Next1(f[n - 1], n)]
           S == {k \in 0..N : \E f : Solves(f, k)}
<1>1. 0 \in S
  <2>1. Solves([n \in 0..0 |-> m], 0)
    <3>1. \A n \in 0..0 : n = 0
      OBVIOUS
    <3> HIDE DEF Next1
    <3> QED
      BY <3>1, Zenon
  <2>2. 0 \in 0..N
    OBVIOUS
  <2> HIDE DEF Solves, N
  <2> QED
    BY <2>1, <2>2
<1>2. ASSUME NEW k \in S, k < N PROVE k + 1 \in S
  <2>1. PICK f : Solves(f, k)
    OBVIOUS
  <2> DEFINE g == [n \in 0..(k + 1) |-> IF n = k + 1 THEN Next1(f[k], n) ELSE f[n]]
  <2> HIDE DEF Next1
  <2>2. k \in Nat /\ k + 1 \in 0..N
    BY <1>2
  <2>3. ASSUME NEW n \in 0..(k + 1)
        PROVE  g[n] = IF n = 0 THEN m ELSE Next1(g[n - 1], n)
    BY <2>1, <2>2
  <2>4. Solves(g, k + 1)
    BY <2>3, Zenon
  <2> HIDE DEF Solves, N, g
  <2> QED
    BY <2>2, <2>4
<1>3. \E f : Solves(f, N)
  <2>1. S \in SUBSET (0..N)
    OBVIOUS
  <2>2. N \in Nat
    OBVIOUS
  <2> HIDE DEF S, N
  <2>3. N \in S
    BY <1>1, <1>2, <2>1, <2>2, UpTo
  <2> QED
    BY <2>3 DEF S
<1> DEFINE q == CHOOSE f : Solves(f, N)
<1>4. Solves(q, N)
  BY <1>3
<1>5. RemoveOutputs(m, d, t, symbol) = q[N]
  BY Zenon DEF RemoveOutputs
<1> HIDE DEF q, Next1
<1>6. q[0] = m
  BY <1>4
<1>7. ASSUME NEW n \in 0..N, n < N PROVE q[n + 1] = Next1(q[n], n + 1)
  BY <1>4, <1>7
<1> QED
  BY <1>5, <1>6, <1>7 DEF Next1, RemovedRun

\* RemoveOutputs leaves memory sound and the names alone.
LEMMA RemovedSound ==
    ASSUME NEW m, NEW d, NEW table, Sound(m, table), DOMAIN d.utxo \subseteq Nat \X Nat,
           NEW t \in Txs, NEW symbol \in Nat
    PROVE  /\ Sound(RemoveOutputs(m, d, t, symbol), table)
           /\ SameNames(m, RemoveOutputs(m, d, t, symbol))
<1>1. Len(Outs[t]) \in Nat /\ \A n \in 1..Len(Outs[t]) : <<t, n>> \in OutputRefs
  BY UtxoIndexerAssumption DEF UtxoIndexerAssumption, OutputRefs
<1>2. PICK f : /\ RemovedRun(f, m, d, t, symbol)
               /\ RemoveOutputs(m, d, t, symbol) = f[Len(Outs[t])]
  BY <1>1, RemovedUnfolds
<1> DEFINE S == {n \in 0..Len(Outs[t]) : Sound(f[n], table) /\ SameNames(m, f[n])}
<1>3. 0 \in S
  BY <1>1, <1>2 DEF SameNames, RemovedRun
<1>4. ASSUME NEW n \in S, n < Len(Outs[t]) PROVE n + 1 \in S
  <2>1. n \in 0..Len(Outs[t]) /\ n + 1 \in 0..Len(Outs[t]) /\ n + 1 \in 1..Len(Outs[t])
    BY <1>1, <1>4
  <2>2. Sound(f[n + 1], table) /\ SameNames(f[n], f[n + 1])
    BY <1>1, <1>2, <1>4, <2>1, RemoveOutputSound DEF RemovedRun
  <2> QED
    BY <1>4, <2>1, <2>2 DEF SameNames
<1>5. Len(Outs[t]) \in S
  <2> DEFINE N == Len(Outs[t])
  <2>1. S \in SUBSET (0..N) /\ N \in Nat
    BY <1>1
  <2>2. \A n \in S : n < N => n + 1 \in S
    BY <1>4
  <2> HIDE DEF S, N
  <2>3. N \in S
    BY <1>3, <2>1, <2>2, UpTo
  <2> QED
    BY <2>3 DEF N
<1> QED
  BY <1>2, <1>5

------------------------------------------------------------------------------
(* What saveBlock does to memory *)

\* The symbol of a transaction, when the cache has what waits to be written.
LEMMA TxSymbol ==
    ASSUME NEW m, NEW d, NEW t, m.seenTx = m.ops.tx, m.ops.tx \in [DOMAIN m.ops.tx -> Nat]
    PROVE  GetTxSymbol(m, d, t) = IF t \in DOMAIN Apply(m.ops.tx, d.tx)
                                  THEN Apply(m.ops.tx, d.tx)[t] ELSE NoSymbol
<1> DEFINE T == Apply(m.ops.tx, d.tx)
<1>1. \A k \in DOMAIN m.ops.tx : m.ops.tx[k] # Deleted
  BY UtxoIndexerAssumption DEF UtxoIndexerAssumption
<1>2. t \in DOMAIN T <=> t \in DOMAIN m.ops.tx \/ t \in DOMAIN d.tx
  BY <1>1, ApplyTable
<1>3. t \in DOMAIN T => T[t] = IF t \in DOMAIN m.ops.tx THEN m.ops.tx[t] ELSE d.tx[t]
  BY ApplyTable
<1> HIDE DEF T
<1>4. CASE t \in DOMAIN m.ops.tx
  BY <1>2, <1>3, <1>4 DEF GetTxSymbol, T
<1>5. CASE t \notin DOMAIN m.ops.tx /\ t \in DOMAIN d.tx
  BY <1>2, <1>3, <1>5 DEF GetTxSymbol, T
<1>6. CASE t \notin DOMAIN m.ops.tx /\ t \notin DOMAIN d.tx
  BY <1>2, <1>6 DEF GetTxSymbol, T
<1> QED
  BY <1>4, <1>5, <1>6

\* Memory while a block is added behind block p: the transactions in done have got symbols
\* above those of the chain of p.
Adding(m, d, p, done) ==
    LET tx == Apply(m.ops.tx, d.tx)
        txid == Apply(m.ops.txid, d.txid)
    IN  /\ m.seenTx = m.ops.tx
        /\ m.ops.tx \in [DOMAIN m.ops.tx -> Nat]
        /\ m.lastTx \in Nat \cup {NoSymbol}
        /\ \A t : t \in DOMAIN tx <=> t \in Mined(p) \/ t \in done
        /\ \A t \in DOMAIN tx : /\ tx[t] \in Nat /\ tx[t] <= m.lastTx
                                /\ tx[t] \in DOMAIN txid /\ txid[tx[t]] = t
        /\ \A t \in Mined(p), u \in done : tx[t] < tx[u]
        /\ \A c, e \in Chain[p] : Height[c] < Height[e] =>
              \A t \in ToSet(TxsOf[c]), u \in ToSet(TxsOf[e]) : tx[t] < tx[u]

\* Memory with the same names is as far.
LEMMA AddingFrame ==
    ASSUME NEW m, NEW n, NEW d, NEW p, NEW done, Adding(m, d, p, done), SameNames(m, n)
    PROVE  Adding(n, d, p, done)
  BY DEF Adding, SameNames

\* One more transaction gets the next symbol.
LEMMA AddingOne ==
    ASSUME NEW m, NEW n, NEW d, NEW p \in BlockOrNone, NEW done, Adding(m, d, p, done),
           NEW t \in Txs, t \notin Mined(p), t \notin done,
           n.lastTx = m.lastTx + 1, n.seenTx = With(m.seenTx, t, m.lastTx + 1),
           n.ops.tx = With(m.ops.tx, t, m.lastTx + 1),
           n.ops.txid = With(m.ops.txid, m.lastTx + 1, t)
    PROVE  Adding(n, d, p, done \cup {t})
<1> DEFINE s == m.lastTx + 1
           tx == Apply(m.ops.tx, d.tx)
           txid == Apply(m.ops.txid, d.txid)
           tx2 == Apply(n.ops.tx, d.tx)
           txid2 == Apply(n.ops.txid, d.txid)
<1>0. /\ m.lastTx \in Nat \cup {NoSymbol}
      /\ \A u : u \in DOMAIN tx <=> u \in Mined(p) \/ u \in done
      /\ \A u \in DOMAIN tx : /\ tx[u] \in Nat /\ tx[u] <= m.lastTx
                              /\ tx[u] \in DOMAIN txid /\ txid[tx[u]] = u
      /\ \A v \in Mined(p), u \in done : tx[v] < tx[u]
      /\ \A c, e \in Chain[p] : Height[c] < Height[e] =>
            \A v \in ToSet(TxsOf[c]), u \in ToSet(TxsOf[e]) : tx[v] < tx[u]
  BY DEF Adding
<1>1. s \in Nat /\ s # Deleted /\ t # Deleted
  BY <1>0, UtxoIndexerAssumption DEF UtxoIndexerAssumption, NoSymbol
<1>2. /\ \A k : k \in DOMAIN tx2 <=> k \in DOMAIN tx \/ k = t
      /\ tx2[t] = s
      /\ \A k \in DOMAIN tx : k # t => tx2[k] = tx[k]
  BY <1>1, ApplyWith
<1>3. /\ \A k : k \in DOMAIN txid2 <=> k \in DOMAIN txid \/ k = s
      /\ txid2[s] = t
      /\ \A k \in DOMAIN txid : k # s => txid2[k] = txid[k]
  BY <1>1, ApplyWith
<1>4. n.seenTx = n.ops.tx
  BY DEF Adding
<1>5. n.ops.tx \in [DOMAIN n.ops.tx -> Nat]
  BY <1>1 DEF Adding, With
<1> HIDE DEF tx, tx2, txid, txid2, s
<1>6. t \notin DOMAIN tx
  BY <1>0
<1>7. \A u : u \in DOMAIN tx2 <=> u \in Mined(p) \/ u \in done \cup {t}
  BY <1>0, <1>2
<1>8. ASSUME NEW u \in DOMAIN tx2
      PROVE  tx2[u] \in Nat /\ tx2[u] <= s /\ tx2[u] \in DOMAIN txid2 /\ txid2[tx2[u]] = u
  <2>1. CASE u = t
    BY <1>1, <1>2, <1>3, <2>1
  <2>2. CASE u # t
    <3>1. u \in DOMAIN tx /\ tx2[u] = tx[u]
      BY <1>2, <2>2
    <3>2. tx[u] \in Nat /\ tx[u] <= m.lastTx /\ tx[u] \in DOMAIN txid /\ txid[tx[u]] = u
      BY <1>0, <3>1
    <3>3. tx[u] # s /\ tx[u] <= s
      BY <1>0, <3>2 DEF s, NoSymbol
    <3> QED
      BY <1>3, <3>1, <3>2, <3>3
  <2> QED
    BY <2>1, <2>2
<1>9. ASSUME NEW v \in Mined(p), NEW u \in done \cup {t} PROVE tx2[v] < tx2[u]
  <2>1. v \in DOMAIN tx /\ v # t /\ tx2[v] = tx[v] /\ tx[v] \in Nat /\ tx[v] <= m.lastTx
    BY <1>0, <1>2
  <2>2. CASE u = t
    BY <1>0, <1>2, <2>1, <2>2 DEF s, NoSymbol
  <2>3. CASE u # t
    BY <1>0, <1>2, <2>1, <2>3
  <2> QED
    BY <2>2, <2>3
<1>10. ASSUME NEW c \in Chain[p], NEW e \in Chain[p], Height[c] < Height[e],
              NEW v \in ToSet(TxsOf[c]), NEW u \in ToSet(TxsOf[e])
       PROVE  tx2[v] < tx2[u]
  <2>1. v \in Mined(p) /\ u \in Mined(p)
    BY DEF Mined
  <2>2. tx[v] < tx[u]
    BY <1>0, <1>10
  <2> QED
    BY <1>0, <1>2, <2>1, <2>2
<1> QED
  BY <1>0, <1>1, <1>4, <1>5, <1>7, <1>8, <1>9, <1>10 DEF Adding, s, tx2, txid2

\* One transaction of batchBlockTxs.
LEMMA BatchTxAdds ==
    ASSUME NEW m, NEW d, NEW table, Sound(m, table), DOMAIN d.utxo \subseteq Nat \X Nat,
           NEW p \in BlockOrNone, NEW done, Adding(m, d, p, done),
           NEW t \in Txs, t \notin Mined(p), NEW height
    PROVE  /\ Sound(BatchTx(m, d, t, height), table)
           /\ Adding(BatchTx(m, d, t, height), d, p, done \cup {t})
           /\ BatchTx(m, d, t, height).ops.block = m.ops.block
           /\ BatchTx(m, d, t, height).ops.at = m.ops.at
           /\ BatchTx(m, d, t, height).asking = m.asking
<1> DEFINE tx == Apply(m.ops.tx, d.tx)
           n == BatchTx(m, d, t, height)
<1>1. GetTxSymbol(m, d, t) = IF t \in DOMAIN tx THEN tx[t] ELSE NoSymbol
  <2>1. m.seenTx = m.ops.tx /\ m.ops.tx \in [DOMAIN m.ops.tx -> Nat]
    BY DEF Adding
  <2> QED
    BY <2>1, TxSymbol
<1>2. CASE t \in done
  <2>1. t \in DOMAIN tx /\ tx[t] \in Nat
    BY <1>2 DEF Adding
  <2>2. GetTxSymbol(m, d, t) # NoSymbol
    BY <1>1, <2>1 DEF NoSymbol
  <2>3. n = m
    BY <2>2, Zenon DEF BatchTx
  <2>4. done \cup {t} = done
    BY <1>2
  <2> QED
    BY <2>3, <2>4
<1>3. CASE t \notin done
  <2> DEFINE s == m.lastTx + 1
             named == [m EXCEPT !.lastTx = s, !.seenTx = With(@, t, s),
                                !.ops.tx = With(@, t, s), !.ops.txid = With(@, s, t)]
             spent == BatchTransactionInputs(named, d, t, s, height)
  <2>1. GetTxSymbol(m, d, t) = NoSymbol
    BY <1>1, <1>3 DEF Adding
  <2>2. n = BatchTransactionOutputs(spent, d, t, s, height)
    BY <2>1, Zenon DEF BatchTx
  <2>3. s \in Nat
    BY DEF Adding, NoSymbol
  <2>4. IsMem(m)
    BY DEF Sound
  <2> HIDE DEF n, tx, spent, s
  <2>5. /\ IsMem(named) /\ named.lastAddress = m.lastAddress
        /\ named.ops.address = m.ops.address /\ named.ops.utxo = m.ops.utxo
        /\ named.seenUtxo = m.seenUtxo
        /\ named.lastTx = s /\ named.seenTx = With(m.seenTx, t, s)
        /\ named.ops.tx = With(m.ops.tx, t, s) /\ named.ops.txid = With(m.ops.txid, s, t)
        /\ named.ops.block = m.ops.block /\ named.ops.at = m.ops.at
        /\ named.asking = m.asking
    BY <2>4 DEF IsMem
  <2> HIDE DEF named
  <2>6. Sound(named, table)
    BY <2>5, UtxoChangeSound
  <2>7. Adding(named, d, p, done \cup {t})
    BY <1>3, <2>5, AddingOne DEF s
  <2>8. Sound(spent, table) /\ SameNames(named, spent)
    BY <2>3, <2>6, InputsSound DEF spent
  <2>9. Sound(n, table) /\ SameNames(spent, n)
    BY <2>2, <2>3, <2>8, OutputsSound
  <2>10. SameNames(named, n)
    BY <2>8, <2>9 DEF SameNames
  <2>11. n.ops.block = m.ops.block /\ n.ops.at = m.ops.at /\ n.asking = m.asking
    BY <2>5, <2>10 DEF SameNames
  <2> QED
    BY <2>7, <2>9, <2>10, <2>11, AddingFrame DEF n
<1> QED
  BY <1>2, <1>3

\* Memory when saveBlock has named the block.
Begun(m, b) == [m EXCEPT !.seenBlock = With(@, b, Height[b]),
                         !.ops.block = With(@, b, Height[b]),
                         !.ops.at = With(@, Height[b], b)]

\* f holds what memory is after each step of SaveBlock.
SavedRun(f, m, d, b) ==
    /\ f[0] = Begun(m, b)
    /\ \A n \in 0..Len(TxsOf[b]) : n < Len(TxsOf[b]) =>
          f[n + 1] = BatchTx(f[n], d, TxsOf[b][n + 1], Height[b])

\* The recursion has a solution, whose last value it is.
LEMMA SavedUnfolds ==
    ASSUME NEW m, NEW d, NEW b, Len(TxsOf[b]) \in Nat
    PROVE  \E f : SavedRun(f, m, d, b) /\ SaveBlock(m, d, b) = f[Len(TxsOf[b])]
<1> DEFINE N == Len(TxsOf[b])
           Next1(v, n) == BatchTx(v, d, TxsOf[b][n], Height[b])
           Solves(f, k) == f = [n \in 0..k |-> IF n = 0 THEN Begun(m, b) ELSE Next1(f[n - 1], n)]
           S == {k \in 0..N : \E f : Solves(f, k)}
<1>1. 0 \in S
  <2>1. Solves([n \in 0..0 |-> Begun(m, b)], 0)
    <3>1. \A n \in 0..0 : n = 0
      OBVIOUS
    <3> HIDE DEF Next1
    <3> QED
      BY <3>1, Zenon
  <2>2. 0 \in 0..N
    OBVIOUS
  <2> HIDE DEF Solves, N
  <2> QED
    BY <2>1, <2>2
<1>2. ASSUME NEW k \in S, k < N PROVE k + 1 \in S
  <2>1. PICK f : Solves(f, k)
    OBVIOUS
  <2> DEFINE g == [n \in 0..(k + 1) |-> IF n = k + 1 THEN Next1(f[k], n) ELSE f[n]]
  <2> HIDE DEF Next1
  <2>2. k \in Nat /\ k + 1 \in 0..N
    BY <1>2
  <2>3. ASSUME NEW n \in 0..(k + 1)
        PROVE  g[n] = IF n = 0 THEN Begun(m, b) ELSE Next1(g[n - 1], n)
    BY <2>1, <2>2
  <2>4. Solves(g, k + 1)
    BY <2>3, Zenon
  <2> HIDE DEF Solves, N, g
  <2> QED
    BY <2>2, <2>4
<1>3. \E f : Solves(f, N)
  <2>1. S \in SUBSET (0..N)
    OBVIOUS
  <2>2. N \in Nat
    OBVIOUS
  <2> HIDE DEF S, N
  <2>3. N \in S
    BY <1>1, <1>2, <2>1, <2>2, UpTo
  <2> QED
    BY <2>3 DEF S
<1> DEFINE q == CHOOSE f : Solves(f, N)
<1>4. Solves(q, N)
  BY <1>3
<1>5. SaveBlock(m, d, b) = q[N]
  BY Zenon DEF SaveBlock, Begun
<1> HIDE DEF q, Next1
<1>6. q[0] = Begun(m, b)
  BY <1>4
<1>7. ASSUME NEW n \in 0..N, n < N PROVE q[n + 1] = Next1(q[n], n + 1)
  BY <1>4, <1>7
<1> QED
  BY <1>5, <1>6, <1>7 DEF Next1, SavedRun

\* saveBlock leaves memory with the symbols of the chain of the block it adds.
LEMMA SaveBlockNames ==
    ASSUME NEW m, NEW d, NEW table, Sound(m, table), DOMAIN d.utxo \subseteq Nat \X Nat,
           NEW b \in Blocks, m.seenTx = m.ops.tx, m.ops.tx \in [DOMAIN m.ops.tx -> Nat],
           Names(m.ops, m.lastTx, d, Parent[b])
    PROVE  LET n == SaveBlock(m, d, b)
           IN  /\ Sound(n, table) /\ n.asking = m.asking
               /\ n.seenTx = n.ops.tx /\ n.ops.tx \in [DOMAIN n.ops.tx -> Nat]
               /\ Names(n.ops, n.lastTx, d, b)
<1> DEFINE p == Parent[b]
           N == Len(TxsOf[b])
           done(k) == {TxsOf[b][i] : i \in 1..k}
           h == Height[b]
           n == SaveBlock(m, d, b)
<1>0. /\ p \in BlockOrNone /\ Chain[b] = Chain[p] \cup {b}
      /\ \A c \in Chain[p] : c \in Blocks /\ Height[c] < Height[b]
  BY ChainEnds
<1>1. N \in Nat /\ (\A i \in 1..N : TxsOf[b][i] \in Txs) /\ ToSet(TxsOf[b]) = done(N)
  <2>1. TxsOf[b] \in Seq(Txs)
    BY UtxoIndexerAssumption DEF UtxoIndexerAssumption
  <2> QED
    BY <2>1 DEF ToSet
<1>2. Mined(b) = Mined(p) \cup ToSet(TxsOf[b]) /\ Mined(p) \cap ToSet(TxsOf[b]) = {}
  BY MinedSplit
<1>3. h \in Nat /\ h # Deleted /\ b # Deleted
  BY UtxoIndexerAssumption, BlockTreeAssumption DEF UtxoIndexerAssumption, BlockTreeAssumption
<1>4. IsMem(m)
  BY DEF Sound
<1>5. /\ IsMem(Begun(m, b)) /\ Begun(m, b).lastAddress = m.lastAddress
      /\ Begun(m, b).ops.address = m.ops.address /\ Begun(m, b).ops.utxo = m.ops.utxo
      /\ Begun(m, b).seenUtxo = m.seenUtxo /\ Begun(m, b).asking = m.asking
      /\ Begun(m, b).lastTx = m.lastTx /\ Begun(m, b).seenTx = m.seenTx
      /\ Begun(m, b).ops.tx = m.ops.tx /\ Begun(m, b).ops.txid = m.ops.txid
      /\ Begun(m, b).ops.block = With(m.ops.block, b, h)
      /\ Begun(m, b).ops.at = With(m.ops.at, h, b)
  BY <1>4 DEF IsMem, Begun
<1>6. Sound(Begun(m, b), table)
  BY <1>5, UtxoChangeSound
<1>7. Adding(Begun(m, b), d, p, done(0))
  <2>1. TxNames(Apply(m.ops.tx, d.tx), Apply(m.ops.txid, d.txid), m.lastTx, p)
    BY DEF Names
  <2>2. done(0) = {}
    OBVIOUS
  <2> HIDE DEF done, p
  <2> QED
    BY <1>5, <2>1, <2>2 DEF Adding, TxNames
<1>8. PICK f : SavedRun(f, m, d, b) /\ n = f[N]
  BY <1>1, SavedUnfolds
<1> DEFINE Good(k) == /\ Sound(f[k], table) /\ Adding(f[k], d, p, done(k))
                      /\ f[k].ops.block = With(m.ops.block, b, h)
                      /\ f[k].ops.at = With(m.ops.at, h, b) /\ f[k].asking = m.asking
           S == {k \in 0..N : Good(k)}
<1>9. 0 \in S
  <2>1. f[0] = Begun(m, b)
    BY <1>8 DEF SavedRun
  <2>2. 0 \in 0..N
    BY <1>1
  <2> HIDE DEF done, p, h, N
  <2> QED
    BY <1>5, <1>6, <1>7, <2>1, <2>2
<1>10. ASSUME NEW k \in S, k < N PROVE k + 1 \in S
  <2> DEFINE t == TxsOf[b][k + 1]
  <2>1. k \in 0..N /\ k + 1 \in 0..N /\ k + 1 \in 1..N /\ Good(k)
    <3> HIDE DEF Good
    <3> QED
      BY <1>1, <1>10
  <2>2. f[k + 1] = BatchTx(f[k], d, t, h)
    BY <1>8, <1>10, <2>1 DEF SavedRun
  <2>3. t \in Txs /\ t \notin Mined(p)
    BY <1>1, <1>2, <2>1 DEF ToSet
  <2>4. done(k + 1) = done(k) \cup {t}
    BY <2>1
  <2> HIDE DEF done, p, h, N, t
  <2>5. Good(k + 1)
    BY <1>0, <2>1, <2>2, <2>3, <2>4, BatchTxAdds
  <2> QED
    BY <2>1, <2>5
<1>11. N \in S
  <2>1. S \in SUBSET (0..N)
    OBVIOUS
  <2> HIDE DEF S, N
  <2> QED
    BY <1>1, <1>9, <1>10, <2>1, UpTo
<1>12. /\ Sound(n, table) /\ Adding(n, d, p, ToSet(TxsOf[b]))
       /\ n.ops.block = With(m.ops.block, b, h) /\ n.ops.at = With(m.ops.at, h, b)
       /\ n.asking = m.asking
  <2> HIDE DEF n, done, p, h
  <2> QED
    BY <1>1, <1>8, <1>11
<1> HIDE DEF S, Good, n, done, N
<1>13. TxNames(Apply(n.ops.tx, d.tx), Apply(n.ops.txid, d.txid), n.lastTx, b)
  <2> DEFINE tx == Apply(n.ops.tx, d.tx)
             txid == Apply(n.ops.txid, d.txid)
  <2>1. /\ n.lastTx \in Nat \cup {NoSymbol}
        /\ \A t : t \in DOMAIN tx <=> t \in Mined(p) \/ t \in ToSet(TxsOf[b])
        /\ \A t \in DOMAIN tx : /\ tx[t] \in Nat /\ tx[t] <= n.lastTx
                                /\ tx[t] \in DOMAIN txid /\ txid[tx[t]] = t
        /\ \A t \in Mined(p), u \in ToSet(TxsOf[b]) : tx[t] < tx[u]
        /\ \A c, e \in Chain[p] : Height[c] < Height[e] =>
              \A t \in ToSet(TxsOf[c]), u \in ToSet(TxsOf[e]) : tx[t] < tx[u]
    BY <1>12 DEF Adding
  <2>2. tx \in [DOMAIN tx -> Nat]
    BY <2>1, ApplyType
  <2> HIDE DEF tx, txid, p
  <2>3. DOMAIN tx = Mined(b)
    BY <1>2, <2>1
  <2>4. ASSUME NEW c \in Chain[b], NEW e \in Chain[b], Height[c] < Height[e],
               NEW t \in ToSet(TxsOf[c]), NEW u \in ToSet(TxsOf[e])
        PROVE  tx[t] < tx[u]
    <3>1. CASE e = b /\ c \in Chain[p]
      <4>1. t \in Mined(p)
        BY <3>1 DEF Mined
      <4> QED
        BY <2>1, <3>1, <4>1
    <3>2. CASE c \in Chain[p] /\ e \in Chain[p]
      BY <2>1, <2>4, <3>2
    <3>3. CASE c = b
      <4>1. e = b \/ Height[e] < Height[b]
        BY <1>0
      <4>2. Height[b] \in Nat /\ Height[e] \in Nat
        BY <1>0, BlockTreeAssumption DEF BlockTreeAssumption
      <4> QED
        BY <2>4, <3>3, <4>1, <4>2
    <3> QED
      BY <1>0, <3>1, <3>2, <3>3
  <2> QED
    BY <2>1, <2>2, <2>3, <2>4 DEF TxNames, tx, txid
<1>14. BlockNames(Apply(n.ops.block, d.block), Apply(n.ops.at, d.at), b)
  <2> DEFINE block == Apply(m.ops.block, d.block)
             at == Apply(m.ops.at, d.at)
             block2 == Apply(n.ops.block, d.block)
             at2 == Apply(n.ops.at, d.at)
  <2>1. /\ \A k : k \in DOMAIN block2 <=> k \in DOMAIN block \/ k = b
        /\ block2[b] = h
        /\ \A k \in DOMAIN block : k # b => block2[k] = block[k]
    BY <1>3, <1>12, ApplyWith
  <2>2. /\ \A k : k \in DOMAIN at2 <=> k \in DOMAIN at \/ k = h
        /\ at2[h] = b
        /\ \A k \in DOMAIN at : k # h => at2[k] = at[k]
    BY <1>3, <1>12, ApplyWith
  <2>3. /\ block = [c \in Chain[p] |-> Height[c]]
        /\ \A c \in Chain[p] : Height[c] \in DOMAIN at /\ at[Height[c]] = c
    BY DEF Names, BlockNames
  <2>4. block2 = [k \in DOMAIN block2 |-> block2[k]]
    BY DEF Apply
  <2> HIDE DEF block, at, block2, at2, p
  <2>5. DOMAIN block2 = Chain[b]
    BY <1>0, <2>1, <2>3
  <2>6. \A c \in Chain[b] : block2[c] = Height[c]
    BY <1>0, <2>1, <2>3
  <2>7. ASSUME NEW c \in Chain[b] PROVE Height[c] \in DOMAIN at2 /\ at2[Height[c]] = c
    <3>1. CASE c = b
      BY <2>2, <3>1
    <3>2. CASE c \in Chain[p]
      <4>1. Height[c] < h /\ Height[c] \in Nat
        BY <1>0, <3>2, BlockTreeAssumption DEF BlockTreeAssumption
      <4> QED
        BY <1>3, <2>2, <2>3, <3>2, <4>1
    <3> QED
      BY <1>0, <3>1, <3>2
  <2> QED
    BY <2>4, <2>5, <2>6, <2>7 DEF BlockNames, block2, at2
<1> QED
  BY <1>12, <1>13, <1>14 DEF Names, Adding, n

------------------------------------------------------------------------------
(* What removeBlock does to memory *)

\* A set of symbols has a least one.
LEMMA LeastSymbol ==
    ASSUME NEW S \in SUBSET Nat, S # {}
    PROVE  Min(S) \in S /\ \A y \in S : Min(S) <= y
<1>1. PICK x \in S : \A y \in S : ~ (<<y, x>> \in OpToRel(<, Nat))
  BY NatLessThanWellFounded, WFMin
<1>2. \A y \in S : x \in Nat /\ y \in Nat /\ ~ (y < x)
  BY <1>1 DEF OpToRel
<1>3. \A y \in S : x <= y
  BY <1>2
<1>4. \E z \in S : \A y \in S : z <= y
  BY <1>3
<1> QED
  BY <1>4, Zenon DEF Min

\* Memory while a block is taken back: the transactions in done are to be forgotten.
Dropping(m, done) ==
    /\ m.seenTx = EmptyTable
    /\ m.ops.txid = EmptyTable /\ m.ops.block = EmptyTable /\ m.ops.at = EmptyTable
    /\ \A t : t \in DOMAIN m.ops.tx <=> t \in done
    /\ \A t \in done : m.ops.tx[t] = Deleted

\* One transaction of removeBlock.
LEMMA RemoveTxDrops ==
    ASSUME NEW m, NEW d, NEW table, Sound(m, table), DOMAIN d.utxo \subseteq Nat \X Nat,
           NEW done, Dropping(m, done), NEW t \in Txs, t \in DOMAIN d.tx, d.tx[t] \in Nat
    PROVE  /\ Sound(RemoveTx(m, d, t), table)
           /\ Dropping(RemoveTx(m, d, t), done \cup {t})
           /\ RemoveTx(m, d, t).asking = m.asking
<1> DEFINE s == GetTxSymbol(m, d, t)
           back == RevalidateInputs(m, d, t)
           gone == RemoveOutputs(back, d, t, s)
           n == RemoveTx(m, d, t)
<1>1. s = d.tx[t]
  BY EmptyTableIsEmpty DEF Dropping, GetTxSymbol
<1>2. s \in Nat /\ s # NoSymbol
  BY <1>1 DEF NoSymbol
<1>3. n = [gone EXCEPT !.ops.tx = With(@, t, Deleted)]
  BY <1>2, Zenon DEF RemoveTx
<1> HIDE DEF s, back, gone, n
<1>4. Sound(back, table) /\ SameNames(m, back)
  BY RevalidatedSound DEF back
<1>5. Sound(gone, table) /\ SameNames(back, gone)
  BY <1>2, <1>4, RemovedSound DEF gone
<1>6. IsMem(gone)
  BY <1>5 DEF Sound
<1>7. /\ IsMem(n) /\ n.lastAddress = gone.lastAddress /\ n.ops.address = gone.ops.address
      /\ n.ops.utxo = gone.ops.utxo /\ n.seenUtxo = gone.seenUtxo
      /\ n.seenTx = gone.seenTx /\ n.ops.txid = gone.ops.txid
      /\ n.ops.block = gone.ops.block /\ n.ops.at = gone.ops.at
      /\ n.ops.tx = With(gone.ops.tx, t, Deleted) /\ n.asking = gone.asking
  BY <1>3, <1>6 DEF IsMem
<1>8. Sound(n, table)
  BY <1>5, <1>7, UtxoChangeSound
<1>9. Dropping(gone, done)
  BY <1>4, <1>5 DEF SameNames, Dropping
<1>10. Dropping(n, done \cup {t})
  BY <1>7, <1>9 DEF Dropping, With
<1>11. n.asking = m.asking
  BY <1>4, <1>5, <1>7 DEF SameNames
<1> QED
  BY <1>8, <1>10, <1>11 DEF n

\* The end of removeBlock.
Unnamed(n, m, d, b) ==
    [n EXCEPT !.ops.block = With(@, b, Deleted), !.lastTx = LastTxBefore(m, d, b)]

\* f holds what memory is after each step of RemoveBlock.
UndoneRun(f, m, d, b) ==
    /\ f[0] = m
    /\ \A n \in 0..Len(TxsOf[b]) : n < Len(TxsOf[b]) =>
          f[n + 1] = RemoveTx(f[n], d, TxsOf[b][n + 1])

\* The recursion has a solution, whose last value it is.
LEMMA UndoneUnfolds ==
    ASSUME NEW m, NEW d, NEW b, Len(TxsOf[b]) \in Nat
    PROVE  \E f : /\ UndoneRun(f, m, d, b)
                  /\ RemoveBlock(m, d, b) = Unnamed(f[Len(TxsOf[b])], m, d, b)
<1> DEFINE N == Len(TxsOf[b])
           Next1(v, n) == RemoveTx(v, d, TxsOf[b][n])
           Solves(f, k) == f = [n \in 0..k |-> IF n = 0 THEN m ELSE Next1(f[n - 1], n)]
           S == {k \in 0..N : \E f : Solves(f, k)}
<1>1. 0 \in S
  <2>1. Solves([n \in 0..0 |-> m], 0)
    <3>1. \A n \in 0..0 : n = 0
      OBVIOUS
    <3> HIDE DEF Next1
    <3> QED
      BY <3>1, Zenon
  <2>2. 0 \in 0..N
    OBVIOUS
  <2> HIDE DEF Solves, N
  <2> QED
    BY <2>1, <2>2
<1>2. ASSUME NEW k \in S, k < N PROVE k + 1 \in S
  <2>1. PICK f : Solves(f, k)
    OBVIOUS
  <2> DEFINE g == [n \in 0..(k + 1) |-> IF n = k + 1 THEN Next1(f[k], n) ELSE f[n]]
  <2> HIDE DEF Next1
  <2>2. k \in Nat /\ k + 1 \in 0..N
    BY <1>2
  <2>3. ASSUME NEW n \in 0..(k + 1)
        PROVE  g[n] = IF n = 0 THEN m ELSE Next1(g[n - 1], n)
    BY <2>1, <2>2
  <2>4. Solves(g, k + 1)
    BY <2>3, Zenon
  <2> HIDE DEF Solves, N, g
  <2> QED
    BY <2>2, <2>4
<1>3. \E f : Solves(f, N)
  <2>1. S \in SUBSET (0..N)
    OBVIOUS
  <2>2. N \in Nat
    OBVIOUS
  <2> HIDE DEF S, N
  <2>3. N \in S
    BY <1>1, <1>2, <2>1, <2>2, UpTo
  <2> QED
    BY <2>3 DEF S
<1> DEFINE q == CHOOSE f : Solves(f, N)
<1>4. Solves(q, N)
  BY <1>3
<1>5. RemoveBlock(m, d, b) = Unnamed(q[N], m, d, b)
  BY Zenon DEF RemoveBlock, Unnamed
<1> HIDE DEF q, Next1
<1>6. q[0] = m
  BY <1>4
<1>7. ASSUME NEW n \in 0..N, n < N PROVE q[n + 1] = Next1(q[n], n + 1)
  BY <1>4, <1>7
<1> QED
  BY <1>5, <1>6, <1>7 DEF Next1, UndoneRun

\* removeBlock leaves memory with the symbols of the chain of the parent: the entries of
\* the block and its transactions are deleted, and the counter is set back to the last
\* symbol before them.
LEMMA RemoveBlockNames ==
    ASSUME NEW m, NEW d, NEW table, Sound(m, table), DOMAIN d.utxo \subseteq Nat \X Nat,
           NEW b \in Blocks, NoNames(m), m.seenTx = m.ops.tx,
           Names(m.ops, m.lastTx, d, b)
    PROVE  LET n == RemoveBlock(m, d, b)
           IN  /\ Sound(n, table) /\ n.asking = m.asking
               /\ n.lastTx \in Nat \cup {NoSymbol}
               /\ n.seenTx = EmptyTable
               /\ Names(n.ops, n.lastTx, d, Parent[b])
<1> DEFINE p == Parent[b]
           N == Len(TxsOf[b])
           done(k) == {TxsOf[b][i] : i \in 1..k}
           n == RemoveBlock(m, d, b)
           last == LastTxBefore(m, d, b)
<1>0. /\ p \in BlockOrNone /\ Chain[b] = Chain[p] \cup {b}
      /\ \A c \in Chain[p] : c \in Blocks /\ Height[c] < Height[b]
  BY ChainEnds
<1>1. N \in Nat /\ (\A i \in 1..N : TxsOf[b][i] \in Txs) /\ ToSet(TxsOf[b]) = done(N)
  BY UtxoIndexerAssumption DEF UtxoIndexerAssumption, ToSet
<1>2. Mined(b) = Mined(p) \cup ToSet(TxsOf[b]) /\ Mined(p) \cap ToSet(TxsOf[b]) = {}
  BY MinedSplit
<1>3. /\ m.seenTx = EmptyTable
      /\ TxNames(Apply(EmptyTable, d.tx), Apply(EmptyTable, d.txid), m.lastTx, b)
      /\ BlockNames(Apply(EmptyTable, d.block), Apply(EmptyTable, d.at), b)
  BY DEF NoNames, Names
<1>4. /\ \A t : t \in DOMAIN d.tx <=> t \in Mined(b)
      /\ m.lastTx \in Nat \cup {NoSymbol}
      /\ \A t \in Mined(b) : /\ d.tx[t] \in Nat /\ d.tx[t] <= m.lastTx
                             /\ d.tx[t] \in DOMAIN d.txid /\ d.txid[d.tx[t]] = t
      /\ \A c, e \in Chain[b] : Height[c] < Height[e] =>
            \A t \in ToSet(TxsOf[c]), u \in ToSet(TxsOf[e]) : d.tx[t] < d.tx[u]
  <2> DEFINE tx == Apply(EmptyTable, d.tx)
             txid == Apply(EmptyTable, d.txid)
  <2>1. /\ \A k : k \in DOMAIN tx <=> k \in DOMAIN d.tx
        /\ \A k \in DOMAIN tx : tx[k] = d.tx[k]
    BY ApplyTable, EmptyTableIsEmpty
  <2>2. /\ \A k : k \in DOMAIN txid <=> k \in DOMAIN d.txid
        /\ \A k \in DOMAIN txid : txid[k] = d.txid[k]
    BY ApplyTable, EmptyTableIsEmpty
  <2>3. TxNames(tx, txid, m.lastTx, b)
    BY <1>3
  <2> HIDE DEF tx, txid
  <2>4. DOMAIN tx = Mined(b)
    BY <2>3 DEF TxNames
  <2>5. \A c \in Chain[b] : \A t \in ToSet(TxsOf[c]) : t \in Mined(b)
    BY DEF Mined
  <2> QED
    BY <2>1, <2>2, <2>3, <2>4, <2>5 DEF TxNames
<1>5. /\ \A c : c \in DOMAIN d.block <=> c \in Chain[b]
      /\ \A c \in Chain[b] : d.block[c] = Height[c]
      /\ \A c \in Chain[b] : Height[c] \in DOMAIN d.at /\ d.at[Height[c]] = c
  <2> DEFINE block == Apply(EmptyTable, d.block)
             at == Apply(EmptyTable, d.at)
  <2>1. /\ \A k : k \in DOMAIN block <=> k \in DOMAIN d.block
        /\ \A k \in DOMAIN block : block[k] = d.block[k]
    BY ApplyTable, EmptyTableIsEmpty
  <2>2. /\ \A k : k \in DOMAIN at <=> k \in DOMAIN d.at
        /\ \A k \in DOMAIN at : at[k] = d.at[k]
    BY ApplyTable, EmptyTableIsEmpty
  <2>3. BlockNames(block, at, b)
    BY <1>3
  <2> HIDE DEF block, at
  <2> QED
    BY <2>1, <2>2, <2>3 DEF BlockNames
<1>6. PICK f : UndoneRun(f, m, d, b) /\ n = Unnamed(f[N], m, d, b)
  BY <1>1, UndoneUnfolds
<1> DEFINE Good(k) == Sound(f[k], table) /\ Dropping(f[k], done(k)) /\ f[k].asking = m.asking
           S == {k \in 0..N : Good(k)}
<1>7. 0 \in S
  <2>1. f[0] = m /\ 0 \in 0..N /\ done(0) = {}
    BY <1>1, <1>6 DEF UndoneRun
  <2> HIDE DEF done, N
  <2>2. Dropping(m, {})
    BY EmptyTableIsEmpty DEF NoNames, Dropping
  <2> QED
    BY <2>1, <2>2
<1>8. ASSUME NEW k \in S, k < N PROVE k + 1 \in S
  <2> DEFINE t == TxsOf[b][k + 1]
  <2>1. k \in 0..N /\ k + 1 \in 0..N /\ k + 1 \in 1..N /\ Good(k)
    <3> HIDE DEF Good
    <3> QED
      BY <1>1, <1>8
  <2>2. f[k + 1] = RemoveTx(f[k], d, t)
    BY <1>6, <1>8, <2>1 DEF UndoneRun
  <2>3. t \in Txs /\ t \in Mined(b)
    BY <1>1, <1>2, <2>1 DEF ToSet
  <2>4. done(k + 1) = done(k) \cup {t}
    BY <2>1
  <2> HIDE DEF done, p, N, t
  <2>5. t \in DOMAIN d.tx /\ d.tx[t] \in Nat
    BY <1>4, <2>3
  <2>6. /\ Sound(RemoveTx(f[k], d, t), table)
        /\ Dropping(RemoveTx(f[k], d, t), done(k) \cup {t})
        /\ RemoveTx(f[k], d, t).asking = f[k].asking
    BY <2>1, <2>3, <2>5, RemoveTxDrops
  <2>7. Good(k + 1)
    BY <2>1, <2>2, <2>4, <2>6
  <2> QED
    BY <2>1, <2>7
<1>9. N \in S
  <2>1. S \in SUBSET (0..N)
    OBVIOUS
  <2> HIDE DEF S, N
  <2> QED
    BY <1>1, <1>7, <1>8, <2>1, UpTo
<1>10. Sound(f[N], table) /\ Dropping(f[N], ToSet(TxsOf[b])) /\ f[N].asking = m.asking
  <2> HIDE DEF done, N
  <2> QED
    BY <1>1, <1>9
<1> DEFINE before == f[N]
<1> HIDE DEF S, Good, done, n, last, p
<1>11. /\ IsMem(n) /\ n.lastAddress = before.lastAddress
       /\ n.ops.address = before.ops.address /\ n.ops.utxo = before.ops.utxo
       /\ n.seenUtxo = before.seenUtxo /\ n.seenTx = before.seenTx
       /\ n.ops.tx = before.ops.tx /\ n.ops.txid = before.ops.txid
       /\ n.ops.at = before.ops.at
       /\ n.ops.block = With(before.ops.block, b, Deleted)
       /\ n.lastTx = last /\ n.asking = before.asking
  <2>1. n = [before EXCEPT !.ops.block = With(@, b, Deleted), !.lastTx = last]
    BY <1>6 DEF Unnamed, last
  <2>2. IsMem(before)
    BY <1>10 DEF Sound
  <2> HIDE DEF before
  <2> QED
    BY <2>1, <2>2 DEF IsMem
<1> HIDE DEF before, N
<1>12. Sound(before, table) /\ Dropping(before, ToSet(TxsOf[b])) /\ before.asking = m.asking
  BY <1>10 DEF before
<1>13. Sound(n, table)
  BY <1>11, <1>12, UtxoChangeSound
<1>14. /\ last \in Nat \cup {NoSymbol}
       /\ \A t \in Mined(p) : d.tx[t] <= last
  <2> DEFINE symbols == {GetTxSymbol(m, d, t) : t \in ToSet(TxsOf[b])} \ {NoSymbol}
  <2>1. \A t \in ToSet(TxsOf[b]) : GetTxSymbol(m, d, t) = d.tx[t] /\ d.tx[t] \in Nat
    BY <1>2, <1>3, <1>4, EmptyTableIsEmpty DEF GetTxSymbol
  <2>2. symbols \subseteq Nat /\ \A s \in symbols : \E t \in ToSet(TxsOf[b]) : s = d.tx[t]
    BY <2>1
  <2>3. last = IF symbols = {} THEN m.lastTx ELSE Min(symbols) - 1
    BY Zenon DEF LastTxBefore, last
  <2>4. \A t \in Mined(p), u \in ToSet(TxsOf[b]) : d.tx[t] < d.tx[u]
    <3> SUFFICES ASSUME NEW t \in Mined(p), NEW u \in ToSet(TxsOf[b]) PROVE d.tx[t] < d.tx[u]
      OBVIOUS
    <3>1. PICK c \in Chain[p] : t \in ToSet(TxsOf[c])
      BY DEF Mined
    <3>2. c \in Chain[b] /\ b \in Chain[b] /\ Height[c] < Height[b]
      BY <1>0
    <3> QED
      BY <1>4, <3>1, <3>2
  <2>5. \A t \in Mined(p) : d.tx[t] \in Nat /\ d.tx[t] <= m.lastTx
    BY <1>2, <1>4
  <2> HIDE DEF symbols
  <2>6. CASE symbols = {}
    BY <1>4, <2>3, <2>5, <2>6
  <2>7. CASE symbols # {}
    <3>1. Min(symbols) \in symbols
      BY <2>2, <2>7, LeastSymbol
    <3>2. PICK u \in ToSet(TxsOf[b]) : Min(symbols) = d.tx[u]
      BY <2>2, <3>1
    <3>3. d.tx[u] \in Nat /\ last = d.tx[u] - 1
      BY <2>1, <2>3, <2>7, <3>2
    <3> QED
      BY <2>4, <2>5, <3>3 DEF NoSymbol
  <2> QED
    BY <2>6, <2>7
<1>15. TxNames(Apply(n.ops.tx, d.tx), Apply(n.ops.txid, d.txid), last, p)
  <2> DEFINE tx == Apply(n.ops.tx, d.tx)
             txid == Apply(n.ops.txid, d.txid)
  <2>1. /\ \A t : t \in DOMAIN n.ops.tx <=> t \in ToSet(TxsOf[b])
        /\ \A t \in ToSet(TxsOf[b]) : n.ops.tx[t] = Deleted
        /\ n.ops.txid = EmptyTable
    BY <1>11, <1>12 DEF Dropping
  <2>2. \A t : t \in DOMAIN tx <=> t \in Mined(p)
    <3>1. \A t : t \in DOMAIN tx <=> t \in DOMAIN d.tx /\ t \notin ToSet(TxsOf[b])
      BY <2>1, ApplyTable
    <3> HIDE DEF tx
    <3> QED
      BY <1>2, <1>4, <3>1
  <2>3. \A t \in DOMAIN tx : tx[t] = d.tx[t]
    BY <1>2, <2>1, <2>2, ApplyTable
  <2>4. /\ \A k : k \in DOMAIN txid <=> k \in DOMAIN d.txid
        /\ \A k \in DOMAIN txid : txid[k] = d.txid[k]
    BY <2>1, ApplyTable, EmptyTableIsEmpty
  <2>5. \A t \in DOMAIN tx : tx[t] \in Nat
    BY <1>2, <1>4, <2>2, <2>3
  <2>6. tx \in [DOMAIN tx -> Nat]
    BY <2>5, ApplyType
  <2> HIDE DEF tx, txid
  <2>7. DOMAIN tx = Mined(p)
    BY <2>2
  <2>8. ASSUME NEW t \in Mined(p)
        PROVE  tx[t] <= last /\ tx[t] \in DOMAIN txid /\ txid[tx[t]] = t
    BY <1>2, <1>4, <1>14, <2>3, <2>4, <2>7
  <2>9. ASSUME NEW c \in Chain[p], NEW e \in Chain[p], Height[c] < Height[e],
               NEW t \in ToSet(TxsOf[c]), NEW u \in ToSet(TxsOf[e])
        PROVE  tx[t] < tx[u]
    <3>1. t \in Mined(p) /\ u \in Mined(p) /\ c \in Chain[b] /\ e \in Chain[b]
      BY <1>0 DEF Mined
    <3>2. d.tx[t] < d.tx[u]
      BY <1>4, <2>9, <3>1
    <3> QED
      BY <2>3, <2>7, <3>1, <3>2
  <2> QED
    BY <1>14, <2>6, <2>7, <2>8, <2>9 DEF TxNames, tx, txid
<1>16. BlockNames(Apply(n.ops.block, d.block), Apply(n.ops.at, d.at), p)
  <2> DEFINE block == Apply(n.ops.block, d.block)
             at == Apply(n.ops.at, d.at)
  <2>1. n.ops.block = With(EmptyTable, b, Deleted) /\ n.ops.at = EmptyTable
    BY <1>11, <1>12 DEF Dropping
  <2>2. /\ \A k : k \in DOMAIN n.ops.block <=> k = b
        /\ n.ops.block[b] = Deleted
    BY <2>1, EmptyTableIsEmpty DEF With
  <2>3. /\ \A k : k \in DOMAIN block <=> k \in DOMAIN d.block /\ k # b
        /\ \A k \in DOMAIN block : block[k] = d.block[k]
    BY <2>2, ApplyTable
  <2>4. /\ \A k : k \in DOMAIN at <=> k \in DOMAIN d.at
        /\ \A k \in DOMAIN at : at[k] = d.at[k]
    BY <2>1, ApplyTable, EmptyTableIsEmpty
  <2>5. block = [k \in DOMAIN block |-> block[k]]
    BY DEF Apply
  <2>6. b \notin Chain[p]
    <3>1. Height[b] \in Nat
      BY BlockTreeAssumption DEF BlockTreeAssumption
    <3> QED
      BY <1>0, <3>1
  <2> HIDE DEF block, at
  <2>7. DOMAIN block = Chain[p]
    BY <1>0, <1>5, <2>3, <2>6
  <2>8. \A c \in Chain[p] : block[c] = Height[c]
    BY <1>0, <1>5, <2>3, <2>7
  <2>9. \A c \in Chain[p] : Height[c] \in DOMAIN at /\ at[Height[c]] = c
    BY <1>0, <1>5, <2>4
  <2> QED
    BY <2>5, <2>7, <2>8, <2>9 DEF BlockNames, block, at
<1>17. n.seenTx = EmptyTable
  BY <1>11, <1>12 DEF Dropping
<1>18. n.asking = m.asking
  BY <1>11, <1>12
<1> QED
  BY <1>11, <1>13, <1>14, <1>15, <1>16, <1>17, <1>18 DEF Names, n, p

------------------------------------------------------------------------------
(* Batches and restarts *)

\* Of the operations, the names depend on four tables.
LEMMA NamesFrame ==
    ASSUME NEW ops, NEW more, NEW last, NEW d, NEW b, Names(ops, last, d, b),
           more.tx = ops.tx, more.txid = ops.txid, more.block = ops.block, more.at = ops.at
    PROVE  Names(more, last, d, b)
  BY DEF Names

\* Without operations they are what is on disk.
LEMMA NamesOnDisk ==
    ASSUME NEW ops, NEW last, NEW d, NEW b,
           TxNames(d.tx, d.txid, last, b), BlockNames(d.block, d.at, b),
           ops.tx = EmptyTable, ops.txid = EmptyTable, ops.block = EmptyTable,
           ops.at = EmptyTable
    PROVE  Names(ops, last, d, b)
<1> DEFINE txid == Apply(EmptyTable, d.txid)
           at == Apply(EmptyTable, d.at)
<1>1. Apply(EmptyTable, d.tx) = d.tx
  BY ApplyNothing DEF TxNames
<1>2. Apply(EmptyTable, d.block) = d.block
  <2>1. d.block \in [Chain[b] -> {Height[c] : c \in Chain[b]}]
    BY DEF BlockNames
  <2> QED
    BY <2>1, ApplyNothing
<1>3. /\ \A k : k \in DOMAIN txid <=> k \in DOMAIN d.txid
      /\ \A k \in DOMAIN txid : txid[k] = d.txid[k]
  BY ApplyTable, EmptyTableIsEmpty
<1>4. /\ \A k : k \in DOMAIN at <=> k \in DOMAIN d.at
      /\ \A k \in DOMAIN at : at[k] = d.at[k]
  BY ApplyTable, EmptyTableIsEmpty
<1> HIDE DEF txid, at
<1>5. TxNames(d.tx, txid, last, b)
  BY <1>3 DEF TxNames
<1>6. BlockNames(d.block, at, b)
  BY <1>4 DEF BlockNames
<1> QED
  BY <1>1, <1>2, <1>5, <1>6 DEF Names, txid, at

\* A batch is what waits in memory, with lists of its own.
LEMMA GatherParts ==
    ASSUME NEW b, NEW m, NEW d, IsMem(m)
    PROVE  LET g == Gather(b, m, d)
           IN  /\ g.best = b /\ g.lastTx = m.lastTx /\ g.lastAddress = m.lastAddress
               /\ g.ops.address = m.ops.address /\ g.ops.utxo = m.ops.utxo
               /\ g.ops.tx = m.ops.tx /\ g.ops.txid = m.ops.txid
               /\ g.ops.block = m.ops.block /\ g.ops.at = m.ops.at
<1> DEFINE lists == Apply(UtxoLists(m, d), m.ops.list)
           g == Gather(b, m, d)
<1>1. g = [best |-> b, lastTx |-> m.lastTx, lastAddress |-> m.lastAddress,
           ops |-> [m.ops EXCEPT !.list = lists]]
  BY Zenon DEF Gather
<1> HIDE DEF g, lists
<1> QED
  BY <1>1 DEF IsMem, g

SymbolInv == SoundInv /\ NameInv

\* Gathering a batch from memory that is sound.
LEMMA FlushBeginsNamed ==
    ASSUME NEW m, NEW b,
           Symbols(db.address, db.lastAddress), DOMAIN db.utxo \subseteq Nat \X Nat,
           TxNames(db.tx, db.txid, db.lastTx, db.best), BlockNames(db.block, db.at, db.best),
           Sound(m, db.address), m.lastTx \in Nat \cup {NoSymbol},
           Names(m.ops, m.lastTx, db, b),
           best' = b, db' = db, pc' \in {"flush", "removalFlush"},
           inflight' = Gather(b, m, db), mem' = [m EXCEPT !.ops = EmptyOps]
    PROVE  SymbolInv'
<1>1. IsMem(m)
  BY DEF Sound
<1>2. /\ inflight'.lastTx = m.lastTx /\ inflight'.lastAddress = m.lastAddress
      /\ inflight'.ops.address = m.ops.address /\ inflight'.ops.utxo = m.ops.utxo
      /\ inflight'.ops.tx = m.ops.tx /\ inflight'.ops.txid = m.ops.txid
      /\ inflight'.ops.block = m.ops.block /\ inflight'.ops.at = m.ops.at
  BY <1>1, GatherParts
<1>3. /\ IsMem(mem') /\ mem'.lastTx = m.lastTx /\ mem'.lastAddress = m.lastAddress
      /\ mem'.seenUtxo = m.seenUtxo /\ mem'.ops = EmptyOps
  BY <1>1 DEF IsMem, EmptyOps
<1>4. /\ mem'.ops.address = EmptyTable /\ mem'.ops.utxo = EmptyTable
      /\ mem'.ops.tx = EmptyTable /\ mem'.ops.txid = EmptyTable
      /\ mem'.ops.block = EmptyTable /\ mem'.ops.at = EmptyTable
  BY <1>3 DEF EmptyOps
<1>5. Symbols(Apply(inflight'.ops.address, db.address), m.lastAddress)
  BY <1>2 DEF Sound
<1>6. Sound(mem', Apply(inflight'.ops.address, db.address))
  <2> DEFINE table == Apply(inflight'.ops.address, db.address)
  <2>1. Apply(EmptyTable, table) = table
    BY <1>5, ApplyNothing DEF Symbols
  <2>2. EmptyTable \in [DOMAIN EmptyTable -> Nat]
    BY EmptyTableIsEmpty
  <2> HIDE DEF table
  <2>3. Symbols(Apply(mem'.ops.address, table), mem'.lastAddress)
    BY <1>3, <1>4, <1>5, <2>1 DEF table
  <2>4. DOMAIN mem'.ops.address \subseteq Addresses /\ DOMAIN mem'.ops.utxo \subseteq Nat \X Nat
        /\ mem'.ops.address \in [DOMAIN mem'.ops.address -> Nat]
    BY <1>4, <2>2, EmptyTableIsEmpty
  <2>5. \A ref \in DOMAIN mem'.seenUtxo :
           ref \in OutputRefs /\ mem'.seenUtxo[ref].symbol \in Nat
    BY <1>3 DEF Sound
  <2> QED
    BY <1>3, <2>3, <2>4, <2>5 DEF Sound, table
<1>7. SoundInv'
  <2>1. DOMAIN inflight'.ops.utxo \subseteq Nat \X Nat /\ m.lastAddress \in Nat
    BY <1>2 DEF Sound, Symbols
  <2> QED
    BY <1>2, <1>3, <1>5, <1>6, <2>1 DEF SoundInv, Flushing
<1>8. Names(inflight'.ops, m.lastTx, db, b)
  BY <1>2, NamesFrame
<1>9. NameInv'
  BY <1>2, <1>3, <1>4, <1>8 DEF NameInv, Flushing, NoNames
<1> QED
  BY <1>7, <1>9 DEF SymbolInv

\* What is on disk after the batch in flight is written.
LEMMA WrittenNamed ==
    ASSUME FlushInv, SymbolInv, Flushing
    PROVE  LET d == Written(db, inflight)
           IN  /\ d.best = best /\ d.lastTx = inflight.lastTx
               /\ d.address = Apply(inflight.ops.address, db.address)
               /\ Symbols(d.address, d.lastAddress) /\ DOMAIN d.utxo \subseteq Nat \X Nat
               /\ TxNames(d.tx, d.txid, d.lastTx, d.best) /\ BlockNames(d.block, d.at, d.best)
<1> DEFINE d == Written(db, inflight)
<1>1. /\ d.best = inflight.best /\ d.lastTx = inflight.lastTx
      /\ d.lastAddress = inflight.lastAddress
      /\ d.tx = Apply(inflight.ops.tx, db.tx) /\ d.txid = Apply(inflight.ops.txid, db.txid)
      /\ d.block = Apply(inflight.ops.block, db.block) /\ d.at = Apply(inflight.ops.at, db.at)
      /\ d.address = Apply(inflight.ops.address, db.address)
      /\ d.utxo = Apply(inflight.ops.utxo, db.utxo)
  BY DEF Written
<1>2. inflight.best = best
  BY DEF FlushInv, Flushing
<1>3. DOMAIN d.utxo \subseteq Nat \X Nat
  <2>1. DOMAIN inflight.ops.utxo \subseteq Nat \X Nat /\ DOMAIN db.utxo \subseteq Nat \X Nat
    BY DEF SymbolInv, SoundInv
  <2>2. \A k \in DOMAIN d.utxo : k \in DOMAIN inflight.ops.utxo \/ k \in DOMAIN db.utxo
    BY <1>1, ApplyTable
  <2> QED
    BY <2>1, <2>2
<1> HIDE DEF d
<1>4. Symbols(d.address, d.lastAddress)
  BY <1>1 DEF SymbolInv, SoundInv
<1>5. Names(inflight.ops, inflight.lastTx, db, best)
  BY DEF SymbolInv, NameInv
<1>6. TxNames(d.tx, d.txid, d.lastTx, d.best) /\ BlockNames(d.block, d.at, d.best)
  BY <1>1, <1>2, <1>5 DEF Names
<1> QED
  BY <1>1, <1>2, <1>3, <1>4, <1>6 DEF d

\* A process that starts finds the symbols on disk.
LEMMA RestartNamed ==
    ASSUME Symbols(db'.address, db'.lastAddress), DOMAIN db'.utxo \subseteq Nat \X Nat,
           TxNames(db'.tx, db'.txid, db'.lastTx, db'.best), BlockNames(db'.block, db'.at, db'.best),
           best' = db'.best, mem' = MemoryOf(db'), inflight' = Nothing, pc' = "idle"
    PROVE  SymbolInv'
<1>1. /\ IsMem(mem') /\ mem'.lastTx = db'.lastTx /\ mem'.lastAddress = db'.lastAddress
      /\ mem'.seenUtxo = EmptyTable /\ mem'.seenTx = EmptyTable
      /\ mem'.ops.address = EmptyTable /\ mem'.ops.utxo = EmptyTable
      /\ mem'.ops.tx = EmptyTable /\ mem'.ops.txid = EmptyTable
      /\ mem'.ops.block = EmptyTable /\ mem'.ops.at = EmptyTable
  BY DEF MemoryOf, IsMem, EmptyOps
<1>2. inflight'.ops.address = EmptyTable /\ inflight'.ops.utxo = EmptyTable
  BY DEF Nothing, EmptyOps
<1>3. Apply(EmptyTable, db'.address) = db'.address
  BY ApplyNothing DEF Symbols
<1>4. EmptyTable \in [DOMAIN EmptyTable -> Nat]
  BY EmptyTableIsEmpty
<1>5. Sound(mem', Apply(inflight'.ops.address, db'.address))
  BY <1>1, <1>2, <1>3, <1>4, EmptyTableIsEmpty DEF Sound
<1>6. SoundInv'
  BY <1>1, <1>2, <1>5, EmptyTableIsEmpty DEF SoundInv, Flushing, Symbols
<1>7. Names(mem'.ops, mem'.lastTx, db', best')
  BY <1>1, NamesOnDisk
<1>8. NameInv'
  BY <1>1, <1>4, <1>7 DEF NameInv, Flushing, TxNames
<1> QED
  BY <1>6, <1>8 DEF SymbolInv

------------------------------------------------------------------------------
(* Symbols: every step keeps the invariant *)

\* The invariant holds at the start.
LEMMA SymbolInvInit == Init => SymbolInv
<1> SUFFICES ASSUME Init PROVE SymbolInv
  OBVIOUS
<1>1. /\ db.address = EmptyTable /\ db.lastAddress = 0 /\ db.utxo = EmptyTable
      /\ db.tx = EmptyTable /\ db.txid = EmptyTable /\ db.block = EmptyTable
      /\ db.at = EmptyTable /\ db.lastTx = NoSymbol /\ db.best = NoBlock
  BY DEF Init, EmptyDb
<1>2. /\ IsMem(mem) /\ mem.lastTx = NoSymbol /\ mem.lastAddress = 0
      /\ mem.seenUtxo = EmptyTable /\ mem.seenTx = EmptyTable
      /\ mem.ops.address = EmptyTable /\ mem.ops.utxo = EmptyTable
      /\ mem.ops.tx = EmptyTable /\ mem.ops.txid = EmptyTable
      /\ mem.ops.block = EmptyTable /\ mem.ops.at = EmptyTable
  BY DEF Init, EmptyDb, MemoryOf, IsMem, EmptyOps
<1>3. inflight = Nothing /\ inflight.ops.address = EmptyTable /\ inflight.ops.utxo = EmptyTable
      /\ pc = "idle" /\ best = NoBlock
  BY DEF Init, Nothing, EmptyOps
<1>4. EmptyTable \in [{} -> Nat] /\ EmptyTable \in [DOMAIN EmptyTable -> Nat]
  BY EmptyTableIsEmpty
<1>5. Apply(EmptyTable, EmptyTable) = EmptyTable
  BY <1>4, ApplyNothing
<1>6. Symbols(EmptyTable, 0)
  BY <1>4, EmptyTableIsEmpty DEF Symbols, IsInjective
<1>7. Sound(mem, EmptyTable)
  BY <1>2, <1>4, <1>5, <1>6, EmptyTableIsEmpty DEF Sound
<1>8. SoundInv
  BY <1>1, <1>2, <1>3, <1>5, <1>6, <1>7, EmptyTableIsEmpty DEF SoundInv, Flushing
<1>9. Chain[NoBlock] = {} /\ Mined(NoBlock) = {}
  BY ChainEnds DEF Mined
<1>10. TxNames(EmptyTable, EmptyTable, NoSymbol, NoBlock)
  BY <1>4, <1>9 DEF TxNames
<1>11. BlockNames(EmptyTable, EmptyTable, NoBlock)
  <2>1. [c \in Chain[NoBlock] |-> Height[c]] = EmptyTable
    BY <1>9, EmptyTableIsEmpty
  <2> QED
    BY <1>9, <2>1 DEF BlockNames
<1>12. Names(mem.ops, mem.lastTx, db, best)
  BY <1>1, <1>2, <1>3, <1>5, <1>10, <1>11 DEF Names
<1>13. NameInv
  BY <1>1, <1>2, <1>3, <1>4, <1>10, <1>11, <1>12 DEF NameInv, Flushing
<1> QED
  BY <1>8, <1>13 DEF SymbolInv

\* Then one lemma for each action.
LEMMA AddBlockNamed == ASSUME FlushInv, SymbolInv, AddBlock PROVE SymbolInv'
<1>1. PICK b \in Blocks : Parent[b] = best /\ best' = b /\ mem' = SaveBlock(mem, db, b)
  BY DEF AddBlock
<1>2. /\ pc = "idle" /\ pc' \in {"idle", "aborted"} /\ UNCHANGED <<inflight, db>>
  BY DEF AddBlock
<1>3. inflight = Nothing /\ Sound(mem, Apply(inflight.ops.address, db.address))
      /\ DOMAIN db.utxo \subseteq Nat \X Nat
  BY <1>2 DEF SymbolInv, SoundInv, Flushing
<1>4. mem.seenTx = mem.ops.tx /\ mem.ops.tx \in [DOMAIN mem.ops.tx -> Nat]
      /\ Names(mem.ops, mem.lastTx, db, best)
  BY <1>2 DEF SymbolInv, NameInv
<1>5. /\ Sound(mem', Apply(inflight.ops.address, db.address))
      /\ mem'.seenTx = mem'.ops.tx /\ mem'.ops.tx \in [DOMAIN mem'.ops.tx -> Nat]
      /\ Names(mem'.ops, mem'.lastTx, db, b)
  BY <1>1, <1>3, <1>4, SaveBlockNames
<1>6. mem'.lastAddress \in Nat /\ mem'.lastTx \in Nat \cup {NoSymbol}
  BY <1>5 DEF Sound, Symbols, Names, TxNames
<1>7. SoundInv'
  BY <1>2, <1>3, <1>5, <1>6 DEF SymbolInv, SoundInv, Flushing
<1>8. NameInv'
  BY <1>1, <1>2, <1>5, <1>6 DEF SymbolInv, NameInv, Flushing
<1> QED
  BY <1>7, <1>8 DEF SymbolInv

\* The base of memory's symbols when no batch is in flight.
LEMMA RestingTable ==
    ASSUME SymbolInv, ~Flushing
    PROVE  Apply(inflight.ops.address, db.address) = db.address
<1>1. inflight.ops.address = EmptyTable
  BY DEF SymbolInv, SoundInv, Nothing, EmptyOps
<1>2. db.address \in [DOMAIN db.address -> Nat]
  BY DEF SymbolInv, SoundInv, Symbols
<1> QED
  BY <1>1, <1>2, ApplyNothing

LEMMA FlushNamed == ASSUME FlushInv, SymbolInv, Flush \/ StartRemoval PROVE SymbolInv'
<1>1. /\ pc = "idle" /\ pc' \in {"flush", "removalFlush"} /\ best' = best /\ db' = db
      /\ inflight' = Gather(best, mem, db) /\ mem' = [mem EXCEPT !.ops = EmptyOps]
  BY DEF Flush, StartRemoval, BeginFlush
<1>2. Sound(mem, db.address)
  BY <1>1, RestingTable DEF SymbolInv, SoundInv, Flushing
<1>3. /\ Symbols(db.address, db.lastAddress) /\ DOMAIN db.utxo \subseteq Nat \X Nat
      /\ TxNames(db.tx, db.txid, db.lastTx, db.best) /\ BlockNames(db.block, db.at, db.best)
      /\ mem.lastTx \in Nat \cup {NoSymbol}
  BY DEF SymbolInv, SoundInv, NameInv
<1>4. Names(mem.ops, mem.lastTx, db, best)
  BY <1>1 DEF SymbolInv, NameInv
<1> QED
  BY <1>1, <1>2, <1>3, <1>4, FlushBeginsNamed

LEMMA FlushEndsNamed == ASSUME FlushInv, SymbolInv, FlushEnds PROVE SymbolInv'
<1>1. /\ Flushing /\ pc' \in {"idle", "removing"} /\ best' = best
      /\ db' = Written(db, inflight) /\ inflight' = Nothing
      /\ mem' = [mem EXCEPT !.seenBlock = EmptyTable, !.seenTx = EmptyTable,
                            !.seenAddress = EmptyTable, !.seenUtxo = EmptyTable,
                            !.added = EmptyTable]
  BY DEF FlushEnds, Flushing
<1>2. /\ db'.best = best /\ db'.lastTx = inflight.lastTx
      /\ db'.address = Apply(inflight.ops.address, db.address)
      /\ Symbols(db'.address, db'.lastAddress) /\ DOMAIN db'.utxo \subseteq Nat \X Nat
      /\ TxNames(db'.tx, db'.txid, db'.lastTx, db'.best) /\ BlockNames(db'.block, db'.at, db'.best)
  BY <1>1, WrittenNamed
<1>3. Sound(mem, db'.address)
  BY <1>1, <1>2 DEF SymbolInv, SoundInv, Flushing
<1>4. IsMem(mem)
  BY <1>3 DEF Sound
<1>5. /\ IsMem(mem') /\ mem'.ops = mem.ops /\ mem'.lastTx = mem.lastTx
      /\ mem'.lastAddress = mem.lastAddress /\ mem'.seenTx = EmptyTable
      /\ mem'.seenUtxo = EmptyTable
  BY <1>1, <1>4 DEF IsMem
<1>6. NoNames(mem) /\ mem.lastTx = inflight.lastTx /\ mem.lastTx \in Nat \cup {NoSymbol}
  BY <1>1 DEF SymbolInv, NameInv
<1>7. Sound(mem', db'.address)
  BY <1>3, <1>5, EmptyTableIsEmpty DEF Sound
<1>8. SoundInv'
  <2>1. inflight'.ops.address = EmptyTable /\ inflight'.ops.utxo = EmptyTable
    BY <1>1 DEF Nothing, EmptyOps
  <2>2. Apply(EmptyTable, db'.address) = db'.address
    BY <1>2, ApplyNothing DEF Symbols
  <2>3. mem'.lastAddress \in Nat
    BY <1>7 DEF Sound, Symbols
  <2> QED
    BY <1>1, <1>2, <1>7, <2>1, <2>2, <2>3, EmptyTableIsEmpty DEF SoundInv, Flushing
<1>9. NoNames(mem')
  BY <1>5, <1>6 DEF NoNames
<1>10. Names(mem'.ops, mem'.lastTx, db', best')
  BY <1>1, <1>2, <1>5, <1>6, <1>9, NamesOnDisk DEF NoNames
<1>11. mem'.seenTx = mem'.ops.tx /\ mem'.ops.tx \in [DOMAIN mem'.ops.tx -> Nat]
  BY <1>5, <1>9, EmptyTableIsEmpty DEF NoNames
<1>12. NameInv'
  BY <1>1, <1>2, <1>5, <1>6, <1>9, <1>10, <1>11 DEF NameInv, Flushing
<1> QED
  BY <1>8, <1>12 DEF SymbolInv

LEMMA RemoveBestNamed == ASSUME FlushInv, SymbolInv, RemoveBest PROVE SymbolInv'
<1> DEFINE m == RemoveBlock(mem, db, best)
<1>1. pc = "removing" /\ best \in Blocks /\ db' = db /\ db.best = best
  BY DEF RemoveBest, FlushInv, BlockOrNone
<1>2. Sound(mem, db.address)
  BY <1>1, RestingTable DEF SymbolInv, SoundInv, Flushing
<1>3. /\ Symbols(db.address, db.lastAddress) /\ DOMAIN db.utxo \subseteq Nat \X Nat
      /\ TxNames(db.tx, db.txid, db.lastTx, db.best) /\ BlockNames(db.block, db.at, db.best)
      /\ inflight = Nothing
  BY <1>1 DEF SymbolInv, SoundInv, NameInv, Flushing
<1>4. NoNames(mem) /\ mem.seenTx = mem.ops.tx /\ Names(mem.ops, mem.lastTx, db, best)
  BY <1>1 DEF SymbolInv, NameInv
<1>5. /\ Sound(m, db.address) /\ m.lastTx \in Nat \cup {NoSymbol}
      /\ Names(m.ops, m.lastTx, db, Parent[best])
  BY <1>1, <1>2, <1>3, <1>4, RemoveBlockNames
<1> HIDE DEF m
<1>6. CASE m.failed
  <2>1. mem' = m /\ pc' = "aborted" /\ UNCHANGED <<best, inflight>>
    BY <1>6 DEF RemoveBest, m
  <2>2. m.lastAddress \in Nat
    BY <1>5 DEF Sound, Symbols
  <2>3. SoundInv'
    BY <1>1, <1>3, <2>1, <2>2 DEF SymbolInv, SoundInv, Flushing
  <2>4. NameInv'
    BY <1>1, <1>3, <1>5, <2>1 DEF NameInv, Flushing
  <2> QED
    BY <2>3, <2>4 DEF SymbolInv
<1>7. CASE ~m.failed
  <2>1. /\ best' = Parent[best] /\ pc' = "flush"
        /\ inflight' = Gather(Parent[best], m, db) /\ mem' = [m EXCEPT !.ops = EmptyOps]
    BY <1>7 DEF RemoveBest, BeginFlush, m
  <2> QED
    BY <1>1, <1>3, <1>5, <2>1, FlushBeginsNamed
<1> QED
  BY <1>6, <1>7

LEMMA QueryNamed == ASSUME FlushInv, SymbolInv, Query PROVE SymbolInv'
<1> DEFINE table == Apply(inflight.ops.address, db.address)
<1>2. pc # "aborted" /\ UNCHANGED <<best, pc, inflight, db>>
  BY QueryStep
<1>3. Sound(mem, table)
  BY <1>2 DEF SymbolInv, SoundInv
<1> HIDE DEF table
<1> DEFINE Same(n) == /\ n.lastTx = mem.lastTx /\ n.seenTx = mem.seenTx
                      /\ n.ops.tx = mem.ops.tx /\ n.ops.txid = mem.ops.txid
                      /\ n.ops.block = mem.ops.block /\ n.ops.at = mem.ops.at
<1>4. Sound(mem', table) /\ Same(mem')
  <2>1. ASSUME NEW a \in Addresses, mem' = [mem EXCEPT !.asking = @ \cup {<<budget.queries, a>>}]
        PROVE  Sound(mem', table) /\ Same(mem')
    <3>1. IsMem(mem)
      BY <1>3 DEF Sound
    <3>2. \A call \in mem.asking \cup {<<budget.queries, a>>} : call[2] \in Addresses
      BY <3>1 DEF IsMem
    <3>3. /\ mem'.asking = mem.asking \cup {<<budget.queries, a>>}
          /\ DOMAIN mem' = DOMAIN mem /\ mem'.ops = mem.ops /\ mem'.lastTx = mem.lastTx
          /\ mem'.lastAddress = mem.lastAddress /\ mem'.seenTx = mem.seenTx
          /\ mem'.seenUtxo = mem.seenUtxo
      BY <2>1, <3>1 DEF IsMem
    <3> QED
      BY <1>3, <3>1, <3>2, <3>3 DEF Sound, IsMem
  <2>2. ASSUME NEW call \in mem.asking,
               mem' = [NewSymbol(mem, call[2]) EXCEPT !.asking = @ \ {call}]
        PROVE  Sound(mem', table) /\ Same(mem')
    <3> DEFINE n == NewSymbol(mem, call[2])
    <3>1. call[2] \in Addresses
      BY <1>3 DEF Sound, IsMem
    <3>2. Sound(n, table) /\ SameNames(mem, n) /\ IsMem(n)
      BY <1>3, <3>1, NewSymbolSound DEF Sound
    <3> HIDE DEF n
    <3>3. /\ mem'.asking = n.asking \ {call}
          /\ DOMAIN mem' = DOMAIN n /\ mem'.ops = n.ops /\ mem'.lastTx = n.lastTx
          /\ mem'.lastAddress = n.lastAddress /\ mem'.seenTx = n.seenTx
          /\ mem'.seenUtxo = n.seenUtxo
      BY <2>2, <3>2 DEF IsMem, n
    <3> QED
      BY <3>2, <3>3 DEF Sound, IsMem, SameNames
  <2> QED
    BY <2>1, <2>2, QueryStep
<1> USE DEF table
<1>5. mem'.lastAddress \in Nat
  BY <1>4 DEF Sound, Symbols
<1>6. SoundInv'
  BY <1>2, <1>4, <1>5 DEF SymbolInv, SoundInv, Flushing
<1>7. ASSUME Names(mem.ops, mem.lastTx, db, best) PROVE Names(mem'.ops, mem'.lastTx, db, best)
  BY <1>4, <1>7, NamesFrame
<1>8. NameInv'
  BY <1>2, <1>4, <1>7 DEF SymbolInv, NameInv, Flushing, NoNames
<1> QED
  BY <1>6, <1>8 DEF SymbolInv

LEMMA RestartsNamed == ASSUME FlushInv, SymbolInv, Restart PROVE SymbolInv'
<1>1. db' = db \/ (db' = Written(db, inflight) /\ Flushing)
  BY DEF Restart, Flushing
<1>2. /\ Symbols(db'.address, db'.lastAddress) /\ DOMAIN db'.utxo \subseteq Nat \X Nat
      /\ TxNames(db'.tx, db'.txid, db'.lastTx, db'.best) /\ BlockNames(db'.block, db'.at, db'.best)
  <2>1. CASE db' = db
    BY <2>1 DEF SymbolInv, SoundInv, NameInv
  <2>2. CASE db' = Written(db, inflight) /\ Flushing
    BY <2>2, WrittenNamed
  <2> QED
    BY <1>1, <2>1, <2>2
<1> QED
  BY <1>2, RestartNamed DEF Restart

LEMMA SymbolInvNext == FlushInv /\ SymbolInv /\ [Next]_vars => SymbolInv'
<1> SUFFICES ASSUME FlushInv, SymbolInv, [Next]_vars PROVE SymbolInv'
  OBVIOUS
<1>1. CASE UNCHANGED vars
  BY <1>1 DEF vars, SymbolInv, SoundInv, NameInv, Flushing
<1> QED
  BY <1>1, AddBlockNamed, FlushNamed, FlushEndsNamed, RemoveBestNamed, QueryNamed, RestartsNamed
     DEF Next

\* The bounds are numbers, and a block is only taken back if the bound allows one.
BudgetInv ==
    /\ budget \in [removals : Nat, crashes : Nat, queries : Nat]
    /\ budget.removals <= Removals /\ budget.queries <= Queries
    /\ pc \in {"removalFlush", "removing"} => Removals > 0

LEMMA BudgetInvInit == Init => BudgetInv
  BY UtxoIndexerAssumption DEF Init, UtxoIndexerAssumption, BudgetInv

LEMMA BudgetInvNext == BudgetInv /\ [Next]_vars => BudgetInv'
<1> SUFFICES ASSUME BudgetInv, [Next]_vars PROVE BudgetInv'
  OBVIOUS
<1>1. Removals \in Nat /\ Queries \in Nat
  BY UtxoIndexerAssumption DEF UtxoIndexerAssumption
<1>2. CASE StartRemoval
  BY <1>1, <1>2 DEF StartRemoval, BudgetInv
<1>3. CASE Query
  <2>1. pc' = pc /\ budget.queries \in Nat
    BY <1>3, QueryStep DEF BudgetInv
  <2>2. \/ budget' = budget
        \/ budget.queries > 0 /\ budget' = [budget EXCEPT !.queries = @ - 1]
    BY <1>3, QueryStep
  <2>3. CASE budget' = budget
    BY <2>1, <2>3 DEF BudgetInv
  <2>4. CASE budget.queries > 0 /\ budget' = [budget EXCEPT !.queries = @ - 1]
    <3>1. /\ budget'.queries = budget.queries - 1 /\ budget'.removals = budget.removals
          /\ budget' \in [removals : Nat, crashes : Nat, queries : Nat]
      BY <2>1, <2>4 DEF BudgetInv
    <3> QED
      BY <1>1, <2>1, <3>1 DEF BudgetInv
  <2> QED
    BY <2>2, <2>3, <2>4
<1>4. CASE Restart
  BY <1>4 DEF Restart, BudgetInv
<1>5. CASE AddBlock \/ Flush \/ FlushEnds \/ RemoveBest
  BY <1>5 DEF AddBlock, Flush, FlushEnds, RemoveBest, BudgetInv
<1>6. CASE UNCHANGED vars
  BY <1>6 DEF vars, BudgetInv
<1> QED
  BY <1>2, <1>3, <1>4, <1>5, <1>6 DEF Next

\* A look-up that is under way has taken from the bound.
EarlyInv == NoEarly => mem.asking = {}

LEMMA EarlyInvInit == Init => EarlyInv
  BY DEF Init, MemoryOf, EarlyInv

\* No step of the worker changes the look-ups that are under way.
LEMMA AskingStays ==
    ASSUME FlushInv, SymbolInv, AddBlock \/ Flush \/ StartRemoval \/ FlushEnds \/ RemoveBest
    PROVE  mem'.asking = mem.asking
<1>1. CASE AddBlock
  <2>1. PICK b \in Blocks : Parent[b] = best /\ mem' = SaveBlock(mem, db, b)
    BY <1>1 DEF AddBlock
  <2>2. pc = "idle"
    BY <1>1 DEF AddBlock
  <2>3. Sound(mem, Apply(inflight.ops.address, db.address)) /\ DOMAIN db.utxo \subseteq Nat \X Nat
    BY <2>2 DEF SymbolInv, SoundInv
  <2>4. mem.seenTx = mem.ops.tx /\ mem.ops.tx \in [DOMAIN mem.ops.tx -> Nat]
        /\ Names(mem.ops, mem.lastTx, db, Parent[b])
    BY <2>1, <2>2 DEF SymbolInv, NameInv
  <2> QED
    BY <2>1, <2>3, <2>4, SaveBlockNames
<1>2. CASE Flush \/ StartRemoval
  <2>1. mem' = [mem EXCEPT !.ops = EmptyOps] /\ pc = "idle"
    BY <1>2 DEF Flush, StartRemoval, BeginFlush
  <2> QED
    BY <2>1 DEF SymbolInv, SoundInv, Sound, IsMem
<1>3. CASE FlushEnds
  <2>1. mem' = [mem EXCEPT !.seenBlock = EmptyTable, !.seenTx = EmptyTable,
                           !.seenAddress = EmptyTable, !.seenUtxo = EmptyTable,
                           !.added = EmptyTable]
        /\ pc # "aborted"
    BY <1>3 DEF FlushEnds
  <2> QED
    BY <2>1 DEF SymbolInv, SoundInv, Sound, IsMem
<1>4. CASE RemoveBest
  <2> DEFINE m == RemoveBlock(mem, db, best)
  <2>1. pc = "removing" /\ best \in Blocks
        /\ (mem' = m \/ mem' = [m EXCEPT !.ops = EmptyOps])
    BY <1>4 DEF RemoveBest, BeginFlush, FlushInv, BlockOrNone
  <2>2. Sound(mem, Apply(inflight.ops.address, db.address)) /\ DOMAIN db.utxo \subseteq Nat \X Nat
    BY <2>1 DEF SymbolInv, SoundInv
  <2>3. NoNames(mem) /\ mem.seenTx = mem.ops.tx /\ Names(mem.ops, mem.lastTx, db, best)
    BY <2>1 DEF SymbolInv, NameInv
  <2>4. Sound(m, Apply(inflight.ops.address, db.address)) /\ m.asking = mem.asking
    BY <2>1, <2>2, <2>3, RemoveBlockNames
  <2> HIDE DEF m
  <2> QED
    BY <2>1, <2>4 DEF Sound, IsMem
<1> QED
  BY <1>1, <1>2, <1>3, <1>4

\* An early look-up is under way only after a query has begun one.
LEMMA EarlyInvNext ==
    FlushInv /\ SymbolInv /\ BudgetInv /\ EarlyInv /\ [Next]_vars => EarlyInv'
<1> SUFFICES ASSUME FlushInv, SymbolInv, BudgetInv, EarlyInv, [Next]_vars PROVE EarlyInv'
  OBVIOUS
<1>1. CASE AddBlock \/ Flush \/ StartRemoval \/ FlushEnds \/ RemoveBest
  <2>1. mem'.asking = mem.asking
    BY <1>1, AskingStays
  <2>2. budget' = budget \/ budget' = [budget EXCEPT !.removals = @ - 1]
    BY <1>1 DEF AddBlock, Flush, StartRemoval, FlushEnds, RemoveBest
  <2>3. budget'.queries = budget.queries
    BY <2>2 DEF BudgetInv
  <2> QED
    BY <2>1, <2>3 DEF EarlyInv, NoEarly
<1>5. CASE Query
  <2>1. CASE budget' = budget /\ mem.asking # {}
    BY <2>1 DEF EarlyInv, NoEarly
  <2>2. CASE budget.queries > 0 /\ budget' = [budget EXCEPT !.queries = @ - 1]
    <3>1. budget'.queries = budget.queries - 1 /\ budget.queries \in Nat
      BY <2>2 DEF BudgetInv
    <3>2. budget.queries <= Queries /\ Queries \in Nat
      BY UtxoIndexerAssumption DEF UtxoIndexerAssumption, BudgetInv
    <3> QED
      BY <3>1, <3>2 DEF EarlyInv, NoEarly
  <2> QED
    BY <1>5, <2>1, <2>2, QueryStep
<1>6. CASE Restart
  BY <1>6 DEF Restart, MemoryOf, EarlyInv
<1>7. CASE UNCHANGED vars
  BY <1>7 DEF vars, EarlyInv, NoEarly
<1> QED
  BY <1>1, <1>5, <1>6, <1>7 DEF Next

AllInv == FlushInv /\ SafeInv /\ BudgetInv /\ SymbolInv /\ EarlyInv

\* As long as there was no early look-up, no step continues one: none is a step of a query
\* but its first, after which there was one.
LEMMA NoEarlyStep ==
    ASSUME BudgetInv, EarlyInv, [Next]_vars, NoEarly'
    PROVE  NoEarly /\ ~Query
<1>1. budget.queries \in Nat /\ budget.queries <= Queries /\ Queries \in Nat
  BY UtxoIndexerAssumption DEF UtxoIndexerAssumption, BudgetInv
<1>2. ASSUME budget' = [budget EXCEPT !.queries = @ - 1] PROVE FALSE
  <2>1. budget'.queries = budget.queries - 1
    BY <1>2 DEF BudgetInv
  <2> QED
    BY <1>1, <2>1 DEF NoEarly
<1>3. \/ Query
      \/ budget' = budget
      \/ budget' = [budget EXCEPT !.removals = @ - 1]
      \/ budget' = [budget EXCEPT !.crashes = @ - 1]
  BY DEF Next, AddBlock, Flush, StartRemoval, FlushEnds, RemoveBest, Restart, vars
<1>4. ASSUME Query PROVE FALSE
  <2>1. budget' = budget /\ mem.asking # {}
    BY <1>2, <1>4, QueryStep
  <2> QED
    BY <2>1 DEF EarlyInv, NoEarly
<1>5. budget'.queries = budget.queries
  BY <1>3, <1>4 DEF BudgetInv
<1> QED
  BY <1>4, <1>5 DEF NoEarly

LEMMA AllInvariant == Spec => []AllInv
<1>1. Init => AllInv
  BY FlushInvInit, SafeInvInit, BudgetInvInit, SymbolInvInit, EarlyInvInit DEF AllInv
<1>2. AllInv /\ [Next]_vars => AllInv'
  BY FlushInvNext, SafeInvNext, BudgetInvNext, SymbolInvNext, EarlyInvNext DEF AllInv
<1> QED
  BY <1>1, <1>2, PTL DEF Spec

\* Transactions on a chain are transactions.
LEMMA MinedType == ASSUME NEW b \in BlockOrNone PROVE Mined(b) \subseteq Txs
<1>1. \A c \in Chain[b] : c \in Blocks
  BY ChainHeight
<1>2. \A c \in Blocks : ToSet(TxsOf[c]) \subseteq Txs
  BY UtxoIndexerAssumption DEF UtxoIndexerAssumption, ToSet
<1> QED
  BY <1>1, <1>2 DEF Mined

LEMMA AllInvTypes == AllInv => TypeOK
<1> SUFFICES ASSUME AllInv PROVE TypeOK
  OBVIOUS
<1> USE DEF AllInv, SymbolInv
<1>1. best \in BlockOrNone /\ db.best \in BlockOrNone
  BY DEF FlushInv
<1>2. HeightOf(best) \in Nat \cup {NoSymbol} /\ HeightOf(db.best) \in Nat \cup {NoSymbol}
  BY <1>1, BlockTreeAssumption DEF BlockTreeAssumption, BlockOrNone, HeightOf, NoSymbol
<1>3. safe \in Nat \cup {NoSymbol}
  BY <1>2 DEF SafeInv
<1>4. inflight.best \in BlockOrNone /\ inflight.lastTx \in Nat \cup {NoSymbol}
      /\ inflight.lastAddress \in Nat
  <2>1. CASE Flushing
    <3>1. inflight.best = best
      BY <2>1 DEF FlushInv, Flushing
    <3>2. inflight.lastTx \in Nat \cup {NoSymbol}
      BY <2>1 DEF NameInv
    <3>3. inflight.lastAddress \in Nat
      BY <2>1 DEF SoundInv, Symbols
    <3> QED
      BY <1>1, <3>1, <3>2, <3>3
  <2>2. CASE ~Flushing
    BY <2>2 DEF SoundInv, Nothing, BlockOrNone
  <2> QED
    BY <2>1, <2>2
<1>5. db.lastTx \in Nat \cup {NoSymbol} /\ db.lastAddress \in Nat
      /\ mem.lastTx \in Nat \cup {NoSymbol} /\ mem.lastAddress \in Nat
  BY DEF NameInv, TxNames, SoundInv, Symbols
<1>6. DOMAIN db.tx \subseteq Txs /\ Range(db.tx) \subseteq Nat
  <2>1. db.tx \in [Mined(db.best) -> Nat]
    BY DEF NameInv, TxNames
  <2> QED
    BY <1>1, <2>1, MinedType DEF Range
<1>7. DOMAIN db.address \subseteq Addresses /\ Range(db.address) \subseteq Nat
  <2>1. DOMAIN db.address \subseteq Addresses /\ db.address \in [DOMAIN db.address -> Nat]
    BY DEF SoundInv, Symbols
  <2> QED
    BY <2>1 DEF Range
<1>8. DOMAIN db.utxo \subseteq Nat \X Nat
      /\ budget \in [removals : Nat, crashes : Nat, queries : Nat]
  BY DEF SoundInv, BudgetInv
<1>9. pc \in {"idle", "flush", "removalFlush", "removing", "aborted"}
  BY DEF SoundInv
<1> QED
  BY <1>1, <1>3, <1>4, <1>5, <1>6, <1>7, <1>8, <1>9 DEF TypeOK

LEMMA AllInvDistinct == AllInv => SymbolsDistinct
<1> SUFFICES ASSUME AllInv PROVE SymbolsDistinct
  OBVIOUS
<1>1. TxNames(db.tx, db.txid, db.lastTx, db.best) /\ Symbols(db.address, db.lastAddress)
  BY DEF AllInv, SymbolInv, NameInv, SoundInv
<1>2. DOMAIN db.tx = Mined(db.best)
  BY <1>1 DEF TxNames
<1>3. \A t \in DOMAIN db.tx : db.tx[t] <= db.lastTx /\ db.txid[db.tx[t]] = t
  BY <1>1, <1>2 DEF TxNames
<1>4. IsInjective(db.tx)
  BY <1>3 DEF IsInjective
<1> QED
  BY <1>1, <1>3, <1>4 DEF SymbolsDistinct, Symbols

LEMMA AllInvNamed == AllInv => ChainNamed
<1> SUFFICES ASSUME AllInv PROVE ChainNamed
  OBVIOUS
<1>1. TxNames(db.tx, db.txid, db.lastTx, db.best) /\ BlockNames(db.block, db.at, db.best)
  BY DEF AllInv, SymbolInv, NameInv
<1>2. DOMAIN db.tx = Mined(db.best)
  BY <1>1 DEF TxNames
<1> QED
  BY <1>1, <1>2 DEF ChainNamed, TxNames, BlockNames

\* The variables of the indexer keep their types: symbol counters are numbers or, for
\* transactions on an empty database, null, and keys of utxo records are pairs of symbols
\* and positions, whatever is added, removed, asked, flushed or lost in a crash.
THEOREM IndexerTypes == Spec => []TypeOK
  BY AllInvariant, AllInvTypes, PTL

\* No two transactions and no two addresses on disk share a symbol, and none has one that
\* the counters would hand out again, although removeBlock sets the counter of transactions
\* back and a query may use a symbol while a batch is written.
THEOREM SymbolsStayDistinct == Spec => []SymbolsDistinct
  BY AllInvariant, AllInvDistinct, PTL

\* The tables of symbols on disk name exactly the blocks and transactions of the indexed
\* chain and lead back from each symbol, for every block tree, every transactions and any
\* number of removals, queries and crashes.
THEOREM ChainStaysNamed == Spec => []ChainNamed
  BY AllInvariant, AllInvNamed, PTL
===============================================================================
