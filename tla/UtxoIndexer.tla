----------------------------- MODULE UtxoIndexer -----------------------------
(***************************************************************************)
(* The tables of src/Indexer.js: what saveBlock adds for the transactions  *)
(* of a block, what removeBlock takes back, how processBatches carries it  *)
(* to the database, and what balance queries read there. Module ChainSync  *)
(* shows in which order blocks arrive; here each block to add follows      *)
(* bestBlockHash, and the block to remove is bestBlockHash.                *)
(***************************************************************************)
EXTENDS BlockTree, SequencesExt

CONSTANTS
    TxsOf,      \* TxsOf[b]: the transactions of block b, in order
    Ins,        \* Ins[t]: the outputs <<tx, n>> that t spends, in order
    Outs,       \* Outs[t]: the outputs of t, in order: [address, sats]
    Addresses,  \* the address strings
    NoAddress,  \* no address: an output that has not exactly one, a list without one
    Deleted,    \* the value of a 'del' operation
    Removals,   \* bound: how many blocks may be removed
    Crashes,    \* bound: how often the process may be killed
    Queries     \* bound: how often clients may ask for an address the indexer does not know

Txs == DOMAIN Outs
OutputRefs == UNION {{<<t, n>> : n \in DOMAIN Outs[t]} : t \in Txs}

NoSymbol == -1      \* null, and the value of lastTxSymbol on an empty database

\* The values of the utxo table. spentIn and spentOn are left out of an unspent one.
Records == [sats : Nat, address : Nat, createdOn : Nat,
            spentIn : Nat \cup {NoSymbol}, spentOn : Nat \cup {NoSymbol}]

\* The values of address-utxos: the outputs of an address, by tx symbol and position.
Lists == [address : Addresses \cup {NoAddress}, outs : Seq(Nat \X Nat)]

ASSUME UtxoIndexerAssumption ==
    /\ NoAddress \notin Addresses
    /\ Deleted \notin Nat \cup Txs \cup Blocks \cup Records \cup Lists
    /\ \A t \in Txs : Outs[t] \in Seq([address : Addresses \cup {NoAddress}, sats : Nat])
    /\ Ins \in [Txs -> Seq(OutputRefs)]
    /\ TxsOf \in [Blocks -> Seq(Txs)]
    /\ {Removals, Crashes, Queries} \subseteq Nat

\* No chain has a transaction in two of its blocks: the node, which checks the chain, sees
\* to it, and tx symbols go by the hash of the transaction.
ASSUME MinedOnce ==
    \A b \in Blocks : \A c, d \in Chain[b] : ToSet(TxsOf[c]) \cap ToSet(TxsOf[d]) # {} => c = d

\* What a block spends was made by a transaction before, in the block or on its chain, and
\* no chain spends an output twice. The node sees to that, too.
ASSUME SpentInOrder ==
    \A b \in Blocks : \A i \in DOMAIN TxsOf[b] : \A ref \in ToSet(Ins[TxsOf[b][i]]) :
       \/ \E c \in Chain[Parent[b]] : ref[1] \in ToSet(TxsOf[c])
       \/ \E j \in 1 .. i - 1 : TxsOf[b][j] = ref[1]

ASSUME SpentOnce ==
    /\ \A t \in Txs : IsInjective(Ins[t])
    /\ \A b \in Blocks : \A c, e \in Chain[b] :
          \A t \in ToSet(TxsOf[c]), u \in ToSet(TxsOf[e]) :
             ToSet(Ins[t]) \cap ToSet(Ins[u]) # {} => t = u

VARIABLES
    best,       \* bestBlockHash; lastBlockSymbol is its height
    pc,         \* what the worker, or a saveState, is at
    safe,       \* safeLastBlockSymbol
    mem,        \* symbol counters, last-seen caches, waiting operations
    inflight,   \* the batch a running processBatches has gathered
    db,         \* the database
    budget      \* what is left of the bounds

vars == <<best, pc, safe, mem, inflight, db, budget>>

------------------------------------------------------------------------------
(* Tables and operations *)

\* A table is a function on its keys; waiting operations are one too, holding the
\* last operation on each key: the value put, or Deleted.
EmptyTable == <<>>

With(table, key, value) ==
    [k \in DOMAIN table \cup {key} |-> IF k = key THEN value ELSE table[k]]

Apply(ops, table) ==
    LET kept == (DOMAIN table \cup DOMAIN ops) \ {k \in DOMAIN ops : ops[k] = Deleted}
    IN  [k \in kept |-> IF k \in DOMAIN ops THEN ops[k] ELSE table[k]]

\* block: block-sym, at: sym-block, tx: tx-sym, txid: sym-tx, address: address-sym,
\* utxo: the utxo records by <<tx symbol, n>>, list: address-utxos by address symbol.
EmptyOps == [block |-> EmptyTable, at |-> EmptyTable, tx |-> EmptyTable, txid |-> EmptyTable,
             address |-> EmptyTable, utxo |-> EmptyTable, list |-> EmptyTable]

EmptyDb == [best |-> NoBlock, lastTx |-> NoSymbol, lastAddress |-> 0,
            block |-> EmptyTable, at |-> EmptyTable, tx |-> EmptyTable, txid |-> EmptyTable,
            address |-> EmptyTable, utxo |-> EmptyTable, list |-> EmptyTable]

\* Mutant of MemoryOf: lastTxSymbol is null on an empty database.
MemoryOfNull(d) ==
    [lastTx |-> IF d.best = NoBlock THEN NoBlock ELSE d.lastTx,
     lastAddress |-> d.lastAddress, seenBlock |-> EmptyTable, seenTx |-> EmptyTable,
     seenAddress |-> EmptyTable, seenUtxo |-> EmptyTable, added |-> EmptyTable,
     asking |-> {}, ops |-> EmptyOps, failed |-> FALSE]

\* The constructor, initTxSymbol and initAddressSymbol. asking: the look-ups of clients that
\* have found nothing and go on; failed: an error was thrown that ends in the worker's catch.
MemoryOf(d) ==
    [lastTx |-> d.lastTx, lastAddress |-> d.lastAddress,
     seenBlock |-> EmptyTable, seenTx |-> EmptyTable,
     seenAddress |-> EmptyTable, seenUtxo |-> EmptyTable, added |-> EmptyTable,
     asking |-> {}, ops |-> EmptyOps, failed |-> FALSE]

------------------------------------------------------------------------------
(* Look-ups: the last-seen caches first, then the database *)

GetTxSymbol(m, d, t) ==
    CASE t \in DOMAIN m.seenTx -> m.seenTx[t]
      [] t \in DOMAIN d.tx \ DOMAIN m.seenTx -> d.tx[t]
      [] OTHER -> NoSymbol

HasSymbol(m, d, a) == a \in DOMAIN m.seenAddress \cup DOMAIN d.address

AddressSymbol(m, d, a) ==
    IF a \in DOMAIN m.seenAddress THEN m.seenAddress[a] ELSE d.address[a]

\* What getAddressSymbolByAddress does for an address it has not found: the next symbol,
\* in place of any the address has got since.
NewSymbol(m, a) ==
    LET symbol == m.lastAddress + 1
    IN  [m EXCEPT !.lastAddress = symbol,
                  !.seenAddress = With(@, a, symbol),
                  !.ops.address = With(@, a, symbol)]

\* getAddressSymbolByAddress, called by the worker: until a client asks for an address that
\* is not known, nobody else names one while the worker reads address-sym. A symbol found
\* in the database is not entered into the cache.
WithSymbol(m, d, a) == IF HasSymbol(m, d, a) THEN m ELSE NewSymbol(m, a)

\* Mutant of Found: the cache of last seen outputs is not looked at.
FoundOnDisk(m, d, ref) == <<GetTxSymbol(m, d, ref[1]), ref[2]>> \in DOMAIN d.utxo

\* utxoExists: whether there is a record, its key and its value. An entry of the
\* cache carries its own tx symbol.
Found(m, d, ref) ==
    \/ ref \in DOMAIN m.seenUtxo
    \/ <<GetTxSymbol(m, d, ref[1]), ref[2]>> \in DOMAIN d.utxo

UtxoKey(m, d, ref) ==
    IF ref \in DOMAIN m.seenUtxo THEN <<m.seenUtxo[ref].symbol, ref[2]>>
    ELSE <<GetTxSymbol(m, d, ref[1]), ref[2]>>

UtxoValue(m, d, ref) ==
    IF ref \in DOMAIN m.seenUtxo THEN m.seenUtxo[ref].value
    ELSE d.utxo[UtxoKey(m, d, ref)]

\* A list carries the address it is of, once a flush has added to it.
ListOf(d, symbol) ==
    IF symbol \in DOMAIN d.list THEN d.list[symbol] ELSE [address |-> NoAddress, outs |-> <<>>]

------------------------------------------------------------------------------
(* saveBlock *)

\* One input: the record is put again with spentInTx and spentOnBlock. The cache
\* entry takes spentInTx for its tx symbol (Indexer.js:806).
InvalidateUtxo(m, d, ref, symbol, height) ==
    IF ~Found(m, d, ref) THEN [m EXCEPT !.failed = TRUE]
    ELSE LET spent == [UtxoValue(m, d, ref) EXCEPT !.spentIn = symbol, !.spentOn = height]
         IN  [m EXCEPT !.ops.utxo = With(@, UtxoKey(m, d, ref), spent),
                       !.seenUtxo = With(@, ref, [symbol |-> symbol, value |-> spent])]

BatchTransactionInputs(m, d, t, symbol, height) ==
    LET after[n \in 0..Len(Ins[t])] ==
            IF n = 0 THEN m ELSE InvalidateUtxo(after[n - 1], d, Ins[t][n], symbol, height)
    IN  after[Len(Ins[t])]

\* One output: its record, and its entry in the list of its address.
BatchOutput(m, d, ref, symbol, height) ==
    LET out    == Outs[ref[1]][ref[2]]
        known  == WithSymbol(m, d, out.address)
        record == [sats |-> out.sats, address |-> AddressSymbol(known, d, out.address),
                   createdOn |-> height, spentIn |-> NoSymbol, spentOn |-> NoSymbol]
        entry  == <<symbol, ref[2]>>
        added  == IF out.address \in DOMAIN m.added THEN m.added[out.address] ELSE <<>>
    IN  CASE out.address = NoAddress -> m
          [] out.address # NoAddress /\ ref \in DOMAIN m.seenUtxo ->
                [known EXCEPT !.failed = TRUE]
          [] OTHER ->
                [known EXCEPT !.ops.utxo = With(@, entry, record),
                              !.seenUtxo = With(@, ref, [symbol |-> symbol, value |-> record]),
                              !.added = With(@, out.address, Append(added, entry))]

BatchTransactionOutputs(m, d, t, symbol, height) ==
    LET after[n \in 0..Len(Outs[t])] ==
            IF n = 0 THEN m ELSE BatchOutput(after[n - 1], d, <<t, n>>, symbol, height)
    IN  after[Len(Outs[t])]

\* One transaction of batchBlockTxs; one that has a symbol is skipped.
BatchTx(m, d, t, height) ==
    IF GetTxSymbol(m, d, t) # NoSymbol THEN m
    ELSE LET symbol == m.lastTx + 1
             named  == [m EXCEPT !.lastTx = symbol, !.seenTx = With(@, t, symbol),
                                 !.ops.tx = With(@, t, symbol),
                                 !.ops.txid = With(@, symbol, t)]
         IN  BatchTransactionOutputs(BatchTransactionInputs(named, d, t, symbol, height),
                                     d, t, symbol, height)

\* The two operations on the symbol of the block, then its transactions.
SaveBlock(m, d, b) ==
    LET named == [m EXCEPT !.seenBlock = With(@, b, Height[b]),
                           !.ops.block = With(@, b, Height[b]),
                           !.ops.at = With(@, Height[b], b)]
        after[n \in 0..Len(TxsOf[b])] ==
            IF n = 0 THEN named ELSE BatchTx(after[n - 1], d, TxsOf[b][n], Height[b])
    IN  after[Len(TxsOf[b])]

------------------------------------------------------------------------------
(* removeBlock *)

\* Mutant of RevalidateUtxo: inputs stay spent.
RevalidateUtxoNot(m, d, ref) == m

\* One input: the record is put again without spentInTx and spentOnBlock.
RevalidateUtxo(m, d, ref) ==
    IF ~Found(m, d, ref) THEN [m EXCEPT !.failed = TRUE]
    ELSE [m EXCEPT !.ops.utxo = With(@, UtxoKey(m, d, ref),
              [UtxoValue(m, d, ref) EXCEPT !.spentIn = NoSymbol, !.spentOn = NoSymbol])]

\* A list without its last occurrence of an entry.
Without(list, entry) ==
    LET at == {i \in DOMAIN list.outs : list.outs[i] = entry}
    IN  IF at = {} THEN list ELSE [list EXCEPT !.outs = RemoveAt(@, Max(at))]

\* Mutant of RemoveOutput: the record is kept.
RemoveOutputFromList(m, d, ref, symbol) ==
    LET out   == Outs[ref[1]][ref[2]]
        entry == <<symbol, ref[2]>>
        known == WithSymbol(m, d, out.address)
        holder == AddressSymbol(known, d, out.address)
    IN  IF out.address = NoAddress THEN m
        ELSE [known EXCEPT !.ops.list = With(@, holder, Without(ListOf(d, holder), entry))]

\* One output: its record is deleted, and the list of its address, as it is in the
\* database, is put without its entry.
RemoveOutput(m, d, ref, symbol) ==
    LET out     == Outs[ref[1]][ref[2]]
        entry   == <<symbol, ref[2]>>
        known   == WithSymbol(m, d, out.address)
        holder  == AddressSymbol(known, d, out.address)
        deleted == With(m.ops.utxo, entry, Deleted)
    IN  IF out.address = NoAddress THEN [m EXCEPT !.ops.utxo = deleted]
        ELSE [known EXCEPT !.ops.utxo = deleted,
                           !.ops.list = With(@, holder, Without(ListOf(d, holder), entry))]

RevalidateInputs(m, d, t) ==
    LET after[n \in 0..Len(Ins[t])] ==
            IF n = 0 THEN m ELSE RevalidateUtxo(after[n - 1], d, Ins[t][n])
    IN  after[Len(Ins[t])]

RemoveOutputs(m, d, t, symbol) ==
    LET after[n \in 0..Len(Outs[t])] ==
            IF n = 0 THEN m ELSE RemoveOutput(after[n - 1], d, <<t, n>>, symbol)
    IN  after[Len(Outs[t])]

\* Mutant of RemoveTx: the entry of tx-sym is left as well.
RemoveTxKeepingSymbol(m, d, t) ==
    LET symbol == GetTxSymbol(m, d, t)
    IN  IF symbol = NoSymbol THEN m
        ELSE RemoveOutputs(RevalidateInputs(m, d, t), d, t, symbol)

\* One transaction; one that has no symbol is skipped. Entries of sym-tx are left.
RemoveTx(m, d, t) ==
    LET symbol == GetTxSymbol(m, d, t)
    IN  IF symbol = NoSymbol THEN m
        ELSE [RemoveOutputs(RevalidateInputs(m, d, t), d, t, symbol)
                 EXCEPT !.ops.tx = With(@, t, Deleted)]

\* Mutant of LastTxBefore: one symbol too far back.
LastTxTooFarBack(m, d, b) ==
    LET symbols == {GetTxSymbol(m, d, t) : t \in ToSet(TxsOf[b])} \ {NoSymbol}
    IN  IF symbols = {} THEN m.lastTx ELSE Min(symbols) - 2

\* lastTxSymbol as it was before the block.
LastTxBefore(m, d, b) ==
    LET symbols == {GetTxSymbol(m, d, t) : t \in ToSet(TxsOf[b])} \ {NoSymbol}
    IN  IF symbols = {} THEN m.lastTx ELSE Min(symbols) - 1

\* The entry of block-sym is deleted; sym-block keeps its entry for the height.
RemoveBlock(m, d, b) ==
    LET after[n \in 0..Len(TxsOf[b])] ==
            IF n = 0 THEN m ELSE RemoveTx(after[n - 1], d, TxsOf[b][n])
    IN  [after[Len(TxsOf[b])]
            EXCEPT !.ops.block = With(@, b, Deleted), !.lastTx = LastTxBefore(m, d, b)]

------------------------------------------------------------------------------
(* processBatches *)

\* Mutant of UtxoLists: lists are written without their address.
UtxoListsUnnamed(m, d) ==
    LET symbolOf == [a \in DOMAIN m.added |-> AddressSymbol(m, d, a)]
    IN  [s \in Range(symbolOf) |->
            LET a == CHOOSE x \in DOMAIN symbolOf : symbolOf[x] = s
            IN  [ListOf(d, s) EXCEPT !.outs = @ \o m.added[a]]]

\* processBatchedUtxoLists: the entries added for an address behind those on disk,
\* under its name.
UtxoLists(m, d) ==
    LET symbolOf == [a \in DOMAIN m.added |-> AddressSymbol(m, d, a)]
    IN  [s \in Range(symbolOf) |->
            LET a == CHOOSE x \in DOMAIN symbolOf : symbolOf[x] = s
            IN  [address |-> a, outs |-> ListOf(d, s).outs \o m.added[a]]]

\* The list operations come last in the batch.
Gather(b, m, d) == [best |-> b, lastTx |-> m.lastTx, lastAddress |-> m.lastAddress,
                    ops |-> [m.ops EXCEPT !.list = Apply(UtxoLists(m, d), @)]]

Nothing == [best |-> NoBlock, lastTx |-> NoSymbol, lastAddress |-> 0, ops |-> EmptyOps]

BeginFlush(b, m) ==
    /\ inflight' = Gather(b, m, db)
    /\ mem' = [m EXCEPT !.ops = EmptyOps]

\* One leveldb batch: everything or nothing.
Written(d, g) ==
    [best |-> g.best, lastTx |-> g.lastTx, lastAddress |-> g.lastAddress,
     block |-> Apply(g.ops.block, d.block), at |-> Apply(g.ops.at, d.at),
     tx |-> Apply(g.ops.tx, d.tx), txid |-> Apply(g.ops.txid, d.txid),
     address |-> Apply(g.ops.address, d.address),
     utxo |-> Apply(g.ops.utxo, d.utxo), list |-> Apply(g.ops.list, d.list)]

------------------------------------------------------------------------------
(* Actions *)

\* The worker adds the next block. An input whose output is not found ends in the
\* worker's catch: process.exit(1).
AddBlock ==
    /\ pc = "idle"
    /\ \E b \in Blocks :
          /\ Parent[b] = best
          /\ best' = b
          /\ mem' = SaveBlock(mem, db, b)
    /\ pc' = IF mem'.failed THEN "aborted" ELSE "idle"
    /\ UNCHANGED <<safe, inflight, db, budget>>

\* processBatchesIfNeeded of the worker, or saveState of the driver.
Flush ==
    /\ pc = "idle"
    /\ best # NoBlock
    /\ BeginFlush(best, mem)
    /\ pc' = "flush"
    /\ UNCHANGED <<best, safe, db, budget>>

\* Mutant of StartRemoval: nothing is flushed before a block is removed.
StartRemovalUnflushed ==
    /\ pc = "idle"
    /\ best \notin {NoBlock, Genesis}
    /\ budget.removals > 0
    /\ budget' = [budget EXCEPT !.removals = @ - 1]
    /\ pc' = "removing"
    /\ UNCHANGED <<best, safe, mem, inflight, db>>

\* A block is taken back: first everything is flushed.
StartRemoval ==
    /\ pc = "idle"
    /\ best \notin {NoBlock, Genesis}
    /\ budget.removals > 0
    /\ budget' = [budget EXCEPT !.removals = @ - 1]
    /\ BeginFlush(best, mem)
    /\ pc' = "removalFlush"
    /\ UNCHANGED <<best, safe, db>>

\* Mutant of FlushEnds: the last-seen caches survive the write.
FlushEndsKeepingCaches ==
    /\ pc \in {"flush", "removalFlush"}
    /\ db' = Written(db, inflight)
    /\ inflight' = Nothing
    /\ mem' = mem
    /\ safe' = HeightOf(best)
    /\ pc' = IF pc = "flush" THEN "idle" ELSE "removing"
    /\ UNCHANGED <<best, budget>>

\* Mutant of FlushEnds: the safe height stays behind.
FlushEndsUnsafe ==
    /\ pc \in {"flush", "removalFlush"}
    /\ db' = Written(db, inflight)
    /\ inflight' = Nothing
    /\ mem' = [mem EXCEPT !.seenBlock = EmptyTable, !.seenTx = EmptyTable,
                          !.seenAddress = EmptyTable, !.seenUtxo = EmptyTable,
                          !.added = EmptyTable]
    /\ pc' = IF pc = "flush" THEN "idle" ELSE "removing"
    /\ UNCHANGED <<best, safe, budget>>

\* writeBatches: the batch is on disk and the last-seen caches are dropped, also what a
\* query has entered into them since the batch was gathered. Then processBatches ends.
FlushEnds ==
    /\ pc \in {"flush", "removalFlush"}
    /\ db' = Written(db, inflight)
    /\ inflight' = Nothing
    /\ mem' = [mem EXCEPT !.seenBlock = EmptyTable, !.seenTx = EmptyTable,
                          !.seenAddress = EmptyTable, !.seenUtxo = EmptyTable,
                          !.added = EmptyTable]
    /\ safe' = HeightOf(best)
    /\ pc' = IF pc = "flush" THEN "idle" ELSE "removing"
    /\ UNCHANGED <<best, budget>>

\* removeBlock, the reset of the indexer's state, and the second processBatches.
RemoveBest ==
    /\ pc = "removing"
    /\ LET m == RemoveBlock(mem, db, best)
       IN  IF m.failed
           THEN mem' = m /\ pc' = "aborted" /\ UNCHANGED <<best, safe, inflight>>
           ELSE /\ best' = Parent[best]
                /\ safe' = HeightOf(best')
                /\ BeginFlush(best', m)
                /\ pc' = "flush"
    /\ UNCHANGED <<db, budget>>

\* A client asks for the balance or the coins of an address that neither the cache nor
\* address-sym has.
AskEarly(a) ==
    /\ budget.queries > 0
    /\ pc # "aborted"
    /\ ~HasSymbol(mem, db, a)
    /\ budget' = [budget EXCEPT !.queries = @ - 1]
    /\ mem' = [mem EXCEPT !.asking = @ \cup {<<budget.queries, a>>}]
    /\ UNCHANGED <<best, pc, safe, inflight, db>>

\* Its look-up goes on when the read of address-sym is back. Nothing is checked again: the
\* worker may have named the address and written its records, or its list, meanwhile.
NameEarly(call) ==
    /\ call \in mem.asking
    /\ pc # "aborted"
    /\ mem' = [NewSymbol(mem, call[2]) EXCEPT !.asking = @ \ {call}]
    /\ UNCHANGED <<best, pc, safe, inflight, db, budget>>

Query ==
    \/ \E a \in Addresses : AskEarly(a)
    \/ \E call \in mem.asking : NameEarly(call)

\* The process is killed, or ended itself, and starts again.
Restart ==
    /\ \/ pc = "aborted" /\ db' = db /\ budget' = budget
       \/ /\ pc # "aborted"
          /\ budget.crashes > 0
          /\ budget' = [budget EXCEPT !.crashes = @ - 1]
          /\ \/ db' = db
             \/ pc \in {"flush", "removalFlush"} /\ db' = Written(db, inflight)
    /\ best' = db'.best
    /\ safe' = HeightOf(db'.best)
    /\ mem' = MemoryOf(db')
    /\ inflight' = Nothing
    /\ pc' = "idle"

Init ==
    /\ best = NoBlock
    /\ pc = "idle"
    /\ safe = HeightOf(NoBlock)
    /\ mem = MemoryOf(EmptyDb)
    /\ inflight = Nothing
    /\ db = EmptyDb
    /\ budget = [removals |-> Removals, crashes |-> Crashes, queries |-> Queries]

Next == AddBlock \/ Flush \/ StartRemoval \/ FlushEnds \/ RemoveBest \/ Query \/ Restart

Spec == Init /\ [][Next]_vars

------------------------------------------------------------------------------
(* The queries, on the database *)

\* No client has asked for an address before the indexer knew it.
NoEarly == budget.queries = Queries

NoAnswer == [balance |-> -1, block |-> NoBlock]

\* Mutant of Counts: an output still counts at the height at which it is spent.
CountsWhenSpent(record, height) ==
    /\ record.createdOn <= height
    /\ record.spentOn # NoSymbol => height <= record.spentOn

\* getAccountBalance counts an output that exists at the height and is unspent at it.
Counts(record, height) ==
    /\ record.createdOn <= height
    /\ record.spentOn # NoSymbol => height < record.spentOn

BalanceOf(d, symbol, height) ==
    LET list == d.list[symbol].outs
    IN  MapThenSumSet(LAMBDA i : d.utxo[list[i]].sats,
                      {i \in DOMAIN list : Counts(d.utxo[list[i]], height)})

\* The symbol has a list, and each output in it has a record.
Readable(d, symbol) ==
    symbol \in DOMAIN d.list /\ ToSet(d.list[symbol].outs) \subseteq DOMAIN d.utxo

\* getAccountBalance of an address at a block it names hash, of height height.
GetAccountBalance(d, symbol, height, hash) ==
    IF Readable(d, symbol) THEN [balance |-> BalanceOf(d, symbol, height), block |-> hash]
    ELSE NoAnswer

\* getAccountUtxos, with the tx symbols resolved by getTxHash: hash, position and amount.
GetAccountUtxos(d, symbol) ==
    {<<d.txid[e[1]], e[2], d.utxo[e].sats>> :
        e \in {f \in ToSet(d.list[symbol].outs) : d.utxo[f].spentOn = NoSymbol}}

------------------------------------------------------------------------------
(* The reference: balances as the chain defines them *)

Mined(b) == UNION {ToSet(TxsOf[c]) : c \in Chain[b]}

Owned(b, a) == {ref \in OutputRefs : ref[1] \in Mined(b) /\ Outs[ref[1]][ref[2]].address = a}

Unspent(b, a) == {ref \in Owned(b, a) : \A t \in Mined(b) : ref \notin ToSet(Ins[t])}

\* Outputs with their amounts.
Coins(refs) == {<<ref[1], ref[2], Outs[ref[1]][ref[2]].sats>> : ref \in refs}

Ledger(b, a) == MapThenSumSet(LAMBDA ref : Outs[ref[1]][ref[2]].sats, Unspent(b, a))

\* The utxo record of an output on the chain of b, by symbols of d.
RecordOf(d, b, ref) ==
    LET out      == Outs[ref[1]][ref[2]]
        MinedOn(t) == Height[CHOOSE c \in Chain[b] : t \in ToSet(TxsOf[c])]
        spenders == {t \in Mined(b) : ref \in ToSet(Ins[t])}
    IN  [sats |-> out.sats, address |-> d.address[out.address],
         createdOn |-> MinedOn(ref[1]),
         spentIn |-> IF spenders = {} THEN NoSymbol ELSE d.tx[CHOOSE t \in spenders : TRUE],
         spentOn |-> IF spenders = {} THEN NoSymbol ELSE MinedOn(CHOOSE t \in spenders : TRUE)]

------------------------------------------------------------------------------
(* Properties *)

\* Type invariant.
TypeOK ==
    /\ best \in BlockOrNone
    /\ pc \in {"idle", "flush", "removalFlush", "removing", "aborted"}
    /\ \A c \in {mem, inflight, db} :
          c.lastTx \in Nat \cup {NoSymbol} /\ c.lastAddress \in Nat
    /\ safe \in Nat \cup {NoSymbol}
    /\ inflight.best \in BlockOrNone
    /\ db.best \in BlockOrNone
    /\ DOMAIN db.tx \subseteq Txs /\ Range(db.tx) \subseteq Nat
    /\ DOMAIN db.address \subseteq Addresses /\ Range(db.address) \subseteq Nat
    /\ DOMAIN db.utxo \subseteq Nat \X Nat
    /\ budget \in [removals : Nat, crashes : Nat, queries : Nat]

\* "Historical balance lookups are supported as well" (README.md:62): for every block
\* of the indexed chain and every address it has paid, the database answers with that
\* block and with the balance the chain gives (Indexer.js:1126-1204).
HistorySupported ==
    \A b \in Chain[db.best], a \in Addresses :
        Owned(b, a) # {} =>
            GetAccountBalance(db, db.address[a], Height[b], db.at[Height[b]])
                = [balance |-> Ledger(b, a), block |-> b]

\* They are, after any additions, removals, flushes, crashes and requests for known
\* addresses, as long as no client asks for an address before the indexer knows it: one
\* such look-up, overtaken by the worker, can part an address from its list (Indexer.js:880-899).
HistoryCorrect == NoEarly => HistorySupported

\* The coins of an address are exactly the outputs the indexed chain leaves it, each listed
\* once, with its amount and under the hash of the transaction that made it although tx
\* symbols are used again after a removal; unless a client asked for an address too early
\* (Indexer.js:547-549, 1088-1124).
CoinsCorrect ==
    NoEarly =>
        \A a \in Addresses :
            Owned(db.best, a) # {} =>
                /\ Readable(db, db.address[a])
                /\ IsInjective(db.list[db.address[a]].outs)
                /\ GetAccountUtxos(db, db.address[a]) = Coins(Unspent(db.best, a))

\* The tables of symbols hold the blocks and the transactions of the indexed chain and no
\* other, and lead back from each symbol to its block or transaction, although heights and
\* tx symbols are used again after a removal (Indexer.js:404-431, 546-549, 1021-1042).
ChainNamed ==
    /\ db.block = [b \in Chain[db.best] |-> Height[b]]
    /\ \A b \in Chain[db.best] : Height[b] \in DOMAIN db.at /\ db.at[Height[b]] = b
    /\ DOMAIN db.tx = Mined(db.best)
    /\ \A t \in DOMAIN db.tx : db.tx[t] \in DOMAIN db.txid /\ db.txid[db.tx[t]] = t

\* There is a record for each output of the indexed chain and no other, with the heights
\* and symbols of the blocks and transactions that made and spent it, and under the symbol
\* its address has: removeBlock undoes what saveBlock did (Indexer.js:399-401), unless a
\* client's early look-up changed the symbol (Indexer.js:887).
UtxoTableExact ==
    NoEarly =>
        db.utxo = [key \in {<<db.tx[ref[1]], ref[2]>> :
                                ref \in UNION {Owned(db.best, a) : a \in Addresses}} |->
                      RecordOf(db, db.best, <<db.txid[key[1]], key[2]>>)]

\* No two transactions and no two addresses on disk share a symbol, and none has one
\* that the counters read back by a restart would hand out again
\* (Indexer.js:546-549, 887, 704, 1266-1283).
SymbolsDistinct ==
    /\ IsInjective(db.tx) /\ \A t \in DOMAIN db.tx : db.tx[t] <= db.lastTx
    /\ IsInjective(db.address)
    /\ \A a \in DOMAIN db.address : db.address[a] <= db.lastAddress

\* A block the indexer could not record spends an output it never recorded, because that
\* has not exactly one address; any other input finds its output, be it on disk, in a batch
\* or only in the last-seen cache (Indexer.js:769-784, 832-835, 950-952).
InputsFound ==
    pc = "aborted" => \E t \in ToSet(TxsOf[best]), ref \in OutputRefs :
                         ref \in ToSet(Ins[t]) /\ Outs[ref[1]][ref[2]].address = NoAddress

\* Every block is added to the tip or taken back from it when disk and memory agree,
\* and what is on disk is the index of one block that memory has been at.
Index == INSTANCE ChainIndex WITH working <- best, committed <- db.best

ImplementsIndex == Index!Spec
==============================================================================
