# Flux Rosetta server: specification and proofs

TLA+ modules for [flux-rosetta-server](../src/README.md): the pipeline that follows a Flux node's chain
into a LevelDB index of unspent outputs, the tables of that index, and the endpoints that turn operations
into a transaction. Paths are those of the repository; `Indexer.js` and the like are below `src/`,
`ConstructionService.js` and the like below `src/services/`, `index.js` is at the top.

## The system

One Node.js process per mode. In online mode `index.js` waits for the node, launches the REST server,
reads the database and loops for ever: ask the node for its height, let the syncer fetch and report the next
blocks, save. Everything runs on one event loop, so the only interleaving points are the `await`s.

| Component | Source | State | Operations |
|---|---|---|---|
| Sync driver | `index.js` | its `currentHeight` | loop, is synced, sync, save, boot |
| Syncer | `Syncer.js`, Rosetta SDK | past blocks, next height | fetch, add, remove, throw |
| Block cache | `BlockCache.js` | map and order of hashes | get, put, evict |
| `/block` endpoint | `BlockService.js` | none (fills the cache) | look up, fetch, refuse, answer |
| Indexer: worker and flush | `Indexer.js:206-396, 1295-1313` | work queue, worker phase, waiting operations, last-seen caches, tip, safe height | handleBlock, worker, saveState, processBatches |
| Indexer: tables | `Indexer.js:398-1124` | symbols, utxo records, address lists in memory and on disk | saveBlock, removeBlock, batch, look up |
| Account queries | `AccountService.js`, `Indexer.js:1088-1204` | none (may allocate an address symbol) | balance, coins |
| Transaction operations | `utils.js`, `Indexer.js:1206-1235` | none | txOperations, getUtxoData |
| Construction API | `ConstructionService.js` | none; the client carries it | preprocess, metadata, payloads, parse, combine, submit, derive, hash |
| Mempool, network, RPC, configuration | `services/`, `rpc.js`, `config/` | none | forwarding, static answers |

How they interact. The driver calls `Syncer.sync`; the SDK's syncer fetches blocks over HTTP from the
server's own `/block`, which loads them into the block cache; it then emits BLOCK_ADDED or BLOCK_REMOVED, and
`handleBlock` takes the block's data from the cache, sets its `remove` flag, queues it and starts the
worker. The worker batches operations in memory and flushes them at 200 blocks, around a removal, and when
the driver calls `saveState`. REST clients meanwhile load blocks into the same cache and read the same tables.

What is hard: the worker runs behind the syncer; objects are shared between cache and queue; memory is ahead of
the disk; a removal is four steps with awaits between them; a restart forgets the syncer's past; symbols are
handed out, taken back and handed out again; an address gets its symbol after an await behind which nothing is checked
again; a request reads the database once per await while the worker goes on. What makes each component correct:

- pipeline: the index gets to the node's tip after any finite trouble; memory and disk each hold one whole
  chain; a removal starts from a disk that equals memory; nothing pending is lost or taken for unknown; the
  worker never meets a block it cannot place;
- tables: balances at every height, coins, records and symbols are those of the indexed chain, after any
  additions, removals, flushes and crashes;
- address symbols: each address has one, for ever, whoever asks for it first, and its list is found under it;
- queries: an answer that took many reads is still one the chain could give, and belongs to the block it names;
- blocks and transactions: operations are those of the transaction, an indexed block is answered;
- construction: what is parsed and what is submitted is what was asked for.

`PROJECT.json` lists the hazards line by line with the properties that cover them.

## Modules

| Module | What it is |
|---|---|
| `BlockTree` | Blocks, parents and heights; `Chain[b]`, the set of blocks from genesis to `b` |
| `BlockCache` | `BlockCache.js` as operators on a cache value |
| `ChainIndex` | Abstract: what the indexer promises. `working` moves one edge at a time, `committed` jumps to it, a retraction needs both equal, a restart goes back to `committed` |
| `ChainSync` | Driver, syncer, cache, queue, worker, flush, crash and boot, composed over `BlockTree` and `BlockCache`; refines `ChainIndex` |
| `UtxoIndexer` | The tables: saveBlock, removeBlock, flush, restart, allocating queries; refines `ChainIndex` |
| `AddressSymbols` | `getAddressSymbolByAddress` await by await, called by worker, flush and clients at once |
| `AccountQueries` | `/account/balance` and `/account/coins` await by await over `UtxoIndexer` |
| `BlockQueries` | The answers of `/block` and `/mempool/transaction`: safe height, txOperations and getUtxoData await by await over `UtxoIndexer` |
| `Construction` | The endpoints of the Construction API, the client that carries their answers, the node's verdict |
| `MC*` | Instances for TLC |
| `M_proofs` | Theorems about `M`, for `ChainSync`, `UtxoIndexer`, `AddressSymbols`, `AccountQueries`, `BlockQueries` and `Construction` |
| `UtxoRecords_proofs` | `UtxoIndexer` again: the utxo records |
| `UtxoLists_proofs` | `UtxoIndexer` again: the types of the values in the tables, the lists of outputs, coins and balances |

Definitions named as mutants in their comments are plausible bugs; each property is shown to fail when one
of them takes the place of the definition it varies.

### ChainSync and the code

An action is what happens between two awaits.

| Code | Actions | Variables |
|---|---|---|
| `continueSyncIfNeeded` | `DriverLoops` (reads lastBlockSymbol), `DriverIsSynced`, `DriverSyncs`, `DriverSaves`, `DriverSaved` | `dpc`, `cur` |
| SDK `Syncer.sync` | `SyncRange`, `SyncFetches`, `SyncAdds`, `SyncRemoves`, `SyncThrows`, `SyncFails`, `SyncEnds` | `past`, `next`, `target`, `limit`, `fetched`, `emitting` |
| `/block` by other clients | `ClientMisses`, `ClientLoads` | `requests`, `cache` |
| `handleBlock` | part of `SyncAdds` and `SyncRemoves` | `queue` |
| `worker` | `WorkerShifts`, `WorkerAdds`, `WorkerSkips`, `WorkerStartsRemoval`, `WorkerRemoves`, `WorkerAborts`, `WorkerQuits` | `work`, `wpc` |
| `processBatches`, `writeBatches` | `BeginFlush` and `EndFlush`, inside `DriverSaves`/`WorkerSaved`/`WorkerRemoves`/... and `DriverSaved`/`WorkerFlushed` | `inflight`, `mem`, `db` |
| process start, `initIndexer` | `Boot`, after `Crash` or `WorkerAborts` | `proc` |

`remove` is kept per queue element together with `cached`, which says whether the element is still the object the
cache holds: that is how an event can change elements queued before it (`Marked`), and how a
`put` or an eviction ends the sharing (`Detached`). `remove` is read at the worker's second step, after its awaits,
as in the code. A LevelDB batch is atomic: a crash during a write leaves all of it or none.

The SDK's syncer is not in the repository. It is modelled from how it is called and from the events it is
subscribed to: ranges of at most `maxSync` blocks, fetched concurrently; a block whose parent is not
the last reported one means that the last one is reported as removed; genesis is never removed; the past
starts empty.

### UtxoIndexer and the code

`AddBlock` is the worker's addition with the whole of saveBlock (`batchBlockTxs` and below); `Flush` and
`FlushEnds` are processBatches up to and after the write; `StartRemoval`, `FlushEnds`, `RemoveBest`,
`FlushEnds` are the four steps of a removal; `AskEarly` and `NameEarly`, together `Query`, are a client's look-up of an address nobody
has named, before and after its read of `address-sym`; `Restart` is a
crash (or the worker's `process.exit(1)`) and `initIndexer`. `mem` holds the symbol counters, the last-seen caches and
the waiting operations, keyed, with the last operation on a key winning as in a LevelDB batch; list
operations of added outputs come after those of removed ones. Transactions have symbols, outputs are pairs
of transaction and index, and an output without exactly one address pays `NoAddress`.

`getAddressSymbolByAddress` looks at the cache, awaits the read of `address-sym`, and then allocates without looking again. So
`NameEarly` gives the address a new symbol (`NewSymbol`) whatever the worker has done since `AskEarly`: named it, recorded its outputs, gathered or written its list. `mem.asking` holds
the look-ups between the two; they end with the process. The worker's own look-up (`WithSymbol`) is one step. That loses nothing until the first `AskEarly`, since nobody else names
an address then (`NoEarly`, in the properties below); what worker, flush and clients do to one another's look-ups afterwards, await by await, is in `AddressSymbols`.

Loops over the inputs
and outputs of a block are recursive functions of the number of turns, which the proofs can unfold. The reference the
properties compare with (`Mined`, `Owned`, `Unspent`, `Ledger`, `RecordOf`) is computed from the chain alone.

### AddressSymbols and the code

A look-up is a record in `calls`: `Call` is the code up to the first await (the last-seen cache), `ReadSymbol` the
read of `address-sym`, `FindSymbol` and `NewSymbol` what follows it. Clients start look-ups whenever they like
(`ClientAsks`). The worker names the outputs of a transaction one after the other (`WorkerTakes`, `WorkerNames`) and then records
them (`WorkerRecords`). A flush gathers the waiting operations and the counter at once (`FlushBegins`; these functions have no await),
looks up the address of each list (`ListBegins`, `ListGathered`), and writes; `WriteLands` is the moment the LevelDB batch is on
disk and `WriteEnds` the continuation that drops the caches, so a crash or a read can come between them. Inputs and removals are left out: they
allocate through the same look-up, and `UtxoIndexer` has them. `SymbolsDistinct` is a property of both: of `UtxoIndexer` with removals, transactions and restarts, and here with
the awaits of the worker and the flush too.

The ghost `early` holds the addresses a client asked for while the indexer knew nothing of them. Such a query allocates the symbol, and that is
where things can go wrong, see the limits below.

### AccountQueries and BlockQueries and the code

Both extend `UtxoIndexer`, so that the whole indexer runs on while a request waits for a read. One action is what runs between
two awaits of the handler:

| Code | Actions |
|---|---|
| `getAccountBalance` up to its first read | `AskBalance` |
| `getAccountUtxos` up to its first read | `AskCoins` |
| `getBlockHash`, `getBlockSymbol` | `ReadBlockHash`, `ReadBlockSymbol` |
| `getAddressSymbolByAddress` of a known address | `LookUpAddress` |
| the same of an unknown one, before and after the read of `address-sym` | `AskForSymbol`, `NameAddress` (`AskEarly`, `NameEarly`; for other requests `QueryOfOthers`) |
| the read of `address-utxos`, of a record | `ReadList`, `ReadRecord` |
| `coins`: `getTxHash` of each coin | `ReadTxHash` |
| `block`: safe-height check, first input | `AskBlock` |
| `mempoolTransaction` | `AskMempool` |
| `getTxSymbol`, `utxoExistsBySymbol`, `getAddressBySymbol` | `ReadTxSymbol`, `ReadUtxo`, `ReadOwner` |

A single request is in flight at a time. It reads and, apart from the symbol it may allocate (which `Query` of `UtxoIndexer` lets any
number of other clients do at any moment), changes nothing another one reads, so a second one adds no behaviour to the first. `/block` translates the
transactions of a block concurrently; for the same reason one of them is followed. The answer leaves at once (`Answer`): properties are about the state in which it is put
together. The ghost `during` lists the blocks the database has been at since the request came in.

### Construction and the code

One action per endpoint, with its error paths (`refused`), plus `Sign`, the client's wallet, and
`NodeAccepts`, the node: signatures by the owners over the whole transaction, in the form a scriptSig takes, and no more paid than spent.
A signature has a form: `ecdsa` is what `payloads` asks for, 64 bytes r || s, and `script` is what a scriptSig takes, DER with a sighash byte. `Forms` is what wallets answer. `Combine` puts the
bytes as they are (`PutSignatures`); whether the library refuses to build a scriptSig of the other form is left open, since the node does if the library does not.
A digest is the record of what it commits to, so that a signature of another digest never fits.

## Runs

`NoBlock`, `Deleted` and the like are model values. All bounds are CONSTANTS. `Budgets` of `ChainSync` is a set of alternatives, each
saying how often the node may reorganise, the process be killed, a sync call fail on a fetch and an outside client load a block; `Removals`,
`Crashes`, `Queries` do the same for `UtxoIndexer` and the modules over it, `Payments`, `Queries`, `Crashes` for `AddressSymbols`. The code's own limits (`CacheSpace` 250, `MaxSync` 200,
`RoundSpan` 1000, `BatchSize` 200) are scaled down.

| Run | Expected | Question |
|---|---|---|
| ChainSync `recovery` | pass | Does the index get to the node's tip (`CatchesUp`) after two reorganisations, or one and a failed fetch, or a crash, a failed fetch and an outside request on a growing chain, each at any moment? |
| ChainSync `trouble` | pass | Is the worker fed in order (`FedInOrder`), and do all safety properties and the refinement hold, with a reorganisation and a failed fetch at any moment, and a crash or an outside request that replaces or evicts cached blocks? |
| ChainSync `restart_reorg` | violation | `CatchesUp` fails: a reorganisation noticed after a restart |
| ChainSync `shared_flag` | violation | `NoAbort` fails: one failed fetch, no reorganisation |
| UtxoIndexer `fork` | pass | Are balances at every height, coins, records, symbols and the tables of transactions and blocks (`ChainNamed`) on disk those of the indexed chain, over two branches, with crashes and a block that ends the process, until a client asks for an address too early? Are types, distinct symbols, `ChainNamed`, `InputsFound` and the refinement kept also after that? |
| UtxoIndexer `shared_address` | violation | `HistoryCorrect` fails: two outputs to one address in a removed block |
| UtxoIndexer `early_lookup` | violation | `HistorySupported` fails: one client's look-up, overtaken by the worker |
| AddressSymbols `symbols` | pass | With worker, flush and two clients at once and a crash at any moment: do addresses keep distinct symbols, one for ever, with a complete list under it? |
| AccountQueries `accounts` | pass | What do a historical balance, a latest balance and the coins still guarantee when each of their reads may see another state of the tables, as long as nobody has asked for an address too early? |
| BlockQueries `blocks` | pass | Are the operations of a transaction exact if what it spends stays indexed, and is none made up, until a client asks for an address too early; is an indexed block always answered? |
| Construction `transfers` | pass | For every list of up to four operations, mistakes included: is what is parsed and what is accepted what was asked for, and a single-coin transfer accepted if its signature is in the form of a scriptSig? |
| Construction `many_coins` | violation | `TransferSubmitted` fails: a transfer of two coins |

Why the bounds are enough for the cases that matter. Six blocks hold a fork with two blocks on one side and three on the other, so that
a reorganisation removes more than one block and adds more than it removed. `CacheSpace` 4 is smaller than the tree: in
`trouble` blocks are evicted while they are queued. In `recovery` it is 5: as in the code, where 250 is above `MaxSync`, the
blocks of a range and the past they replace fit. `MaxSync` 1 and `RoundSpan` 2 give several ranges per sync call and several calls per catch-up;
`BatchSize` 2 or 3 lets blocks wait over several worker steps and makes both batch flushes and `saveState` happen. In `UtxoIndexer`
both branches mine one transaction at different symbols, a transaction spends both an old and a new output, one block spends an output
without an address, and removals (6), crashes (3), aborts and flushes interleave freely: both branches can be indexed, taken back and indexed again.
`accounts` and `blocks` run over the same fork with one or two removals, a crash and an allocating query; a list of several entries and a transaction with
two inputs give several reads, and each of them may come before or after a flush, an addition or a removal. `blocks` asks for every transaction of
every block, indexed or not, and for two transactions in the mempool. In `symbols` two clients and the worker are enough for every pair of
look-ups of one address to overlap, two payments and any number of flushes for a list to be extended on disk. In `Construction` four operations are the fewest that
interleave two accounts and still pay something.

Limits of the passing runs.

- `trouble` speaks of its bounds, not of every schedule. `FedInOrder`, and with it `NothingLost`, `DbIsChain` and the refinement, fail with a budget of two
  reorganisations and one outside request: the node moves from a1 to b2, and on to a3 when the syncer has reported b1, all while the worker is
  about to remove a1; in between the outside request puts b1 into the cache again. Then b1 is queued as an addition with the old
  object and as a removal with the new one, but the element that removes a1 is marked as an addition by the event that adds a1 again:
  the removal is skipped, b1 is written on top of a1, and two branches share the disk.
- `recovery` shows that the pipeline gets back to the tip, not that it never stumbles: a single reorganisation in the middle of a sync call can
  end the process as in `shared_flag` (`NoAbort`), and the restart repairs it. A restart before a reorganisation is not repaired:
  `restart_reorg`, in which the node even waits until the pipeline rests (`QuietReorgs`). Nor is an outside request that evicts, from a
  cache of 250 blocks, a block that a reorganisation takes back later: `handleBlock` throws on it in every further sync call. With `CacheSpace` 5
  no outside request is combined with a reorganisation. No run has a block evicted that is to be removed.
- `fork` uses blocks that pay no address twice (`shared_address` shows what happens otherwise) and spend nothing they make: in a removed block the
  `del` of such an output's record is followed by the `put` of its spender, and the record stays. A block that spends an output without
  exactly one address ends the process again after each restart; `InputsFound` says that nothing else does.
- A client that asks for an address before the indexer knows it can part the address from its records and its list, with a single query: its read of
  `address-sym` comes back empty, the worker names the address and puts the symbol into the records, and then the client gives it another (`early_lookup`). What is left on disk depends on
  whether the client goes on before the flush, while the list is gathered, or after. So what needs records, lists and `address-sym` to agree is stated for states in which no
  client has asked for an unknown address yet (`NoEarly`): `HistoryCorrect`, `CoinsCorrect`, `UtxoTableExact`, and of the requests `HistoryAnswered`, `LatestBetween`, `CoinsBetween`,
  `OperationsExact` and `OperationsSound`. The last is among them because of a restart: `FlushBegins` gathers the counter before `ListBegins` looks the addresses up, so the list of such an address
  may be written under a symbol above the counter on disk, and after a crash another address gets that symbol, and its list.
- `AddressSymbols` follows such queries further. An address that a client asked for too early (`early`) is excluded from `SymbolKept` and `ListsComplete`, and for the reason just given `ListsComplete` says nothing of any
  address once there were both an early query and a crash.
- `HistoryAnswered` is about a block that stays indexed during the request. A latest balance names the tip in memory and may be short of
  what that block pays, since it is read from a database that memory is ahead of; `LatestBetween` bounds it between the states it was read from and the one it names. `LatestBetween`,
  `CoinsBetween` and `OperationsSound` are about requests during which no block is removed from the database: a removal gives tx symbols back, and a record read under
  a symbol that was used again belongs to another transaction. A removal can also end the loop of `getAccountUtxos` early, and the coins found so
  far are answered without an error.
- A block of another branch at a height that is indexed passes the check of `BlockService.js:89`; inputs that are not indexed are then skipped in
  silence (`utils.js:53`). `OperationsSound` says that nothing worse happens. An output without exactly one address makes the whole transaction one without operations (stage
  `unlisted`). That an input carries the coin identifier `txid:-vout` of the spending transaction, and that every operation has status SUCCESS, is
  plain from the code and not part of the model.
- `SingleCoinSubmitted` is about wallets that answer their signature in the form of a scriptSig, though `payloads` asks for another:
  64 bytes r || s (`ConstructionService.js:382`, `rosetta.1.4.10.yaml:1420`), which nothing converts, so that no transfer with them is accepted. The other properties of `Construction` are checked with wallets of both kinds.
- `IntentPreserved` is stated for lists in which no account's inputs are interrupted by another's (`Grouped`): `constructionPreprocess`
  regroups the coins by account and `constructionPayloads` pairs them with the accounts in the client's order, so inputs of x, y and x
  come back with swapped owners. The node then rejects the transaction; `SubmittedIsIntended` covers these lists too.

### Fairness

`FairSpec` is `Spec` with weak fairness of `Driver`, `Syncer`, `Worker`, `ClientLoads` and `Boot`. The event loop runs
every callback that is ready, timers included, so none of the first four can be ready for ever without running;
`ClientLoads` is a getblock call the node answers; `docker-entrypoint.sh` restarts the server whenever it ends
(`concurrently --restart-tries 10000000`). Nothing is assumed of the node's chain, of outside requests, of failing fetches
and of crashes. `CatchesUp` asks for progress only once the node stays at a block.

In `Construction` the client stops at the end of its construction, so its runs do not check for deadlock; all
others do.

## Proofs

TLAPS checks all theorems for every value of the constants that satisfies the named assumptions:
`BlockTreeAssumption` (heights grow by one along parents, one genesis), `CacheSpaceAssumption`, `ChainSyncAssumption`,
`UtxoIndexerAssumption`, `AddressSymbolsAssumption`, `QuestionsAssumption`, `PendingAssumption`, `CoinsHaveOwners`, `IntentsAreOperations`, and three about what the node
has validated: no chain has a transaction in two of its blocks (`MinedOnce`), an input spends an output made before, in its block or on its chain (`SpentInOrder`), and no chain spends an
output twice (`SpentOnce`). The indexer relies on them, since a transaction has one tx symbol and a record room for one spender. TLC evaluates each of them in a passing run.

`ChainSync_proofs`:

- `InvariantHolds`: `Spec => []SyncInv`, where `SyncInv` is `TypeOK /\ WorkerHasBlock /\ Exclusive /\ Quiet /\ Tips`. The
  properties of the run are not inductive by themselves: a removal sets `lastBlockSymbol` from the height of the block it removes, so
  `TipHasHeight` needs that a gathered batch has a matching tip and height (also while the driver's write is in flight), that
  the worker's block is a block while it works on one, and that a write in flight belongs to the phase its owner is in.
  `SaveExclusive` needs that the worker is idle and the queue empty from the moment `saveState` gathers to the end of its
  write; the step from `worker:quit` to the write, which is one step in the code, is what makes it so. `PendingKnown` needs
  `SaveExclusive`: only if no one queues operations during a write can the caches be dropped at its end.
- `TypeCorrect`, `SavesExclusively`, `PendingStaysKnown`, `TipKeepsHeight`: the four invariants of the run
  `trouble` that hold for every schedule.

- What the same pipeline keeps as long as the worker is fed in order: the properties `NothingLost`, `SafeIsCommitted`, `DbIsChain` and the refinement do not hold for every schedule (see the limits of `trouble`): `saveBlock`
  asks only whether the parent of its block is known and `removeBlock` whether the block is. `FedInOrder` is what the two leave to the syncer, the cache and
  the `remove` flags: a block about to be indexed follows the tip, one about to be taken back is the tip. It says which block may come at the moment the worker has looked it
  up, nothing of what memory or disk hold otherwise, and `trouble` checks it in its own right, with everything that run lets happen.
- `WholeHolds`: `Spec /\ []FedInOrder => []WholeInv`, by `WholeNext` (`SyncInv /\ WholeInv /\ FedInOrder /\ [Next]_vars => WholeInv'`): disk, batch in flight and waiting
  operations, one on top of the other, are the chain of the tip; the disk alone is a chain; a removal takes back the tip, from a disk that has it and a
  memory in which nothing waits; the safe height is covered by the disk. So crashes, failed fetches, interleaved writes, outside requests
  and the node's moves can do harm only through the order in which blocks reach the worker.
- `NothingIsEverLost`, `SafeStaysCommitted`, `DiskStaysAChain`, `IndexIsImplemented` (`IndexStep`: each action is a step of `ChainIndex` or a stutter) follow from it.

`UtxoIndexer_proofs`, for any tree of blocks with any transactions:

- `BatchInvariant`: `Spec => []FlushInv`: the tip in the batch in flight is the tip in memory, and in the middle of
  a removal the disk has the tip of memory.
- `IndexRefined`: `Spec => ImplementsIndex`: with the refinement mapping `working <- best`, `committed <- db.best` each
  action is an `Extend`, `Retract`, `Commit`, `Restart` or a stutter of `ChainIndex`.
- `SymbolsStayDistinct`: from `SoundInv`, which follows the address symbols through three layers. The table on disk, the one with the batch in flight on top, and
  the one with the waiting operations on top of that are each injective, with no symbol above the counter of the same layer (`Symbols`); so an allocation is new in the
  layer it is made in, a write that lands makes the second layer the first, and a restart goes back to the first, table and counter together. Additions and removals allocate
  through inputs, outputs and lists, one lemma each.
- `ChainStaysNamed`: from `NameInv`. The tables of transactions and blocks, in each layer, give the transactions of the layer's chain their symbols and its blocks their heights, and back
  (`TxNames`, `BlockNames`). A removal deletes the symbols of a block's transactions and sets `lastTxSymbol` below the least of them (`LeastSymbol`); that none of the remaining chain
  is above it needs that a transaction has a higher symbol than all those of the blocks below its own, which is part of `TxNames`, and that a transaction of the removed block is in no
  other (`MinedOnce`). An entry of sym-tx or sym-block that a removal leaves behind is harmless because nothing on the chain has that symbol until it is overwritten.
- `IndexerTypes`.

The three are proved together (`AllInv == FlushInv /\ SafeInv /\ BudgetInv /\ SymbolInv /\ EarlyInv`; TLC checked it on the instance of `fork`). They hold whatever clients ask. `EarlyInv` says that without an
early query no look-up of a client is between its two steps; so a step after which there was still none is not one of `Query` (`NoEarlyStep`), which is how the theorems below that are stated for `NoEarly` leave them out. What a loop over inputs or outputs does is proved
by induction over its turns: the lemmas `InputsUnfolds`, `OutputsUnfolds`, `RevalidatedUnfolds`, `RemovedUnfolds`, `SavedUnfolds`, `UndoneUnfolds` say that the recursive function is the one its equation
describes and keeps what a single turn keeps. They rest on `UpTo`, induction for a set of numbers, which comes from the well-foundedness of `<`: the library's induction
theorems take an operator as a parameter and cannot be used.

The lemmas about `safe` (`SafeInv`) and about chains (`ChainHeight`: no block of a chain is above its tip, from `Chain` being the smallest
set closed under parents) serve the modules above it.

`UtxoRecords_proofs`: `InputsAreFound` and `RecordsStayExact`. `InputsFound` says nothing of the tables; `RecordInv` does. Of every output of the chain that has one address there is a record on disk, and once the
batch in flight is written, for the chain memory is at (`Covers`). Between blocks the output is also found the way the code looks, in the last-seen cache or else on disk, and no operation that waits
deletes a record (`Saving`): it is what makes it harmless that the cache forgets everything when a batch is written. A removal deletes records under the symbols of the removed
transactions only (`Undoing`), which no transaction below has, by `ChainNamed`'s invariant. That an input spends an output made before (`SpentInOrder`) makes it one of those covered.

`RecordsStayExact`, in the same module, says which records those are: `UtxoTableExact`, which is stated for `NoEarly`, under the condition `Ordinary`: where blocks are removed, they spend nothing they make (`SpendsOlder`). When a block that does is removed,
`removeBlock` puts a record back under a key whose deletion already waits: TLC shows it on `fork` changed that way. An early query makes the property false as well: the symbol a client gives an address after the worker did
is not the one its records carry (`early_lookup` has such a behaviour). The table as the property writes it says nothing of what waits, so `TableInv` follows `ExactTable`, the same statement output by output, through the
stages: the table on disk is exact for the chain on disk, with the batch in flight on top for the chain memory is at, and between blocks so is the table that what waits would make (`Writing`). `Writing` also says that a record which waits is in the
last-seen cache, so that what a later input reads and puts again is the latest value, although an entry of the cache carries the tx symbol of its output only until that is spent: no chain
spends an output twice (`SpentOnce`). `Linked` says the same of address symbols. For a block taken back, `Taken` says that just the records it spent are put
again, freed, and just those it made are deleted; that this gives the parent's table (`TakenExact`) needs that no other transaction of the parent's chain spent them, `SpentOnce` again, and that
no two outputs have one key (`OwnKeys`). `FirstAll`, `SaveBlockRuns` and the like carry this through the loops, as for `UtxoIndexer_proofs`.

`UtxoLists_proofs`: what clients read from the tables, `CoinsStayCorrect` and `HistoryStaysCorrect`, for any tree of blocks.

- `TypedInv`: the values in every table are of their kinds: on disk, in the batch, among the waiting operations and in the caches (`Typed`). The types of `IndexerTypes` speak of
  keys; a read whose value is used further needs this.
- `ListInv`: the lists on disk have exactly the outputs of the indexed chain, under the symbols of their addresses, each once (`ListsExact`); the batch in flight makes them so for the chain memory
  is at; between blocks, the list on disk with what waits to be appended to it (`added`) has those of the chain memory is at. `Listing` and `SaveBlockLists` carry this through the loop of an addition, `ListsTaken` through that of a removal, which takes
  entries out of the list of each address of the block, by the keys `TableInv` knows.
- The condition is named `Plain`: `Ordinary`, and where blocks are removed, they pay no address twice (`PaysOnce`). It is needed: the run `shared_address` shows an
  entry that stays behind, as the code takes one list from disk and puts it back for each such output.
- `StayInv`: no write that waits or is in flight gives a transaction or a block that is indexed, or an address that is on disk, another symbol; with it `SymbolsPersist`: from one step to the next, what is on disk and
  stays keeps its symbol. The requests, which use symbols they read several steps ago, need it.
- `CacheInv`: what a reader may remember besides the tables. The last-seen caches have the outputs and transactions that wait or are in flight, with their amounts and the symbols of their addresses
  (`SeenOutput`, `SeenInv`); a list is always that of an address whose symbol it is under (`NamedInv`), and symbols of addresses start with 1 (`PositiveInv`), as `getAddressBySymbol` takes them. `TxHere` and
  `AddressHere` say that a transaction or an address has a symbol somewhere: on disk, in the batch, or only in memory. `TxHereStays` and `AddressHereStays`: it keeps it until the process ends, as long as no
  removal takes the transaction back; `SymbolRead`, `UtxoRead`, `AddressRead` and `ListRead`: what is read later with such a symbol belongs to it.
- `CoinsStayCorrect`: with `TableInv`, an entry of the list is unspent in its record exactly if the chain leaves the output unspent, its amount is the output's, and its tx symbol leads to the transaction (`NameInv`).
- `HistoryStaysCorrect`: an output counts at the height of a block exactly if the chain of that block leaves it unspent (`CountsUnspent`), although the record carries the heights of the
  longer chain: a transaction is mined in one block (`MinedOnIs`), spent by one (`SpentOnce`), and blocks of one chain are ordered by height (`ChainBefore`). What is left is that the sum along the list, with entries that do not count in
  between, is the sum over the set: a sum over a finite set is the same whichever element comes first (`SumSplits`), and one over positions is one over the outputs they stand for (`SumMapped`). These go by
  induction on the number of elements, `UpTo` again.

`AddressSymbols_proofs`, for any addresses, clients, transactions and bounds:

- `TypeCorrect`.
- `SymbolsStayDistinct`: `SymbolsDistinct` is not inductive, since it does not say what a batch carries; `SymbolInv` adds that whatever address holds a symbol, in
  whichever of cache, waiting operations, batch and disk, no other address holds it anywhere (`Unique`), and that the counters are in step: what is held is at
  most `last`, and between gathering and writing the batch's counter lies between that of the disk and that of memory (`Counted`). A new
  symbol is above everything held, and a restart goes back to a counter that covers the disk.
- `SymbolsStay`: the symbol of an address on disk is never replaced. For an address no client asks for too early, `KeptInv` says that an
  operation or a batch holds its first symbol, which the cache still has (`FirstSymbol`); that a look-up which finds nothing finds nothing because there is
  nothing (`FirstCall`: the worker is the only one to allocate for it); and that whatever the worker has named stays known
  until it is written (`NamedKnown`), which is where it matters that the caches are dropped only when the batch is on disk.

- `ListsStayComplete`: for an address no client asked for too early, until an early query and a crash have both happened, an output on disk is found from its address and its address from it. On top of
`SymbolInv` and `KeptInv`, `ListInv` says that a symbol is used for one address only, not just where it is held but in look-ups under way and in lists on disk (`Owned`), as long as no crash can have
dropped an early address's name; and that records and lists agree at each station (`Recorded`): what the worker has named and recorded carries the address's symbol, the outputs added are those
recorded and not yet written, a gathered list is the one on disk with these added, and none is left out while a flush looks up its address.

`AccountQueries_proofs`: `RequestsAreQueries`: every behaviour of the indexer with account requests is one of `UtxoIndexer`, a request step being a
stutter or one of the two of its `Query`; so `RequestsKeepIndex`, and every theorem about `UtxoIndexer` holds with requests in flight. What
needs an invariant (`RequestInv`) is that a look-up asks for an address of `Addresses` and, between its two steps, is among those of `mem.asking`. `RequestsTyped`: each stage of a request has what its next read needs (`HasRead`), and a read finds a value
of its kind, whatever the indexer did since the last one: from `TypedInv`, `RecordInv` and `SymbolInv`.

`RequestsSeeHistory`, in the same module: `HistoryAnswered`, which is stated for `NoEarly`, under `Plain`; the invariants it rests on are for `NoEarly`, too. A request reads the list once and each record later, from whatever state the tables are in by then, so no single state of the
tables gives the answer. `HistInv` says, stage by stage (`Follows`), what a request for the balance at a block that has stayed on disk since its first read has found out. A list read earlier may lack
outputs that came since, but of the outputs up to that block it has exactly those of the address (`OutsFor`): a balance at a block does not need the others. The sum so far is that of the
block's unspent outputs among the entries behind it. What makes this go on, whatever the indexer writes in between: what is on disk and stays keeps its symbols (`SymbolsPersist`), and the record of such an
output says at every time whether the block leaves it unspent (`RecordCounts`, from `CountsUnspent`), also when a spender above the block comes or goes. An entry
whose output was removed, and its symbol used again, belongs to a transaction above the block and does not count. A request fails only where a block left the disk in between. TLC checked `HistInv` on
the instance of `accounts` before.

`CoinsStayBetween` and `LatestStaysBetween`, in the same module: `CoinsBetween` and `LatestBetween`, likewise. These requests name no block that stays, so an output may count by the state of one read and not of
another; the answer is bounded by the states of the database during the request (`during`) and, for a balance, the tip in memory it names (`Sources`). `LatestInv` says for each stage (`Between`) that the outputs taken so far are
unspent in some of these states, and that none is left behind that all of them have (`Picked`, `Walking`); for coins that wait for their hash the same of what waits and what has it (`Waiting`). Three things carry it:

- The symbol a request has looked up is that of its address and of no other, though it may be on disk only later or never (`OnlyFor`). So a list that is missing means that no state so far has anything for the address. A
  symbol the request found in the cache belongs to an operation that waits or is in flight (`CachedInv`).
- The tip a balance names is on one chain with the database, until a removal shows (`TipInv`, on top of `AheadInv`): an output counts at its height exactly if some state between has it unspent.
- While blocks are only added, the blocks of `during` are ancestors of the database's, so their outputs keep their symbols and records (`SourceOne`, `OwnerKnown`, `RecordSays`); a step of the indexer adds at most one block to
  `during`, which only widens the bounds (`GrownBetween`).

The bounds of a balance are sums, so the sets need to be finite (`ChainFinite`, `UnspentFinite`, `SomeFinite`), and more outputs must hold no less (`SatsGrow`). Both properties say nothing of a request during which a
block was removed, or which began with an empty database that has got a block since: no block is then an ancestor of the first state. TLC checked `LatestInv` on the instance of `accounts` before.

`BlockQueries_proofs`: `IndexedAnswered`: `FlushInv /\ SafeInv /\ RefusedInv` implies `IndexedNotRefused`. `SafeInv` says that the safe height is that of
the block on disk, or, while the flush of a removal runs, already that of the block memory went back to; `RefusedInv` that a request that was refused asked for a block above the safe height and
that no indexer step comes before the answer. `LookupsKeepIndex` as above. `LookupsTyped`: a translation has inputs and outputs of its transaction up to where it is, and what a read
finds, in a table or in the last-seen caches, is of its kind (`LookedInv`, on top of `TypedInv`); an operation has an address.

`OperationsStayExact` and `OperationsStaySound`, in the same module: `OperationsExact` and `OperationsSound`, stated for `NoEarly`, under `Plain`. Each input takes up to three reads, of tables or of a cache that is dropped when a
flush ends, so again no single state of the tables gives the answer. `OpsInv` says that the operations so far are those of some of the inputs before the one at hand (`Finds`), of all of them if what the
transaction spends stays indexed and has addresses; that a tx symbol it waits with is that of the transaction of the output, and a record that of the output (`Sees`). It is stated of requests during which
no block was removed, or which spend only what stays: without one of them a symbol that is remembered may be used again. `NotedInv` ties the ghost `during` to the database; with it the
lemmas about `TxHere` and `AddressHere` carry `Sees` through every step of the indexer (`IndexerTold`). An input is skipped only if a read finds nothing, and each of the three reads finds what is indexed
(`SymbolTold`, `RecordTold`, `OwnerTold`). That one more input gives one more operation is `OneMoreFound`, by `UpTo` from the recursive function in `InputOperationsAt`. TLC checked `OpsInv` and `CacheInv`
on the instance of `blocks` before.

`Construction_proofs`, for any coins and accounts and lists of operations of any length:

- The invariant `CInv` says what each answer is as a function of the operations: the coins and accounts of preprocess and metadata (`RequiredInv`), the transaction
  and payloads (`BuiltInv`), signatures, the signed transaction and what parse reads (`SignedInv`). From it the rest is reasoning about lists.
- `AnswersHaveShapes`; `ParseGivesIntentBack`: regrouping coins by account changes nothing when no account is interrupted (`GroupedFlat`), so coins and operations paired by position
  match; `AcceptedIsIntended`: a transaction the node accepts has a single coin, since the first payload commits to the first input alone, and then no mix-up is possible;
  `SingleCoinsPass`: every honest transfer of one coin passes each endpoint and the node, if its signature is in the form of a scriptSig.
- `Pick`, `FlattenSeq` and `Total` are recursive functions. `Iterates` shows that such a function exists; `PickUnfolds`, `FlattenUnfolds` and `TotalUnfolds` that it is the one the definition chooses. The
  lemmas after them say what is picked, in which order, and that amounts of two complementary selections add up.

Only model-checked:

- `FedInOrder` of `ChainSync`: it is false outside the bounds of `trouble` (see its limits), and what follows from it is proved.
- `CatchesUp`: liveness and `ENABLED` are out of the prover's reach.

## What the runs found

Each violation run is a disagreement between the code and a statement of the repository; the lines
and quotes are under `findings` in `PROJECT.json`.

1. `shared_flag`: without any reorganisation, one failed fetch can make the worker end the process.
2. `restart_reorg`: a reorganisation of the indexed tip that is noticed after a restart is never followed; the server ends and restarts for ever.
3. `shared_address`: removing a block that pays an address twice leaves an entry behind.
4. `many_coins`: transactions with several inputs are built with signatures the node must reject.
5. `early_lookup`: a balance query for an address the indexer does not know yet can part the address from its outputs for good.

Known besides, as a condition of a property rather than a run: removing a block that spends an output it makes leaves the record of that output
behind (`SpendsOlder`); a latest balance names the tip in memory but is read from the database behind it (`LatestBetween`); the
signature a client is asked for is not converted to what a scriptSig takes (`ForScripts`).

## Not modelled

- A disk that fails: a rejected batch or read. In `saveState`'s handler the promise would then never settle, in the driver's own flush the gathered
  operations would be lost while the caches that hide it go on.
- The awaits inside the worker's own look-ups in `UtxoIndexer`, `AccountQueries` and `BlockQueries`: they matter once a client has asked for an unknown address, and `AddressSymbols` has them.
- Outputs without exactly one address in `/block`: what `txOperations` answers for such a transaction is the stage `unlisted` and nothing is claimed of it.
- The start-up order inside `Boot`: `launch` before `initIndexer`. Until `initIndexer` has ended there are no tables or counters, and requests
  fail or are refused.
- The network endpoints and `/mempool` forward answers of the node or static lists; the RPC client is pure I/O; configuration and network parameters are constants.
- `/construction/derive` and `hash` convert one value each.
- Binary encodings, coin identifiers, metadata of blocks and transactions; sums above 2^53 satoshis.

## Plan

Done: the pipeline, the tables and their refinements, construction; then address symbols, account queries and the answers about blocks and
transactions, each with a passing run, its proofs, and where it tells the same story in more detail in place of a violation run. Left, in
this order:

1. Failing batches in `ChainSync`: `saveState` rejecting or never settling, and what the driver does next.
2. Proofs: `BlockCache` never holding more than its space; `FedInOrder` under a condition that excludes the runs in which it fails.
3. `BootOrder`: checkConnection, launch, initIndexer, initSyncer with failing calls.
