------------------------------ MODULE ChainSync ------------------------------
(***************************************************************************)
(* The sync pipeline of the server in online mode: the driver loop of      *)
(* index.js, the syncer it calls, the block cache between the /block       *)
(* endpoint and the indexer, the indexer's work queue and worker, its      *)
(* write batches and the database, and the node whose chain it follows.    *)
(* Everything runs on one event loop; an action is what happens between    *)
(* two awaits. The transactions of a block are the business of module      *)
(* UtxoIndexer; here a block is its hash, its height and its parent.       *)
(***************************************************************************)
EXTENDS BlockTree, BlockCache

CONSTANTS
    MaxSync,        \* blocks fetched at once by the syncer (Syncer.js:40: 200)
    RoundSpan,      \* blocks asked for in one sync call (index.js:119: 1000)
    BatchSize,      \* BLOCK_BATCH_SIZE (Indexer.js:7: 200)
    QuietReorgs,    \* TRUE: the node moves to another branch only while the pipeline is drained
    Budgets         \* bounds, one of which each behaviour has: how often the node may move to
                    \* another branch, the process be killed, a sync call fail on a fetch, and
                    \* other clients of /block make the cache load a block

Budget == [reorgs : Nat, crashes : Nat, errors : Nat, clients : Nat]

ASSUME ChainSyncAssumption ==
    /\ MaxSync \in Nat /\ RoundSpan \in Nat /\ BatchSize \in Nat \ {0}
    /\ QuietReorgs \in BOOLEAN
    /\ Budgets \subseteq Budget

VARIABLES
    best,       \* the tip of the node's best chain
    budget,     \* what is left of the bounds
    proc,       \* the server process: "down", "up", "aborted", "killed"
    cache,      \* SyncBlockCache
    requests,   \* blocks that other /block requests are fetching from the node
    dpc, cur,   \* the driver: where it is, and its currentHeight
    past, next, target, limit, fetched, emitting,   \* the syncer
    queue, work, wpc,       \* workQueue, the worker's block, where the worker is
    mem,        \* the indexer's in-memory state
    inflight,   \* the operations a running processBatches has gathered
    db          \* the database

nodeVars   == <<best, budget>>
cacheVars  == <<cache, requests>>
driverVars == <<dpc, cur>>
syncerVars == <<past, next, target, limit, fetched, emitting>>
workVars   == <<queue, work, wpc>>
indexVars  == <<mem, inflight, db>>
vars == <<best, budget, proc, cache, requests, dpc, cur, past, next, target, limit,
          fetched, emitting, queue, work, wpc, mem, inflight, db>>

------------------------------------------------------------------------------
(* Values *)

\* A work queue element is a reference to the object the block cache held when
\* the event arrived; remove is a field of that object, and cached says whether
\* the cache still holds the same object.
EntryOf(S) == [block : S, remove : BOOLEAN, cached : BOOLEAN]
NoEntry == [block |-> NoBlock, remove |-> FALSE, cached |-> FALSE]

\* The block table and the metadata keys of the database.
EmptyDb == [blocks |-> {}, best |-> NoBlock, last |-> -1, genesis |-> NoBlock]

\* The operations and metadata one processBatches writes in a single batch.
Gathered == [put : SUBSET Blocks, del : SUBSET Blocks, best : BlockOrNone,
             last : Int, genesis : BlockOrNone]
Nothing  == [put |-> {}, del |-> {}, best |-> NoBlock, last |-> -1, genesis |-> NoBlock]

\* Mutant of MemoryOf: lastBlockSymbol is null on an empty database.
NullMemoryOf(d) == [genesis |-> d.genesis, best |-> d.best,
                    last |-> IF d.best = NoBlock THEN NoBlock ELSE d.last,
                    safe |-> d.last, seen |-> {}, put |-> {}, del |-> {}]

\* initBestBlockHash .. initBlockSymbol: memory as the constructor and
\* initIndexer leave it. seen is lastSeenBlockHashes; put and del are the
\* operations waiting in dbBatches['block-sym'].
MemoryOf(d) == [genesis |-> d.genesis, best |-> d.best, last |-> d.last,
                safe |-> d.last, seen |-> {}, put |-> {}, del |-> {}]

Lesser(a, b) == IF a < b THEN a ELSE b

------------------------------------------------------------------------------
(* The database writes: processBatches and writeBatches *)

Gather(m) == [put |-> m.put, del |-> m.del, best |-> m.best, last |-> m.last,
              genesis |-> m.genesis]

\* Up to its first await processBatches moves the waiting operations and the
\* metadata into one list.
BeginFlush(who, m) ==
    /\ inflight' = [inflight EXCEPT ![who] = Gather(m)]
    /\ mem' = [m EXCEPT !.put = {}, !.del = {}]

Written(d, g) == [blocks |-> (d.blocks \ g.del) \cup g.put, best |-> g.best,
                  last |-> g.last, genesis |-> g.genesis]

\* The batch is on disk: the last-seen caches are dropped and the height that
\* is safe to query is lastBlockSymbol as it is now.
EndFlush(who) ==
    /\ db' = Written(db, inflight[who])
    /\ inflight' = [inflight EXCEPT ![who] = Nothing]
    /\ mem' = [mem EXCEPT !.seen = {}, !.safe = mem.last]

DriverWrites == dpc = "saving"
WorkerWrites == wpc \in {"flush", "rmFlush"}

------------------------------------------------------------------------------
(* The node *)

NodeExtends ==
    /\ \E b \in Blocks : Parent[b] = best /\ best' = b
    /\ UNCHANGED <<budget, proc, cacheVars, driverVars, syncerVars, workVars, indexVars>>

Drained == dpc \in {"loop", "count"} /\ wpc = "idle"

\* The node moves to a longer branch that its tip is not on.
NodeReorganises ==
    /\ budget.reorgs > 0
    /\ QuietReorgs => Drained
    /\ \E b \in Blocks : Height[b] > Height[best] /\ best \notin Chain[b] /\ best' = b
    /\ budget' = [budget EXCEPT !.reorgs = @ - 1]
    /\ UNCHANGED <<proc, cacheVars, driverVars, syncerVars, workVars, indexVars>>

------------------------------------------------------------------------------
(* The block cache and the objects in it *)

\* A put replaces the object of its hash and may evict others: queued
\* references to those objects are no longer shared with the cache.
Detached(e, c, hash) == [e EXCEPT !.cached = e.cached /\ e.block # hash /\ Has(c, e.block)]

Load(hash) ==
    LET c == Put(cache, hash)
    IN  /\ cache' = c
        /\ queue' = [i \in DOMAIN queue |-> Detached(queue[i], c, hash)]
        /\ work' = Detached(work, c, hash)

\* Another client asks /block for a block that is not cached; the handler calls
\* getblock and puts the answer in the cache when it arrives.
ClientMisses ==
    /\ proc = "up"
    /\ budget.clients > 0
    /\ \E b \in Blocks \ requests :
          /\ Height[b] <= Height[best]
          /\ ~Has(cache, b)
          /\ requests' = requests \cup {b}
    /\ budget' = [budget EXCEPT !.clients = @ - 1]
    /\ UNCHANGED <<best, proc, cache, driverVars, syncerVars, workVars, indexVars>>

ClientLoads ==
    /\ proc = "up"
    /\ \E b \in requests : Load(b) /\ requests' = requests \ {b}
    /\ UNCHANGED <<nodeVars, proc, driverVars, syncerVars, wpc, indexVars>>

------------------------------------------------------------------------------
(* The driver: continueSyncIfNeeded *)

DriverLoops ==
    /\ proc = "up"
    /\ dpc = "loop"
    /\ cur' = mem.last
    /\ dpc' = "count"
    /\ UNCHANGED <<nodeVars, proc, cacheVars, syncerVars, workVars, indexVars>>

\* Mutant of DriverIsSynced: one block short.
DriverIsSyncedEarly ==
    /\ proc = "up"
    /\ dpc = "count"
    /\ cur + 1 >= Height[best]
    /\ dpc' = "loop"
    /\ UNCHANGED <<nodeVars, proc, cacheVars, cur, syncerVars, workVars, indexVars>>

\* Nothing to do: the loop comes back ten seconds later.
DriverIsSynced ==
    /\ proc = "up"
    /\ dpc = "count"
    /\ cur >= Height[best]
    /\ dpc' = "loop"
    /\ UNCHANGED <<nodeVars, proc, cacheVars, cur, syncerVars, workVars, indexVars>>

DriverSyncs ==
    /\ proc = "up"
    /\ dpc = "count"
    /\ cur < Height[best]
    /\ next' = cur + 1
    /\ target' = cur + 1 + Lesser(Height[best] - (cur + 1), RoundSpan)
    /\ limit' = cur
    /\ fetched' = {}
    /\ emitting' = FALSE
    /\ dpc' = "sync"
    /\ UNCHANGED <<nodeVars, proc, cacheVars, cur, past, workVars, indexVars>>

WorkerActive == wpc # "idle"

\* Mutant of DriverSaves: saveState never waits for the worker.
DriverSavesAtOnce ==
    /\ proc = "up"
    /\ dpc = "save"
    /\ dpc' = "saving"
    /\ BeginFlush("driver", mem)
    /\ UNCHANGED <<nodeVars, proc, cacheVars, cur, syncerVars, workVars, db>>

\* saveState: write now, or wait for the worker to quit.
DriverSaves ==
    /\ proc = "up"
    /\ dpc = "save"
    /\ IF WorkerActive
       THEN dpc' = "saveWait" /\ UNCHANGED <<mem, inflight>>
       ELSE dpc' = "saving" /\ BeginFlush("driver", mem)
    /\ UNCHANGED <<nodeVars, proc, cacheVars, cur, syncerVars, workVars, db>>

DriverSaved ==
    /\ proc = "up"
    /\ DriverWrites
    /\ EndFlush("driver")
    /\ dpc' = "loop"
    /\ UNCHANGED <<nodeVars, proc, cacheVars, cur, syncerVars, workVars>>

------------------------------------------------------------------------------
(* The syncer of the Rosetta SDK, from how Syncer.js and index.js use it:  *)
(* sync(next, target) fetches ranges of blocks through /block, compares    *)
(* each block with the last one it reported, and reports BLOCK_ADDED or    *)
(* BLOCK_REMOVED. It starts with no past blocks.                           *)

SyncRange ==
    /\ proc = "up"
    /\ dpc = "sync"
    /\ next > limit
    /\ next <= target
    /\ limit' = Lesser(target, next + MaxSync)
    /\ fetched' = {}
    /\ emitting' = FALSE
    /\ UNCHANGED <<nodeVars, proc, cacheVars, driverVars, past, next, target,
                   workVars, indexVars>>

Missing(h) == \A b \in fetched : Height[b] # h

\* The heights of the range in any order, or the next one again when the block
\* fetched for it has been used up. /block asks the node for the hash at the
\* height and loads the block into the cache unless it is there.
SyncFetches ==
    /\ proc = "up"
    /\ dpc = "sync"
    /\ next <= limit
    /\ \E b \in Chain[best] :
          /\ Height[b] \in next..(IF emitting THEN next ELSE limit)
          /\ Missing(Height[b])
          /\ fetched' = fetched \cup {b}
          /\ IF Has(cache, b) THEN UNCHANGED <<cache, queue, work>> ELSE Load(b)
    /\ UNCHANGED <<nodeVars, proc, requests, driverVars, past, next, target, limit,
                   emitting, wpc, indexVars>>

\* The syncer waits for an answer of /block.
Fetching ==
    next <= limit /\ \E h \in next..(IF emitting THEN next ELSE limit) : Missing(h)

RangeFetched == emitting \/ \A h \in next..limit : ~Missing(h)

LastPast == past[Len(past)]

\* The parent_block_identifier of /block; genesis is its own parent.
RosettaParent(b) == IF b = Genesis THEN b ELSE Parent[b]

\* The block at hand does not follow the last one reported.
Forked(b) == past # <<>> /\ RosettaParent(b) # LastPast

\* The block that goes to handleBlock.
Reported(b) == IF Forked(b) THEN LastPast ELSE b

Marked(e, b, removed) ==
    IF e.block = b /\ e.cached THEN [e EXCEPT !.remove = removed] ELSE e

\* Mutant of HandleBlock: the block is queued without being marked.
HandleBlockUnmarked(b, removed) ==
    /\ queue' = Append(queue, [block |-> b, remove |-> FALSE, cached |-> TRUE])
    /\ work' = work
    /\ wpc' = IF WorkerActive THEN wpc ELSE "next"

\* handleBlock finds the block in the cache, marks the object and queues it,
\* and starts the worker unless it is running.
HandleBlock(b, removed) ==
    /\ queue' = Append([i \in DOMAIN queue |-> Marked(queue[i], b, removed)],
                       [block |-> b, remove |-> removed, cached |-> TRUE])
    /\ work' = Marked(work, b, removed)
    /\ wpc' = IF WorkerActive THEN wpc ELSE "next"

SyncAdds ==
    /\ proc = "up"
    /\ dpc = "sync"
    /\ RangeFetched
    /\ \E b \in fetched :
          /\ Height[b] = next
          /\ ~Forked(b)
          /\ Has(cache, b)
          /\ HandleBlock(b, FALSE)
          /\ fetched' = fetched \ {b}
          /\ past' = Append(past, b)
          /\ next' = Height[b] + 1
    /\ emitting' = TRUE
    /\ UNCHANGED <<nodeVars, proc, cacheVars, driverVars, target, limit, indexVars>>

SyncRemoves ==
    /\ proc = "up"
    /\ dpc = "sync"
    /\ RangeFetched
    /\ \E b \in fetched :
          /\ Height[b] = next
          /\ Forked(b)
          /\ LastPast # Genesis
          /\ Has(cache, LastPast)
          /\ fetched' = fetched \ {b}
    /\ HandleBlock(LastPast, TRUE)
    /\ past' = SubSeq(past, 1, Len(past) - 1)
    /\ next' = Height[LastPast]
    /\ emitting' = TRUE
    /\ UNCHANGED <<nodeVars, proc, cacheVars, driverVars, target, limit, indexVars>>

\* The syncer will not remove genesis; and handleBlock throws "CRITICAL: No data
\* found in SyncBlockCache" out of the sync call. The driver tries again later.
SyncThrows ==
    /\ proc = "up"
    /\ dpc = "sync"
    /\ RangeFetched
    /\ \E b \in fetched :
          /\ Height[b] = next
          /\ ~Has(cache, Reported(b)) \/ (Forked(b) /\ LastPast = Genesis)
    /\ dpc' = "loop"
    /\ UNCHANGED <<nodeVars, proc, cacheVars, cur, syncerVars, workVars, indexVars>>

\* A fetch fails for good: the sync call rejects.
SyncFails ==
    /\ proc = "up"
    /\ dpc = "sync"
    /\ Fetching
    /\ budget.errors > 0
    /\ budget' = [budget EXCEPT !.errors = @ - 1]
    /\ dpc' = "loop"
    /\ UNCHANGED <<best, proc, cacheVars, cur, syncerVars, workVars, indexVars>>

SyncEnds ==
    /\ proc = "up"
    /\ dpc = "sync"
    /\ next > target
    /\ dpc' = "save"
    /\ UNCHANGED <<nodeVars, proc, cacheVars, cur, syncerVars, workVars, indexVars>>

------------------------------------------------------------------------------
(* The indexer's worker *)

WorkerShifts ==
    /\ proc = "up"
    /\ wpc = "next"
    /\ queue # <<>>
    /\ mem.genesis # NoBlock \/ Height[Head(queue).block] = 0
    /\ work' = Head(queue)
    /\ queue' = Tail(queue)
    /\ mem' = IF mem.genesis = NoBlock THEN [mem EXCEPT !.genesis = Head(queue).block]
              ELSE mem
    /\ wpc' = "lookup"
    /\ UNCHANGED <<nodeVars, proc, cacheVars, driverVars, syncerVars, inflight, db>>

\* The queue is empty. 'worker:quit' runs the handler of a saveState that has
\* been waiting, which starts to write at once.
WorkerQuits ==
    /\ proc = "up"
    /\ wpc = "next"
    /\ queue = <<>>
    /\ work' = NoEntry
    /\ wpc' = "idle"
    /\ IF dpc = "saveWait"
       THEN dpc' = "saving" /\ BeginFlush("driver", mem)
       ELSE UNCHANGED <<dpc, mem, inflight>>
    /\ UNCHANGED <<nodeVars, proc, cacheVars, cur, syncerVars, queue, db>>

\* getBlockSymbol: lastSeenBlockHashes, else the block table on disk.
Known == mem.seen \cup db.blocks

FollowsKnown(b) == Parent[b] \in Known \/ Height[b] = 0

\* The worker has awaited both symbols; remove is read only now.
WorkerAdds ==
    /\ proc = "up"
    /\ wpc = "lookup"
    /\ ~work.remove
    /\ work.block \notin Known
    /\ FollowsKnown(work.block)
    /\ mem' = [mem EXCEPT !.best = work.block, !.last = Height[work.block],
                          !.seen = @ \cup {work.block}, !.put = @ \cup {work.block},
                          !.del = @ \ {work.block}]
    /\ wpc' = "saving"
    /\ UNCHANGED <<nodeVars, proc, cacheVars, driverVars, syncerVars, queue, work,
                   inflight, db>>

WorkerSkips ==
    /\ proc = "up"
    /\ wpc = "lookup"
    /\ ~work.remove
    /\ work.block \in Known
    /\ wpc' = "next"
    /\ UNCHANGED <<nodeVars, proc, cacheVars, driverVars, syncerVars, queue, work, indexVars>>

\* Mutant of WorkerStartsRemoval: nothing is flushed before a block is removed.
WorkerRemovesUnflushed ==
    /\ proc = "up"
    /\ wpc = "lookup"
    /\ work.remove
    /\ work.block \in Known
    /\ FollowsKnown(work.block)
    /\ wpc' = "removing"
    /\ UNCHANGED <<nodeVars, proc, cacheVars, driverVars, syncerVars, queue, work, indexVars>>

WorkerStartsRemoval ==
    /\ proc = "up"
    /\ wpc = "lookup"
    /\ work.remove
    /\ work.block \in Known
    /\ FollowsKnown(work.block)
    /\ BeginFlush("worker", mem)
    /\ wpc' = "rmFlush"
    /\ UNCHANGED <<nodeVars, proc, cacheVars, driverVars, syncerVars, queue, work, db>>

\* No genesis block yet; a block to remove that is unknown; or a block whose
\* parent is unknown (when it is to be added, checkForReorg does not exist).
Unplaceable ==
    \/ wpc = "next" /\ queue # <<>> /\ mem.genesis = NoBlock
       /\ Height[Head(queue).block] # 0
    \/ wpc = "lookup" /\ work.remove /\ work.block \notin Known
    \/ wpc = "lookup" /\ ~FollowsKnown(work.block)
       /\ (work.remove <=> work.block \in Known)

\* The worker's catch: process.exit(1).
WorkerAborts ==
    /\ proc = "up"
    /\ Unplaceable
    /\ proc' = "aborted"
    /\ UNCHANGED <<nodeVars, cacheVars, driverVars, syncerVars, workVars, indexVars>>

\* The end of saveBlock: processBatchesIfNeeded.
WorkerSaved ==
    /\ proc = "up"
    /\ wpc = "saving"
    /\ IF Cardinality(mem.put) + Cardinality(mem.del) >= BatchSize
       THEN wpc' = "flush" /\ BeginFlush("worker", mem)
       ELSE wpc' = "next" /\ UNCHANGED <<mem, inflight>>
    /\ UNCHANGED <<nodeVars, proc, cacheVars, driverVars, syncerVars, queue, work, db>>

WorkerFlushed ==
    /\ proc = "up"
    /\ WorkerWrites
    /\ EndFlush("worker")
    /\ wpc' = IF wpc = "flush" THEN "next" ELSE "removing"
    /\ UNCHANGED <<nodeVars, proc, cacheVars, driverVars, syncerVars, queue, work>>

\* Mutant of WorkerRemoves: the block symbol is not deleted.
WorkerRemovesKeepingSymbol ==
    /\ proc = "up"
    /\ wpc = "removing"
    /\ LET last == Height[work.block] - 1
       IN  BeginFlush("worker", [mem EXCEPT !.best = Parent[work.block], !.last = last,
                                            !.safe = last])
    /\ wpc' = "flush"
    /\ UNCHANGED <<nodeVars, proc, cacheVars, driverVars, syncerVars, queue, work, db>>

\* Mutant of WorkerRemoves: lastBlockSymbol is not reset.
WorkerRemovesKeepingHeight ==
    /\ proc = "up"
    /\ wpc = "removing"
    /\ BeginFlush("worker", [mem EXCEPT !.best = Parent[work.block],
                                        !.put = @ \ {work.block},
                                        !.del = @ \cup {work.block}])
    /\ wpc' = "flush"
    /\ UNCHANGED <<nodeVars, proc, cacheVars, driverVars, syncerVars, queue, work, db>>

\* removeBlock, the reset of the indexer's state, and the second processBatches.
WorkerRemoves ==
    /\ proc = "up"
    /\ wpc = "removing"
    /\ LET last == Height[work.block] - 1
       IN  BeginFlush("worker", [mem EXCEPT !.best = Parent[work.block], !.last = last,
                                            !.safe = last, !.put = @ \ {work.block},
                                            !.del = @ \cup {work.block}])
    /\ wpc' = "flush"
    /\ UNCHANGED <<nodeVars, proc, cacheVars, driverVars, syncerVars, queue, work, db>>

------------------------------------------------------------------------------
(* The process *)

\* The process is killed. A batch being written is on disk as a whole or not at all.
Crash ==
    /\ proc = "up"
    /\ budget.crashes > 0
    /\ budget' = [budget EXCEPT !.crashes = @ - 1]
    /\ proc' = "killed"
    /\ \/ UNCHANGED db
       \/ DriverWrites /\ db' = Written(db, inflight["driver"])
       \/ WorkerWrites /\ db' = Written(db, inflight["worker"])
    /\ UNCHANGED <<best, cacheVars, driverVars, syncerVars, workVars, mem, inflight>>

\* The container starts the server (again), checkConnection has waited until the
\* node has a block besides genesis, and initIndexer reads the database.
Boot ==
    /\ proc # "up"
    /\ Height[best] > 0
    /\ proc' = "up"
    /\ cache' = EmptyCache
    /\ requests' = {}
    /\ dpc' = "loop" /\ cur' = -1
    /\ past' = <<>> /\ next' = 0 /\ target' = -1 /\ limit' = -1
    /\ fetched' = {} /\ emitting' = FALSE
    /\ queue' = <<>> /\ work' = NoEntry /\ wpc' = "idle"
    /\ mem' = MemoryOf(db)
    /\ inflight' = [driver |-> Nothing, worker |-> Nothing]
    /\ UNCHANGED <<nodeVars, db>>

------------------------------------------------------------------------------
(* Specification *)

Init ==
    /\ best = Genesis
    /\ budget \in Budgets
    /\ proc = "down"
    /\ cache = EmptyCache /\ requests = {}
    /\ dpc = "loop" /\ cur = -1
    /\ past = <<>> /\ next = 0 /\ target = -1 /\ limit = -1
    /\ fetched = {} /\ emitting = FALSE
    /\ queue = <<>> /\ work = NoEntry /\ wpc = "idle"
    /\ mem = MemoryOf(EmptyDb)
    /\ inflight = [driver |-> Nothing, worker |-> Nothing]
    /\ db = EmptyDb

Node == NodeExtends \/ NodeReorganises
Clients == ClientMisses \/ ClientLoads
Driver == DriverLoops \/ DriverIsSynced \/ DriverSyncs \/ DriverSaves \/ DriverSaved
Syncer == SyncRange \/ SyncFetches \/ SyncAdds \/ SyncRemoves \/ SyncThrows \/ SyncEnds
Worker == \/ WorkerShifts \/ WorkerQuits \/ WorkerAdds \/ WorkerSkips
          \/ WorkerStartsRemoval \/ WorkerAborts \/ WorkerSaved \/ WorkerFlushed
          \/ WorkerRemoves

Next == Node \/ Clients \/ Driver \/ Syncer \/ SyncFails \/ Worker \/ Crash \/ Boot

Spec == Init /\ [][Next]_vars

\* The event loop runs every callback that is ready, and docker-entrypoint.sh
\* starts the server again whenever it ends. Nothing is assumed of the node, of
\* other clients, of fetch errors and of crashes.
Fairness == WF_vars(Driver) /\ WF_vars(Syncer) /\ WF_vars(Worker)
            /\ WF_vars(ClientLoads) /\ WF_vars(Boot)

FairSpec == Spec /\ Fairness

------------------------------------------------------------------------------
(* Properties *)

\* Type invariant.
TypeOK ==
    /\ best \in Blocks
    /\ budget \in Budget
    /\ proc \in {"down", "up", "aborted", "killed"}
    /\ cache \in [map : SUBSET Blocks, hashes : Seq(Blocks)]
    /\ requests \subseteq Blocks
    /\ dpc \in {"loop", "count", "sync", "save", "saveWait", "saving"}
    /\ cur \in Int /\ next \in Int /\ target \in Int /\ limit \in Int
    /\ past \in Seq(Blocks)
    /\ fetched \subseteq Blocks
    /\ emitting \in BOOLEAN
    /\ queue \in Seq(EntryOf(Blocks))
    /\ work \in EntryOf(BlockOrNone)
    /\ wpc \in {"idle", "next", "lookup", "saving", "flush", "rmFlush", "removing"}
    /\ mem \in [genesis : BlockOrNone, best : BlockOrNone, last : Int, safe : Int,
                 seen : SUBSET Blocks, put : SUBSET Blocks, del : SUBSET Blocks]
    /\ inflight \in [{"driver", "worker"} -> Gathered]
    /\ db \in [blocks : SUBSET Blocks, best : BlockOrNone, last : Int,
                genesis : BlockOrNone]

\* saveState writes only while the worker rests: its batch never overlaps one of
\* the worker's, and no block is queued that would start the worker under it
\* (Indexer.js:208-219).
SaveExclusive ==
    DriverWrites => wpc = "idle" /\ queue = <<>> /\ inflight["worker"] = Nothing

\* The blocks on disk once every gathered and waiting operation is written.
Overlay(S, g) == (S \ g.del) \cup g.put
Indexed == Overlay(Overlay(Overlay(db.blocks, inflight["driver"]), inflight["worker"]), mem)

\* A block that is indexed but not yet on disk is never taken for unknown: the
\* last-seen caches are dropped when a write ends, and no block may have joined the
\* waiting operations since the write gathered them (Indexer.js:346-354, 359-374).
PendingKnown ==
    proc = "up" => /\ mem.put \subseteq mem.seen
                   /\ \A who \in {"driver", "worker"} : inflight[who].put \subseteq mem.seen

\* No block operation is lost or left over: the disk, the batch in flight and the
\* waiting operations together always hold exactly the chain of bestBlockHash
\* (Indexer.js:300-311, 331-333, 359-374).
NothingLost == proc = "up" => Indexed = Chain[mem.best]

\* lastBlockSymbol is the height of bestBlockHash, in memory and on disk, at every
\* await of the worker and after every crash: the driver asks for the blocks above
\* the one, the next block is compared with the other (Indexer.js:306-307, 332,
\* 553, 657-665).
TipHasHeight == mem.last = HeightOf(mem.best) /\ db.last = HeightOf(db.best)

\* "It is now safe to query block up to this.lastBlockSymbol": the blocks up to
\* safeLastBlockSymbol are on disk, also while later blocks are being indexed, and
\* while a reorg takes blocks back (Indexer.js:308, 378-379).
SafeIsCommitted ==
    proc = "up" => \A b \in Chain[mem.best] : Height[b] <= mem.safe => b \in db.blocks

\* What a restart would find is one whole chain: the block table on disk holds the
\* chain of bestBlockHash and genesisBlockHash is known, after every write and
\* every crash.
DbIsChain ==
    /\ db.blocks = Chain[db.best]
    /\ db.best # NoBlock => db.genesis = Genesis

\* The worker is fed in order: a block it is about to index follows the tip, and one it is
\* about to take back is the tip. saveBlock only looks whether the parent is known and
\* removeBlock whether the block is, so an index that is whole rests on this, which the syncer,
\* the cache and the shared remove flags have to provide (Indexer.js:245, 269-330).
FedInOrder ==
    (proc = "up" /\ wpc = "lookup" /\ FollowsKnown(work.block)) =>
        /\ (~work.remove /\ work.block \notin Known) => Parent[work.block] = mem.best
        /\ (work.remove /\ work.block \in Known) => work.block = mem.best

\* The worker never meets a block it cannot place, and the process never ends
\* itself.
NoAbort == proc # "aborted"

\* The pipeline implements the abstract chain index: a block is only ever appended
\* to the tip or taken back from it, and the disk jumps from one state memory has
\* been in to another.
Index == INSTANCE ChainIndex WITH
             working   <- IF proc = "up" THEN mem.best ELSE db.best,
             committed <- db.best

ImplementsIndex == Index!Spec

\* Once the node stays at a block, the index on disk comes to be, and stays, at it.
CatchesUp == \A b \in Blocks \ {Genesis} : <>[](best = b) => <>[](db.best = b)
==============================================================================
