--------------------------- MODULE ChainSync_proofs ---------------------------
(* Theorems about ChainSync, for every block tree and every bound. *)
EXTENDS ChainSync, TLAPS

USE BlockTreeAssumption, CacheSpaceAssumption, ChainSyncAssumption

------------------------------------------------------------------------------
(* The helpers keep their types *)

CacheType == [map : SUBSET Blocks, hashes : Seq(Blocks)]

\* A put into the cache gives a cache again.
LEMMA PutType ==
    ASSUME NEW c \in CacheType, NEW hash \in Blocks
    PROVE  Put(c, hash) \in CacheType
<1> DEFINE full == [map |-> c.map \cup {hash}, hashes |-> Append(c.hashes, hash)]
           surplus == IF Len(full.hashes) > CacheSpace
                      THEN Len(full.hashes) - CacheSpace ELSE 0
<1>1. full \in CacheType
  BY DEF CacheType
<1>2. surplus \in 0..Len(full.hashes)
  BY <1>1 DEF CacheType
<1>3. SubSeq(full.hashes, surplus + 1, Len(full.hashes)) \in Seq(Blocks)
  BY <1>1, <1>2 DEF CacheType
<1>5. full.map \ {full.hashes[i] : i \in 1..surplus} \in SUBSET Blocks
  BY <1>1 DEF CacheType
<1> QED
  BY <1>3, <1>5 DEF Put, RemoveEldest, CacheType

\* Detaching an entry from the cache leaves its block alone.
LEMMA DetachedType ==
    ASSUME NEW S, NEW e \in EntryOf(S), NEW c, NEW hash
    PROVE  /\ Detached(e, c, hash) \in EntryOf(S)
           /\ Detached(e, c, hash).block = e.block
<1> DEFINE kept == e.cached /\ e.block # hash /\ Has(c, e.block)
<1>1. kept \in BOOLEAN
  BY DEF EntryOf
<1>2. \A k \in BOOLEAN : /\ [e EXCEPT !.cached = k] \in EntryOf(S)
                         /\ [e EXCEPT !.cached = k].block = e.block
  BY DEF EntryOf
<1> QED
  BY <1>1, <1>2 DEF Detached

\* Loading a block into the cache keeps the queue's length and the worker's block.
LEMMA LoadType ==
    ASSUME TypeOK, NEW hash \in Blocks, Load(hash)
    PROVE  /\ cache' \in CacheType
           /\ queue' \in Seq(EntryOf(Blocks))
           /\ Len(queue') = Len(queue)
           /\ work' \in EntryOf(BlockOrNone)
           /\ work'.block = work.block
<1>1. cache \in CacheType /\ queue \in Seq(EntryOf(Blocks)) /\ work \in EntryOf(BlockOrNone)
  BY DEF TypeOK, CacheType
<1> DEFINE c == Put(cache, hash)
<1>2. c \in CacheType
  BY <1>1, PutType
<1>3. cache' = c /\ work' = Detached(work, c, hash)
      /\ queue' = [i \in 1..Len(queue) |-> Detached(queue[i], c, hash)]
  BY <1>1 DEF Load
<1> HIDE DEF c
<1>4. \A i \in 1..Len(queue) : Detached(queue[i], c, hash) \in EntryOf(Blocks)
  BY <1>1, DetachedType
<1>5. queue' \in Seq(EntryOf(Blocks)) /\ Len(queue') = Len(queue)
  BY <1>1, <1>3, <1>4
<1> QED
  BY <1>1, <1>2, <1>3, <1>5, DetachedType

\* Marking an entry leaves its block alone.
LEMMA MarkedType ==
    ASSUME NEW S, NEW e \in EntryOf(S), NEW b, NEW removed \in BOOLEAN
    PROVE  /\ Marked(e, b, removed) \in EntryOf(S)
           /\ Marked(e, b, removed).block = e.block
BY DEF Marked, EntryOf

\* handleBlock queues a block and leaves a worker with something to do.
LEMMA HandleBlockType ==
    ASSUME TypeOK, NEW b \in Blocks, NEW removed \in BOOLEAN, HandleBlock(b, removed)
    PROVE  /\ queue' \in Seq(EntryOf(Blocks))
           /\ queue' # <<>>
           /\ work' \in EntryOf(BlockOrNone)
           /\ work'.block = work.block
<1>1. queue \in Seq(EntryOf(Blocks)) /\ work \in EntryOf(BlockOrNone)
  BY DEF TypeOK
<1> DEFINE marked == [i \in 1..Len(queue) |-> Marked(queue[i], b, removed)]
           entry == [block |-> b, remove |-> removed, cached |-> TRUE]
<1>2. queue' = Append(marked, entry) /\ work' = Marked(work, b, removed)
  BY <1>1 DEF HandleBlock
<1>3. \A i \in 1..Len(queue) : Marked(queue[i], b, removed) \in EntryOf(Blocks)
  BY <1>1, MarkedType
<1>4. marked \in Seq(EntryOf(Blocks))
  BY <1>1, <1>3
<1>5. entry \in EntryOf(Blocks)
  BY DEF EntryOf
<1> HIDE DEF marked, entry
<1>6. Append(marked, entry) \in Seq(EntryOf(Blocks)) /\ Append(marked, entry) # <<>>
  BY <1>4, <1>5
<1> QED
  BY <1>1, <1>2, <1>6, MarkedType

------------------------------------------------------------------------------
(* The inductive invariant: who may write, and what waits meanwhile *)

WorkerHasBlock == wpc \notin {"idle", "next"} => work.block \in Blocks

Exclusive ==
    /\ wpc = "idle" => queue = <<>>
    /\ DriverWrites => wpc = "idle"
    /\ ~DriverWrites => inflight["driver"] = Nothing
    /\ ~WorkerWrites => inflight["worker"] = Nothing

\* While a batch is in flight nothing joins the waiting operations.
Quiet ==
    /\ DriverWrites \/ WorkerWrites => mem.put = {}
    /\ mem.put \subseteq mem.seen
    /\ \A who \in {"driver", "worker"} : inflight[who].put \subseteq mem.seen

Tips == /\ TipHasHeight
        /\ \A who \in {"driver", "worker"} :
              inflight[who].last = HeightOf(inflight[who].best)

SyncInv == TypeOK /\ WorkerHasBlock /\ Exclusive /\ Quiet /\ Tips

------------------------------------------------------------------------------
(* The writes keep types and tips *)

MemType == [genesis : BlockOrNone, best : BlockOrNone, last : Int, safe : Int,
            seen : SUBSET Blocks, put : SUBSET Blocks, del : SUBSET Blocks]
DbType == [blocks : SUBSET Blocks, best : BlockOrNone, last : Int, genesis : BlockOrNone]
InflightType == [{"driver", "worker"} -> Gathered]

\* The empty batch is a batch.
LEMMA NothingType == Nothing \in Gathered /\ Nothing.put = {}
                     /\ Nothing.last = HeightOf(Nothing.best)
BY DEF Nothing, Gathered, BlockOrNone, HeightOf

\* A write starts with what was waiting, and leaves nothing waiting.
LEMMA BeginFlushType ==
    ASSUME TypeOK, NEW who \in {"driver", "worker"}, NEW m \in MemType, BeginFlush(who, m)
    PROVE  /\ inflight' \in InflightType
           /\ inflight'[who].put = m.put
           /\ inflight'[who].last = m.last /\ inflight'[who].best = m.best
           /\ \A w \in {"driver", "worker"} \ {who} : inflight'[w] = inflight[w]
           /\ mem' \in MemType
           /\ mem'.put = {} /\ mem'.seen = m.seen
           /\ mem'.last = m.last /\ mem'.best = m.best
<1>1. Gather(m) \in Gathered /\ Gather(m).put = m.put
      /\ Gather(m).last = m.last /\ Gather(m).best = m.best
  BY DEF Gather, Gathered, MemType
<1>2. inflight \in InflightType /\ inflight' = [inflight EXCEPT ![who] = Gather(m)]
  BY DEF TypeOK, InflightType, BeginFlush
<1>3. mem' = [m EXCEPT !.put = {}, !.del = {}]
  BY DEF BeginFlush
<1>4. /\ mem' \in MemType /\ mem'.put = {} /\ mem'.seen = m.seen
      /\ mem'.last = m.last /\ mem'.best = m.best
  BY <1>3 DEF MemType
<1> QED
  BY <1>1, <1>2, <1>4 DEF InflightType

\* Writing a batch gives a database.
LEMMA WrittenType ==
    ASSUME NEW d \in DbType, NEW h \in Gathered
    PROVE  /\ Written(d, h) \in DbType
           /\ Written(d, h).last = h.last /\ Written(d, h).best = h.best
BY DEF Written, DbType, Gathered

\* A write ends with its tip on disk and the caches empty.
LEMMA EndFlushType ==
    ASSUME TypeOK, NEW who \in {"driver", "worker"}, EndFlush(who)
    PROVE  /\ inflight' \in InflightType
           /\ inflight'[who] = Nothing
           /\ \A w \in {"driver", "worker"} \ {who} : inflight'[w] = inflight[w]
           /\ mem' \in MemType
           /\ mem'.put = mem.put
           /\ mem'.last = mem.last /\ mem'.best = mem.best
           /\ db' \in DbType
           /\ db'.last = inflight[who].last /\ db'.best = inflight[who].best
<1>1. inflight \in InflightType /\ mem \in MemType /\ db \in DbType
  BY DEF TypeOK, InflightType, MemType, DbType
<1>2. inflight' = [inflight EXCEPT ![who] = Nothing]
  BY DEF EndFlush
<1>3. /\ inflight' \in InflightType /\ inflight'[who] = Nothing
      /\ \A w \in {"driver", "worker"} \ {who} : inflight'[w] = inflight[w]
  BY <1>1, <1>2, NothingType DEF InflightType
<1>4. mem' \in MemType /\ mem'.put = mem.put /\ mem'.last = mem.last /\ mem'.best = mem.best
  BY <1>1 DEF EndFlush, MemType
<1>5. inflight[who] \in Gathered /\ db' = Written(db, inflight[who])
  BY <1>1 DEF EndFlush, InflightType
<1> QED
  BY <1>1, <1>3, <1>4, <1>5, WrittenType

\* A restart reads memory back from the database.
LEMMA MemoryOfType ==
    ASSUME NEW d \in DbType
    PROVE  /\ MemoryOf(d) \in MemType
           /\ MemoryOf(d).put = {} /\ MemoryOf(d).seen = {}
           /\ MemoryOf(d).last = d.last /\ MemoryOf(d).best = d.best
BY DEF MemoryOf, MemType, DbType

\* The empty database is one, and its tip has its height.
LEMMA EmptyDbType == EmptyDb \in DbType /\ EmptyDb.last = HeightOf(EmptyDb.best)
BY DEF EmptyDb, DbType, BlockOrNone, HeightOf

\* Actions that leave the indexer and the worker's place alone.
LEMMA Frame ==
    ASSUME SyncInv, wpc' = wpc, queue' = <<>> <=> queue = <<>>, work'.block = work.block,
           DriverWrites' <=> DriverWrites, UNCHANGED indexVars
    PROVE  WorkerHasBlock' /\ Exclusive' /\ Quiet' /\ Tips'
BY DEF SyncInv, WorkerHasBlock, Exclusive, Quiet, Tips, TipHasHeight, WorkerWrites, indexVars

------------------------------------------------------------------------------
(* Every action preserves the inductive invariant *)

\* Spending from a bound leaves a bound.
LEMMA BudgetSpent ==
    ASSUME NEW x \in Budget
    PROVE  /\ x.reorgs > 0 => [x EXCEPT !.reorgs = @ - 1] \in Budget
           /\ x.crashes > 0 => [x EXCEPT !.crashes = @ - 1] \in Budget
           /\ x.errors > 0 => [x EXCEPT !.errors = @ - 1] \in Budget
           /\ x.clients > 0 => [x EXCEPT !.clients = @ - 1] \in Budget
BY DEF Budget

\* The node does not touch the pipeline.
LEMMA NodeStep == ASSUME SyncInv, Node PROVE SyncInv'
<1> USE DEF cacheVars, driverVars, syncerVars, workVars, indexVars
<1>1. best' \in Blocks /\ UNCHANGED <<proc, cacheVars, driverVars, syncerVars, workVars, indexVars>>
  BY DEF Node, NodeExtends, NodeReorganises
<1>2. budget' \in Budget
  BY BudgetSpent DEF SyncInv, TypeOK, Budget, Node, NodeExtends, NodeReorganises
<1>3. TypeOK'
  BY <1>1, <1>2 DEF SyncInv, TypeOK, Budget
<1> QED
  BY <1>1, <1>3, Frame DEF SyncInv, DriverWrites

\* Loading a block leaves the queue as empty or as full as it was.
LEMMA LoadFrame ==
    ASSUME SyncInv, NEW hash \in Blocks, Load(hash)
    PROVE  /\ cache' \in CacheType /\ queue' \in Seq(EntryOf(Blocks))
           /\ queue' = <<>> <=> queue = <<>>
           /\ work' \in EntryOf(BlockOrNone) /\ work'.block = work.block
<1>1. TypeOK
  BY DEF SyncInv
<1>2. queue \in Seq(EntryOf(Blocks))
  BY <1>1 DEF TypeOK
<1>3. /\ cache' \in CacheType /\ queue' \in Seq(EntryOf(Blocks)) /\ Len(queue') = Len(queue)
      /\ work' \in EntryOf(BlockOrNone) /\ work'.block = work.block
  BY <1>1, LoadType
<1>4. queue' = <<>> <=> queue = <<>>
  BY <1>2, <1>3
<1> QED
  BY <1>3, <1>4

\* Other clients of /block touch the cache and the objects in it only.
LEMMA ClientStep == ASSUME SyncInv, Clients PROVE SyncInv'
<1> USE DEF nodeVars, driverVars, syncerVars, workVars, indexVars
<1>1. CASE ClientMisses
  <2>1. budget' \in Budget
    BY <1>1, BudgetSpent DEF SyncInv, TypeOK, Budget, ClientMisses
  <2>2. TypeOK'
    BY <1>1, <2>1 DEF SyncInv, TypeOK, Budget, ClientMisses
  <2> QED
    BY <1>1, <2>2, Frame DEF SyncInv, ClientMisses, DriverWrites
<1>2. CASE ClientLoads
  <2>1. PICK b \in requests : Load(b) /\ requests' = requests \ {b}
    BY <1>2 DEF ClientLoads
  <2>2. b \in Blocks
    BY DEF SyncInv, TypeOK
  <2>3. /\ cache' \in CacheType /\ queue' \in Seq(EntryOf(Blocks))
        /\ work' \in EntryOf(BlockOrNone) /\ work'.block = work.block
    BY <2>1, <2>2, LoadFrame
  <2>4. queue' = <<>> <=> queue = <<>>
    BY <2>1, <2>2, LoadFrame
  <2>5. TypeOK'
    BY <1>2, <2>1, <2>3 DEF SyncInv, TypeOK, ClientLoads, CacheType
  <2> QED
    BY <1>2, <2>3, <2>4, <2>5, Frame DEF SyncInv, ClientLoads, DriverWrites
<1> QED
  BY <1>1, <1>2 DEF Clients

\* The driver keeps the invariant.
LEMMA DriverStep == ASSUME SyncInv, Driver PROVE SyncInv'
<1> USE DEF nodeVars, cacheVars, syncerVars, workVars
<1>1. CASE DriverLoops
  <2>1. cur' \in Int
    BY <1>1 DEF SyncInv, TypeOK, DriverLoops
  <2>2. dpc' = "count"
        /\ UNCHANGED <<nodeVars, proc, cacheVars, syncerVars, workVars, indexVars>>
    BY <1>1 DEF DriverLoops
  <2>3. TypeOK'
    BY <2>1, <2>2 DEF SyncInv, TypeOK, indexVars
  <2> QED
    BY <1>1, <2>3, Frame DEF SyncInv, DriverLoops, DriverWrites
<1>2. CASE DriverIsSynced
  <2>1. TypeOK'
    BY <1>2 DEF SyncInv, TypeOK, DriverIsSynced, indexVars
  <2> QED
    BY <1>2, <2>1, Frame DEF SyncInv, DriverIsSynced, DriverWrites
<1>3. CASE DriverSyncs
  <2> DEFINE span == Lesser(Height[best] - (cur + 1), RoundSpan)
  <2>1. cur \in Int /\ Height[best] \in Int /\ RoundSpan \in Int
    BY DEF SyncInv, TypeOK
  <2>5. span \in Int
    BY <2>1 DEF Lesser
  <2>6. next' = cur + 1 /\ target' = cur + 1 + span /\ limit' = cur
    BY <1>3 DEF DriverSyncs
  <2> HIDE DEF span
  <2>2. next' \in Int /\ target' \in Int /\ limit' \in Int
    BY <2>1, <2>5, <2>6
  <2>3. fetched' = {} /\ emitting' = FALSE /\ dpc' = "sync"
        /\ UNCHANGED <<nodeVars, proc, cacheVars, cur, past, workVars, indexVars>>
    BY <1>3 DEF DriverSyncs
  <2>4. TypeOK'
    BY <2>2, <2>3 DEF SyncInv, TypeOK, indexVars
  <2> QED
    BY <1>3, <2>4, Frame DEF SyncInv, DriverSyncs, DriverWrites
<1>4. CASE DriverSaves
  <2>1. CASE WorkerActive
    <3>1. TypeOK'
      BY <1>4, <2>1 DEF SyncInv, TypeOK, DriverSaves
    <3> QED
      BY <1>4, <2>1, <3>1, Frame DEF SyncInv, DriverSaves, DriverWrites, indexVars
  <2>2. CASE ~WorkerActive
    <3>1. mem \in MemType
      BY DEF SyncInv, TypeOK, MemType
    <3>2. BeginFlush("driver", mem) /\ dpc' = "saving" /\ wpc = "idle"
      BY <1>4, <2>2 DEF DriverSaves, WorkerActive
    <3>3. /\ inflight' \in InflightType /\ inflight'["driver"].put = mem.put
          /\ inflight'["driver"].last = mem.last /\ inflight'["driver"].best = mem.best
          /\ inflight'["worker"] = inflight["worker"]
          /\ mem' \in MemType /\ mem'.put = {} /\ mem'.seen = mem.seen
          /\ mem'.last = mem.last /\ mem'.best = mem.best
      BY <3>1, <3>2, BeginFlushType DEF SyncInv
    <3>4. UNCHANGED <<nodeVars, proc, cacheVars, cur, syncerVars, workVars, db>>
      BY <1>4 DEF DriverSaves
    <3>5. TypeOK'
      BY <3>2, <3>3, <3>4 DEF SyncInv, TypeOK, InflightType, MemType
    <3>6. WorkerHasBlock' /\ Exclusive'
      BY <3>2, <3>3, <3>4 DEF SyncInv, WorkerHasBlock, Exclusive, DriverWrites, WorkerWrites
    <3>7. Quiet' /\ Tips'
      BY <3>2, <3>3, <3>4 DEF SyncInv, Quiet, Tips, TipHasHeight
    <3> QED
      BY <3>5, <3>6, <3>7 DEF SyncInv
  <2> QED
    BY <2>1, <2>2
<1>5. CASE DriverSaved
  <2>1. EndFlush("driver") /\ dpc = "saving" /\ dpc' = "loop" /\ wpc = "idle"
    BY <1>5 DEF DriverSaved, DriverWrites, SyncInv, Exclusive
  <2>2. /\ inflight' \in InflightType /\ inflight'["driver"] = Nothing
        /\ inflight'["worker"] = inflight["worker"]
        /\ mem' \in MemType /\ mem'.put = mem.put
        /\ mem'.last = mem.last /\ mem'.best = mem.best
        /\ db' \in DbType
        /\ db'.last = inflight["driver"].last /\ db'.best = inflight["driver"].best
    BY <2>1, EndFlushType DEF SyncInv
  <2>3. UNCHANGED <<nodeVars, proc, cacheVars, cur, syncerVars, workVars>>
    BY <1>5 DEF DriverSaved
  <2>4. TypeOK'
    BY <2>1, <2>2, <2>3 DEF SyncInv, TypeOK, InflightType, MemType, DbType
  <2>5. mem'.put = {} /\ inflight'["worker"] = Nothing
    BY <2>1, <2>2 DEF SyncInv, Quiet, Exclusive, DriverWrites, WorkerWrites
  <2>6. WorkerHasBlock' /\ Exclusive'
    BY <2>1, <2>2, <2>3 DEF SyncInv, WorkerHasBlock, Exclusive, DriverWrites, WorkerWrites
  <2>7. Quiet' /\ Tips'
    BY <2>2, <2>5, NothingType DEF SyncInv, Quiet, Tips, TipHasHeight, HeightOf
  <2> QED
    BY <2>4, <2>6, <2>7 DEF SyncInv
<1> QED
  BY <1>1, <1>2, <1>3, <1>4, <1>5 DEF Driver

\* A block goes to the worker only from a sync call, so not while the driver writes.
LEMMA Handled ==
    ASSUME SyncInv, dpc = "sync", NEW b \in Blocks, NEW removed \in BOOLEAN,
           HandleBlock(b, removed), past' \in Seq(Blocks), next' \in Int,
           fetched' \subseteq Blocks, emitting' = TRUE,
           UNCHANGED <<nodeVars, proc, cacheVars, driverVars, target, limit, indexVars>>
    PROVE  SyncInv'
<1> USE DEF nodeVars, cacheVars, driverVars, indexVars
<1>1. /\ queue' \in Seq(EntryOf(Blocks)) /\ queue' # <<>>
      /\ work' \in EntryOf(BlockOrNone) /\ work'.block = work.block
  BY HandleBlockType DEF SyncInv
<1>2. wpc' = IF wpc = "idle" THEN "next" ELSE wpc
  BY DEF HandleBlock, WorkerActive
<1>3. TypeOK'
  BY <1>1, <1>2 DEF SyncInv, TypeOK
<1>4. WorkerHasBlock'
  BY <1>1, <1>2 DEF SyncInv, WorkerHasBlock
<1>5. Exclusive'
  BY <1>1, <1>2 DEF SyncInv, Exclusive, DriverWrites, WorkerWrites
<1>6. Quiet' /\ Tips'
  BY <1>2 DEF SyncInv, Quiet, Tips, TipHasHeight, DriverWrites, WorkerWrites
<1> QED
  BY <1>3, <1>4, <1>5, <1>6 DEF SyncInv

\* The syncer keeps the invariant.
LEMMA SyncerStep == ASSUME SyncInv, Syncer PROVE SyncInv'
<1> USE DEF nodeVars, cacheVars, driverVars, indexVars
<1>1. CASE SyncRange
  <2>1. limit' \in Int
    BY <1>1 DEF SyncInv, TypeOK, SyncRange, Lesser
  <2>2. fetched' = {} /\ emitting' = FALSE
        /\ UNCHANGED <<nodeVars, proc, cacheVars, driverVars, past, next, target, workVars, indexVars>>
    BY <1>1 DEF SyncRange
  <2>3. TypeOK'
    BY <2>1, <2>2 DEF SyncInv, TypeOK, workVars
  <2> QED
    BY <1>1, <2>3, Frame DEF SyncInv, SyncRange, DriverWrites, workVars
<1>2. CASE SyncFetches
  <2>1. PICK b \in Blocks :
              /\ fetched' = fetched \cup {b}
              /\ IF Has(cache, b) THEN UNCHANGED <<cache, queue, work>> ELSE Load(b)
    BY <1>2 DEF SyncFetches, Chain, SyncInv, TypeOK, BlockOrNone
  <2>2. /\ cache' \in CacheType /\ queue' \in Seq(EntryOf(Blocks))
        /\ queue' = <<>> <=> queue = <<>>
        /\ work' \in EntryOf(BlockOrNone) /\ work'.block = work.block
    <3>1. CASE Has(cache, b)
      BY <2>1, <3>1 DEF SyncInv, TypeOK, CacheType
    <3>2. CASE ~Has(cache, b)
      BY <2>1, <3>2, LoadFrame
    <3> QED
      BY <3>1, <3>2
  <2>3. TypeOK'
    BY <1>2, <2>1, <2>2 DEF SyncInv, TypeOK, SyncFetches, CacheType
  <2> QED
    BY <1>2, <2>2, <2>3, Frame DEF SyncInv, SyncFetches, DriverWrites
<1>3. CASE SyncAdds
  <2>1. PICK b \in fetched : /\ HandleBlock(b, FALSE)
                            /\ fetched' = fetched \ {b}
                            /\ past' = Append(past, b)
                            /\ next' = Height[b] + 1
    BY <1>3 DEF SyncAdds
  <2>2. b \in Blocks /\ Height[b] \in Int
    BY DEF SyncInv, TypeOK
  <2>3. HandleBlock(b, FALSE)
    BY <2>1
  <2>4. past' \in Seq(Blocks) /\ next' \in Int /\ fetched' \subseteq Blocks
    <3>1. past \in Seq(Blocks) /\ fetched \subseteq Blocks
      BY DEF SyncInv, TypeOK
    <3>2. past' \in Seq(Blocks)
      BY <2>1, <2>2, <3>1
    <3> QED
      BY <2>1, <2>2, <3>1, <3>2
  <2>5. UNCHANGED <<nodeVars, proc, cacheVars, driverVars, target, limit, indexVars>>
        /\ emitting' = TRUE /\ dpc = "sync"
    BY <1>3 DEF SyncAdds
  <2> QED
    BY <2>2, <2>3, <2>4, <2>5, Handled
<1>4. CASE SyncRemoves
  <2>1. past # <<>> /\ past \in Seq(Blocks)
    BY <1>4 DEF SyncRemoves, Forked, SyncInv, TypeOK
  <2>2. LastPast \in Blocks /\ Height[LastPast] \in Int
    BY <2>1 DEF LastPast
  <2>3. HandleBlock(LastPast, TRUE)
    BY <1>4 DEF SyncRemoves
  <2>4. past' \in Seq(Blocks)
    BY <1>4, <2>1 DEF SyncRemoves
  <2>5. next' \in Int /\ fetched' \subseteq Blocks
    BY <1>4, <2>2 DEF SyncRemoves, SyncInv, TypeOK
  <2>6. UNCHANGED <<nodeVars, proc, cacheVars, driverVars, target, limit, indexVars>>
        /\ emitting' = TRUE /\ dpc = "sync"
    BY <1>4 DEF SyncRemoves
  <2> QED
    BY <2>2, <2>3, <2>4, <2>5, <2>6, Handled
<1>5. CASE SyncThrows \/ SyncEnds
  <2>1. dpc = "sync" /\ dpc' \in {"loop", "save"}
        /\ UNCHANGED <<nodeVars, proc, cacheVars, cur, syncerVars, workVars, indexVars>>
    BY <1>5 DEF SyncThrows, SyncEnds
  <2>2. TypeOK'
    BY <2>1 DEF SyncInv, TypeOK, syncerVars, workVars
  <2> QED
    BY <2>1, <2>2, Frame DEF SyncInv, DriverWrites, workVars
<1> QED
  BY <1>1, <1>2, <1>3, <1>4, <1>5 DEF Syncer

\* A failing sync call keeps the invariant.
LEMMA SyncFailsStep == ASSUME SyncInv, SyncFails PROVE SyncInv'
<1>1. budget' \in Budget
  BY BudgetSpent DEF SyncInv, TypeOK, Budget, SyncFails
<1>2. TypeOK'
  BY <1>1 DEF SyncInv, TypeOK, Budget, SyncFails, cacheVars, syncerVars, workVars, indexVars
<1> QED
  BY <1>2, Frame DEF SyncInv, SyncFails, DriverWrites, workVars

\* The worker starts a write of memory as m has it.
LEMMA WorkerFlushes ==
    ASSUME SyncInv, wpc \in {"lookup", "saving", "removing"}, wpc' \in {"flush", "rmFlush"},
           NEW m \in MemType, m.put \subseteq m.seen, m.last = HeightOf(m.best),
           m.seen = mem.seen, BeginFlush("worker", m),
           UNCHANGED <<nodeVars, proc, cacheVars, driverVars, syncerVars, queue, work, db>>
    PROVE  SyncInv'
<1> USE DEF nodeVars, cacheVars, driverVars, syncerVars
<1>1. /\ inflight' \in InflightType /\ inflight'["worker"].put = m.put
      /\ inflight'["worker"].last = m.last /\ inflight'["worker"].best = m.best
      /\ inflight'["driver"] = inflight["driver"]
      /\ mem' \in MemType /\ mem'.put = {} /\ mem'.seen = m.seen
      /\ mem'.last = m.last /\ mem'.best = m.best
  BY BeginFlushType DEF SyncInv
<1>2. TypeOK'
  BY <1>1 DEF SyncInv, TypeOK, InflightType, MemType
<1>3. WorkerHasBlock' /\ Exclusive'
  BY <1>1 DEF SyncInv, WorkerHasBlock, Exclusive, DriverWrites, WorkerWrites
<1>4. Quiet'
  BY <1>1 DEF SyncInv, Quiet
<1>5. Tips'
  BY <1>1 DEF SyncInv, Tips, TipHasHeight, HeightOf
<1> QED
  BY <1>2, <1>3, <1>4, <1>5 DEF SyncInv

\* The worker keeps the invariant.
LEMMA WorkerStep == ASSUME SyncInv, Worker PROVE SyncInv'
<1> USE DEF nodeVars, cacheVars, driverVars, syncerVars
<1>mem. mem \in MemType
  BY DEF SyncInv, TypeOK, MemType
<1>1. CASE WorkerShifts
  <2>1. wpc = "next" /\ wpc' = "lookup" /\ queue # <<>> /\ queue \in Seq(EntryOf(Blocks))
        /\ work' = Head(queue) /\ queue' = Tail(queue)
    BY <1>1 DEF WorkerShifts, SyncInv, TypeOK
  <2>2. queue' \in Seq(EntryOf(Blocks)) /\ Head(queue) \in EntryOf(Blocks)
    BY <2>1
  <2>3. work' \in EntryOf(BlockOrNone) /\ work'.block \in Blocks
    BY <2>1, <2>2 DEF EntryOf, BlockOrNone
  <2>4. mem' \in MemType /\ mem'.put = mem.put /\ mem'.seen = mem.seen
        /\ mem'.last = mem.last /\ mem'.best = mem.best
    <3>1. CASE mem.genesis = NoBlock
      <4>1. mem' = [mem EXCEPT !.genesis = work'.block]
        BY <1>1, <2>1, <3>1 DEF WorkerShifts
      <4> QED
        BY <1>mem, <2>3, <4>1 DEF MemType, BlockOrNone
    <3>2. CASE mem.genesis # NoBlock
      BY <1>1, <1>mem, <3>2 DEF WorkerShifts
    <3> QED
      BY <3>1, <3>2
  <2>5. UNCHANGED <<nodeVars, proc, cacheVars, driverVars, syncerVars, inflight, db>>
    BY <1>1 DEF WorkerShifts
  <2>6. TypeOK'
    BY <2>1, <2>2, <2>3, <2>4, <2>5 DEF SyncInv, TypeOK, MemType
  <2>7. WorkerHasBlock' /\ Exclusive'
    BY <2>1, <2>3, <2>5 DEF SyncInv, WorkerHasBlock, Exclusive, DriverWrites, WorkerWrites
  <2>8. Quiet' /\ Tips'
    BY <2>1, <2>4, <2>5 DEF SyncInv, Quiet, Tips, TipHasHeight, HeightOf, DriverWrites, WorkerWrites
  <2> QED
    BY <2>6, <2>7, <2>8 DEF SyncInv
<1>2. CASE WorkerQuits
  <2>1. wpc = "next" /\ wpc' = "idle" /\ queue = <<>> /\ work' = NoEntry
        /\ UNCHANGED <<nodeVars, proc, cacheVars, cur, syncerVars, queue, db>>
    BY <1>2 DEF WorkerQuits
  <2>2. work' \in EntryOf(BlockOrNone)
    BY <2>1 DEF NoEntry, EntryOf, BlockOrNone
  <2>3. CASE dpc = "saveWait"
    <3>1. BeginFlush("driver", mem) /\ dpc' = "saving"
      BY <1>2, <2>3 DEF WorkerQuits
    <3>2. /\ inflight' \in InflightType /\ inflight'["driver"].put = mem.put
          /\ inflight'["driver"].last = mem.last /\ inflight'["driver"].best = mem.best
          /\ inflight'["worker"] = inflight["worker"]
          /\ mem' \in MemType /\ mem'.put = {} /\ mem'.seen = mem.seen
          /\ mem'.last = mem.last /\ mem'.best = mem.best
      BY <1>mem, <3>1, BeginFlushType DEF SyncInv
    <3>3. TypeOK'
      BY <2>1, <2>2, <3>1, <3>2 DEF SyncInv, TypeOK, InflightType, MemType
    <3>4. WorkerHasBlock' /\ Exclusive'
      BY <2>1, <3>1, <3>2 DEF SyncInv, WorkerHasBlock, Exclusive, DriverWrites, WorkerWrites
    <3>5. Quiet' /\ Tips'
      BY <2>1, <3>2 DEF SyncInv, Quiet, Tips, TipHasHeight, HeightOf
    <3> QED
      BY <3>3, <3>4, <3>5 DEF SyncInv
  <2>4. CASE dpc # "saveWait"
    <3>1. UNCHANGED <<dpc, mem, inflight>>
      BY <1>2, <2>4 DEF WorkerQuits
    <3>2. TypeOK'
      BY <2>1, <2>2, <3>1 DEF SyncInv, TypeOK
    <3>3. WorkerHasBlock' /\ Exclusive'
      BY <2>1, <3>1 DEF SyncInv, WorkerHasBlock, Exclusive, DriverWrites, WorkerWrites
    <3>4. Quiet' /\ Tips'
      BY <2>1, <3>1 DEF SyncInv, Quiet, Tips, TipHasHeight, HeightOf, DriverWrites, WorkerWrites
    <3> QED
      BY <3>2, <3>3, <3>4 DEF SyncInv
  <2> QED
    BY <2>3, <2>4
<1>3. CASE WorkerAdds
  <2>1. wpc = "lookup" /\ wpc' = "saving" /\ work.block \in Blocks
        /\ UNCHANGED <<nodeVars, proc, cacheVars, driverVars, syncerVars, queue, work, inflight, db>>
    BY <1>3 DEF WorkerAdds, SyncInv, WorkerHasBlock
  <2>2. /\ mem' \in MemType
        /\ mem'.put = mem.put \cup {work.block} /\ mem'.seen = mem.seen \cup {work.block}
        /\ mem'.last = Height[work.block] /\ mem'.best = work.block
    <3> DEFINE Added(b, h) == [mem EXCEPT !.best = b, !.last = h, !.seen = @ \cup {b},
                                          !.put = @ \cup {b}, !.del = @ \ {b}]
    <3>1. ASSUME NEW b \in Blocks, NEW h \in Int
          PROVE  /\ Added(b, h) \in MemType
                 /\ Added(b, h).put = mem.put \cup {b} /\ Added(b, h).seen = mem.seen \cup {b}
                 /\ Added(b, h).last = h /\ Added(b, h).best = b
      BY <1>mem DEF MemType, BlockOrNone
    <3>2. Height[work.block] \in Int
      BY <2>1
    <3>3. mem' = Added(work.block, Height[work.block])
      BY <1>3 DEF WorkerAdds
    <3> HIDE DEF Added
    <3> QED
      BY <2>1, <3>1, <3>2, <3>3
  <2>3. TypeOK'
    BY <2>1, <2>2 DEF SyncInv, TypeOK, MemType
  <2>4. WorkerHasBlock' /\ Exclusive'
    BY <2>1 DEF SyncInv, WorkerHasBlock, Exclusive, DriverWrites, WorkerWrites
  <2>5. Quiet'
    BY <2>1, <2>2 DEF SyncInv, Quiet, Exclusive, DriverWrites, WorkerWrites
  <2>6. Tips'
    BY <2>1, <2>2 DEF SyncInv, Tips, TipHasHeight, HeightOf
  <2> QED
    BY <2>3, <2>4, <2>5, <2>6 DEF SyncInv
<1>4. CASE WorkerSkips \/ WorkerAborts
  <2>1. /\ wpc' = wpc \/ (wpc = "lookup" /\ wpc' = "next")
        /\ proc' \in {"up", "aborted"}
        /\ UNCHANGED <<nodeVars, cacheVars, driverVars, syncerVars, queue, work, indexVars>>
    BY <1>4 DEF WorkerSkips, WorkerAborts, workVars
  <2>2. TypeOK'
    BY <2>1 DEF SyncInv, TypeOK, indexVars
  <2>3. WorkerHasBlock' /\ Exclusive'
    BY <2>1 DEF SyncInv, WorkerHasBlock, Exclusive, DriverWrites, WorkerWrites, indexVars
  <2>4. Quiet' /\ Tips'
    BY <2>1 DEF SyncInv, Quiet, Tips, TipHasHeight, HeightOf, DriverWrites, WorkerWrites, indexVars
  <2> QED
    BY <2>2, <2>3, <2>4 DEF SyncInv
<1>5. CASE WorkerStartsRemoval
  <2>1. wpc = "lookup" /\ wpc' = "rmFlush" /\ BeginFlush("worker", mem)
        /\ UNCHANGED <<nodeVars, proc, cacheVars, driverVars, syncerVars, queue, work, db>>
    BY <1>5 DEF WorkerStartsRemoval
  <2> QED
    BY <1>mem, <2>1, WorkerFlushes DEF SyncInv, Quiet, Tips, TipHasHeight
<1>6. CASE WorkerSaved
  <2>1. wpc = "saving" /\ UNCHANGED <<nodeVars, proc, cacheVars, driverVars, syncerVars, queue, work, db>>
    BY <1>6 DEF WorkerSaved
  <2>2. CASE wpc' = "flush" /\ BeginFlush("worker", mem)
    BY <1>mem, <2>1, <2>2, WorkerFlushes DEF SyncInv, Quiet, Tips, TipHasHeight
  <2>3. CASE wpc' = "next" /\ UNCHANGED <<mem, inflight>>
    <3>1. TypeOK'
      BY <2>1, <2>3 DEF SyncInv, TypeOK
    <3>2. WorkerHasBlock' /\ Exclusive'
      BY <2>1, <2>3 DEF SyncInv, WorkerHasBlock, Exclusive, DriverWrites, WorkerWrites
    <3>3. Quiet' /\ Tips'
      BY <2>1, <2>3 DEF SyncInv, Quiet, Tips, TipHasHeight, HeightOf, DriverWrites, WorkerWrites
    <3> QED
      BY <3>1, <3>2, <3>3 DEF SyncInv
  <2> QED
    BY <1>6, <2>2, <2>3 DEF WorkerSaved
<1>7. CASE WorkerFlushed
  <2>1. /\ WorkerWrites /\ wpc' \in {"next", "removing"} /\ EndFlush("worker")
        /\ UNCHANGED <<nodeVars, proc, cacheVars, driverVars, syncerVars, queue, work>>
    BY <1>7 DEF WorkerFlushed
  <2>2. /\ inflight' \in InflightType /\ inflight'["worker"] = Nothing
        /\ inflight'["driver"] = inflight["driver"]
        /\ mem' \in MemType /\ mem'.put = mem.put
        /\ mem'.last = mem.last /\ mem'.best = mem.best
        /\ db' \in DbType
        /\ db'.last = inflight["worker"].last /\ db'.best = inflight["worker"].best
    BY <2>1, EndFlushType DEF SyncInv
  <2>3. mem'.put = {} /\ inflight'["driver"] = Nothing /\ ~DriverWrites'
    BY <2>1, <2>2 DEF SyncInv, Quiet, Exclusive, DriverWrites, WorkerWrites
  <2>4. TypeOK'
    BY <2>1, <2>2 DEF SyncInv, TypeOK, InflightType, MemType, DbType
  <2>5. WorkerHasBlock' /\ Exclusive'
    BY <2>1, <2>2, <2>3 DEF SyncInv, WorkerHasBlock, Exclusive, WorkerWrites
  <2>6. Quiet' /\ Tips'
    BY <2>2, <2>3, NothingType DEF SyncInv, Quiet, Tips, TipHasHeight, HeightOf
  <2> QED
    BY <2>4, <2>5, <2>6 DEF SyncInv
<1>8. CASE WorkerRemoves
  <2> DEFINE last == Height[work.block] - 1
             m == [mem EXCEPT !.best = Parent[work.block], !.last = last, !.safe = last,
                              !.put = @ \ {work.block}, !.del = @ \cup {work.block}]
  <2>1. wpc = "removing" /\ wpc' = "flush" /\ BeginFlush("worker", m) /\ work.block \in Blocks
        /\ UNCHANGED <<nodeVars, proc, cacheVars, driverVars, syncerVars, queue, work, db>>
    BY <1>8 DEF WorkerRemoves, SyncInv, WorkerHasBlock
  <2>2. last = HeightOf(Parent[work.block]) /\ last \in Int /\ Parent[work.block] \in BlockOrNone
    BY <2>1 DEF HeightOf, BlockOrNone
  <2> HIDE DEF last
  <2>3. m \in MemType /\ m.put \subseteq mem.put /\ m.seen = mem.seen
        /\ m.last = last /\ m.best = Parent[work.block]
    BY <1>mem, <2>1, <2>2 DEF MemType
  <2> HIDE DEF m
  <2> QED
    BY <2>1, <2>2, <2>3, WorkerFlushes DEF SyncInv, Quiet
<1> QED
  BY <1>1, <1>2, <1>3, <1>4, <1>5, <1>6, <1>7, <1>8 DEF Worker

\* A crash keeps the invariant: a batch is written whole or not at all.
LEMMA CrashStep == ASSUME SyncInv, Crash PROVE SyncInv'
<1> USE DEF cacheVars, driverVars, syncerVars, workVars
<1>1. /\ proc' = "killed"
      /\ UNCHANGED <<best, cacheVars, driverVars, syncerVars, workVars, mem, inflight>>
  BY DEF Crash
<1>2. budget' \in Budget
  BY BudgetSpent DEF SyncInv, TypeOK, Budget, Crash
<1>3. db \in DbType /\ \A who \in {"driver", "worker"} : inflight[who] \in Gathered
  BY DEF SyncInv, TypeOK, DbType
<1>4. db' = db \/ db' = Written(db, inflight["driver"]) \/ db' = Written(db, inflight["worker"])
  BY DEF Crash
<1>5. db' \in DbType /\ db'.last = HeightOf(db'.best)
  BY <1>3, <1>4, WrittenType DEF SyncInv, Tips, TipHasHeight, HeightOf
<1>6. TypeOK'
  BY <1>1, <1>2, <1>5 DEF SyncInv, TypeOK, Budget, DbType
<1>7. WorkerHasBlock' /\ Exclusive' /\ Quiet'
  BY <1>1 DEF SyncInv, WorkerHasBlock, Exclusive, Quiet, DriverWrites, WorkerWrites
<1>8. Tips'
  BY <1>1, <1>5 DEF SyncInv, Tips, TipHasHeight, HeightOf
<1> QED
  BY <1>6, <1>7, <1>8 DEF SyncInv

\* A restart establishes the invariant from what is on disk.
LEMMA BootStep == ASSUME SyncInv, Boot PROVE SyncInv'
<1>1. /\ cache' = EmptyCache /\ requests' = {} /\ proc' = "up"
      /\ dpc' = "loop" /\ cur' = -1
      /\ past' = <<>> /\ next' = 0 /\ target' = -1 /\ limit' = -1
      /\ fetched' = {} /\ emitting' = FALSE
      /\ queue' = <<>> /\ work' = NoEntry /\ wpc' = "idle"
      /\ mem' = MemoryOf(db)
      /\ inflight' = [driver |-> Nothing, worker |-> Nothing]
      /\ UNCHANGED <<best, budget, db>>
  BY DEF Boot, nodeVars
<1>2. cache' \in CacheType /\ work' \in EntryOf(BlockOrNone)
  BY <1>1 DEF EmptyCache, CacheType, NoEntry, EntryOf, BlockOrNone
<1>3. /\ mem' \in MemType /\ mem'.put = {} /\ mem'.seen = {}
      /\ mem'.last = db.last /\ mem'.best = db.best
  BY <1>1, MemoryOfType DEF SyncInv, TypeOK, DbType
<1>4. inflight' \in InflightType
      /\ \A who \in {"driver", "worker"} : inflight'[who] = Nothing
  BY <1>1, NothingType DEF InflightType
<1>5. TypeOK'
  <2>1. /\ requests' = {} /\ proc' = "up" /\ dpc' = "loop" /\ cur' \in Int
        /\ past' \in Seq(Blocks) /\ next' \in Int /\ target' \in Int /\ limit' \in Int
        /\ fetched' = {} /\ emitting' = FALSE
        /\ queue' \in Seq(EntryOf(Blocks)) /\ wpc' = "idle"
        /\ UNCHANGED <<best, budget, db>>
    BY <1>1
  <2> QED
    BY <1>2, <1>3, <1>4, <2>1 DEF SyncInv, TypeOK, CacheType, MemType, InflightType
<1>6. WorkerHasBlock' /\ Exclusive'
  BY <1>1, <1>4 DEF WorkerHasBlock, Exclusive, DriverWrites
<1>7. Quiet' /\ Tips'
  BY <1>1, <1>3, <1>4, NothingType DEF SyncInv, Quiet, Tips, TipHasHeight, HeightOf
<1> QED
  BY <1>5, <1>6, <1>7 DEF SyncInv

------------------------------------------------------------------------------
(* The theorems *)

\* The invariant holds at the start.
LEMMA SyncInvInit == Init => SyncInv
<1> SUFFICES ASSUME Init PROVE SyncInv
  OBVIOUS
<1>1. mem \in MemType /\ mem.put = {} /\ mem.seen = {}
      /\ mem.last = db.last /\ mem.best = db.best /\ db \in DbType /\ db.last = HeightOf(db.best)
  BY MemoryOfType, EmptyDbType DEF Init
<1>2. cache \in CacheType /\ work \in EntryOf(BlockOrNone)
  BY DEF Init, EmptyCache, CacheType, NoEntry, EntryOf, BlockOrNone
<1>3. inflight \in InflightType
      /\ \A who \in {"driver", "worker"} : inflight[who] = Nothing
  BY NothingType DEF Init, InflightType
<1>4. TypeOK
  <2>1. /\ requests = {} /\ proc = "down" /\ dpc = "loop" /\ cur \in Int
        /\ past \in Seq(Blocks) /\ next \in Int /\ target \in Int /\ limit \in Int
        /\ fetched = {} /\ emitting = FALSE
        /\ queue \in Seq(EntryOf(Blocks)) /\ wpc = "idle" /\ best \in Blocks
    BY DEF Init
  <2>2. budget \in Budget
    BY ChainSyncAssumption DEF Init
  <2> QED
    BY <1>1, <1>2, <1>3, <2>1, <2>2
       DEF TypeOK, CacheType, MemType, DbType, InflightType, Budget
<1>5. WorkerHasBlock /\ Exclusive
  BY <1>3 DEF Init, WorkerHasBlock, Exclusive, DriverWrites
<1>6. Quiet /\ Tips
  BY <1>1, <1>3, NothingType DEF Quiet, Tips, TipHasHeight, HeightOf
<1> QED
  BY <1>4, <1>5, <1>6 DEF SyncInv

\* Every step keeps the invariant.
LEMMA SyncInvNext == SyncInv /\ [Next]_vars => SyncInv'
<1> SUFFICES ASSUME SyncInv, [Next]_vars PROVE SyncInv'
  OBVIOUS
<1>1. CASE UNCHANGED vars
  BY <1>1 DEF vars, SyncInv, TypeOK, WorkerHasBlock, Exclusive, Quiet, Tips, TipHasHeight,
              DriverWrites, WorkerWrites
<1> QED
  BY <1>1, NodeStep, ClientStep, DriverStep, SyncerStep, SyncFailsStep, WorkerStep,
     CrashStep, BootStep DEF Next

\* The inductive invariant is an invariant of the specification: types, exclusive
\* writes, known pending blocks and tips that have their height (Indexer.js:206-381).
THEOREM InvariantHolds == Spec => []SyncInv
BY SyncInvInit, SyncInvNext, PTL DEF Spec

\* The state of the pipeline is always of its type, for every block tree, cache
\* size and bound.
THEOREM TypeCorrect == Spec => []TypeOK
<1>1. SyncInv => TypeOK
  BY DEF SyncInv
<1> QED
  BY <1>1, InvariantHolds, PTL

\* A write of saveState never runs beside the worker, nor with a block queued that
\* would start the worker under it, whatever the node, failed fetches, other
\* clients and crashes do (Indexer.js:206-224, 253-255, 340-343).
THEOREM SavesExclusively == Spec => []SaveExclusive
<1>1. SyncInv => SaveExclusive
  BY DEF SyncInv, Exclusive, SaveExclusive, DriverWrites, WorkerWrites
<1> QED
  BY <1>1, InvariantHolds, PTL

\* No block that is indexed but not yet on disk is forgotten when writeBatches drops
\* the last-seen caches (Indexer.js:346-354).
THEOREM PendingStaysKnown == Spec => []PendingKnown
<1>1. SyncInv => PendingKnown
  BY DEF SyncInv, Quiet, PendingKnown
<1> QED
  BY <1>1, InvariantHolds, PTL

\* lastBlockSymbol is the height of bestBlockHash, in memory and on disk, through
\* reorgs, crashes and restarts (Indexer.js:306-307, 332, 553, 654-689).
THEOREM TipKeepsHeight == Spec => []TipHasHeight
<1>1. SyncInv => TipHasHeight
  BY DEF SyncInv, Tips
<1> QED
  BY <1>1, InvariantHolds, PTL

------------------------------------------------------------------------------
(* The index is whole as long as the worker is fed in order: memory, the batch  *)
(* in flight and the disk together are the chain of the tip, the disk alone is  *)
(* a whole chain, the blocks up to safeLastBlockSymbol are on disk, and the     *)
(* pipeline implements ChainIndex, whatever crashes, failed fetches, other      *)
(* clients and moves of the node do besides.                                    *)

Writers == {"driver", "worker"}
Writes(who) == IF who = "driver" THEN DriverWrites ELSE WorkerWrites

\* The disk is a whole chain, and so is what memory was read from.
DiskWhole ==
    /\ DbIsChain
    /\ {db.genesis, mem.genesis} \subseteq {NoBlock, Genesis}
    /\ mem.best # NoBlock => mem.genesis = Genesis

\* What waits, or else what is in flight, makes the disk the chain of the tip.
MemoryWhole ==
    /\ mem.del = {}
    /\ ~DriverWrites /\ ~WorkerWrites => db.blocks \cup mem.put = Chain[mem.best]
    /\ \A who \in Writers :
          Writes(who) => /\ inflight[who].best = mem.best
                         /\ inflight[who].genesis = mem.genesis
                         /\ Overlay(db.blocks, inflight[who]) = Chain[mem.best]

\* Where the worker has a block, genesis is known. What is taken back is the tip, and it is on disk before it is.
TakesBackTip ==
    /\ wpc \notin {"idle", "next"} => mem.genesis = Genesis
    /\ wpc \in {"rmFlush", "removing"} => work.block = mem.best
    /\ wpc = "removing" => mem.put = {} /\ db.best = mem.best

Safe == mem.safe <= mem.last /\ SafeIsCommitted

WholeInv == DiskWhole /\ (proc = "up" => MemoryWhole /\ TakesBackTip /\ Safe)

------------------------------------------------------------------------------
(* Chains *)

\* The chain of a block holds the block and is closed under parents.
LEMMA ChainClosed ==
    ASSUME NEW b \in BlockOrNone
    PROVE  Chain[b] \subseteq Blocks /\ ParentClosed(Chain[b]) /\ b \in Chain[b] \cup {NoBlock}
BY DEF Chain, ParentClosed, BlockOrNone

LEMMA ChainLeast ==
    ASSUME NEW b \in BlockOrNone, NEW S \in SUBSET Blocks, ParentClosed(S), b \in S \cup {NoBlock}
    PROVE  Chain[b] \subseteq S
BY DEF Chain

LEMMA ChainEmpty == Chain[NoBlock] = {}
<1>1. NoBlock \in BlockOrNone /\ {} \in SUBSET Blocks /\ ParentClosed({})
  BY DEF BlockOrNone, ParentClosed
<1>2. Chain[NoBlock] \subseteq {}
  BY <1>1, ChainLeast
<1> QED
  BY <1>2

\* No block of a chain is above its tip.
LEMMA ChainHeights ==
    ASSUME NEW b \in Blocks, NEW c \in Chain[b]
    PROVE  Height[c] <= Height[b]
<1> DEFINE below == {d \in Blocks : Height[d] <= Height[b]}
<1>1. \A d \in Blocks : Parent[d] # NoBlock => Parent[d] \in Blocks /\ Height[d] = Height[Parent[d]] + 1
  OBVIOUS
<1>2. ParentClosed(below)
  <2> SUFFICES ASSUME NEW d \in below, Parent[d] # NoBlock PROVE Parent[d] \in below
    BY DEF ParentClosed
  <2>1. Parent[d] \in Blocks /\ Height[d] = Height[Parent[d]] + 1
    BY <1>1
  <2> QED
    BY <2>1
<1> QED
  BY <1>2, ChainLeast DEF BlockOrNone

\* A chain is the block and the chain of its parent.
LEMMA ChainStep ==
    ASSUME NEW b \in Blocks
    PROVE  /\ Parent[b] \in BlockOrNone
           /\ Chain[b] = Chain[Parent[b]] \cup {b}
           /\ b \notin Chain[Parent[b]]
<1>1. Parent[b] \in BlockOrNone /\ b \in BlockOrNone
  BY DEF BlockOrNone
<1>2. Chain[b] \subseteq Chain[Parent[b]] \cup {b}
  <2> DEFINE S == Chain[Parent[b]] \cup {b}
  <2>1. S \in SUBSET Blocks /\ ParentClosed(S)
    BY <1>1, ChainClosed DEF ParentClosed
  <2> QED
    BY <1>1, <2>1, ChainLeast
<1>3. Chain[Parent[b]] \subseteq Chain[b] /\ b \in Chain[b]
  <2>1. ParentClosed(Chain[b]) /\ Chain[b] \in SUBSET Blocks /\ b \in Chain[b]
    BY <1>1, ChainClosed
  <2>2. Parent[b] \in Chain[b] \cup {NoBlock}
    BY <2>1 DEF ParentClosed
  <2> QED
    BY <1>1, <2>1, <2>2, ChainLeast
<1>4. b \notin Chain[Parent[b]]
  <2>1. CASE Parent[b] = NoBlock
    BY <2>1, ChainEmpty
  <2>2. CASE Parent[b] # NoBlock
    <3>1. Parent[b] \in Blocks /\ Height[b] = Height[Parent[b]] + 1
      BY <2>2
    <3>2. b \in Chain[Parent[b]] => Height[b] <= Height[Parent[b]]
      BY <3>1, ChainHeights
    <3> QED
      BY <3>1, <3>2
  <2> QED
    BY <2>1, <2>2
<1> QED
  BY <1>1, <1>2, <1>3, <1>4

------------------------------------------------------------------------------
(* Every action preserves the invariant *)

\* Actions that leave memory, the disk and the worker's writes alone.
LEMMA WholeFrame ==
    ASSUME SyncInv, WholeInv,
           proc' = proc \/ proc' # "up",
           DriverWrites' <=> DriverWrites,
           \/ wpc' = wpc /\ work'.block = work.block
           \/ wpc \in {"idle", "next", "lookup", "saving"} /\ wpc' \in {"idle", "next"},
           UNCHANGED indexVars
    PROVE  WholeInv'
<1>1. wpc' \notin {"idle", "next"} => wpc' = wpc /\ work'.block = work.block
  OBVIOUS
<1>2. UNCHANGED <<mem, inflight, db>> /\ (WorkerWrites' <=> WorkerWrites)
  BY DEF indexVars, WorkerWrites
<1>3. DiskWhole'
  BY <1>2 DEF WholeInv, DiskWhole, DbIsChain
<1>4. ASSUME proc' = "up" PROVE MemoryWhole' /\ TakesBackTip' /\ Safe'
  <2>1. proc = "up" /\ MemoryWhole /\ TakesBackTip /\ Safe
    BY <1>4 DEF WholeInv
  <2>2. MemoryWhole'
    BY <1>2, <2>1 DEF MemoryWhole, Writes
  <2>3. TakesBackTip'
    BY <1>1, <1>2, <2>1 DEF TakesBackTip
  <2>4. Safe'
    BY <1>2, <1>4, <2>1 DEF Safe, SafeIsCommitted
  <2> QED
    BY <2>2, <2>3, <2>4
<1> QED
  BY <1>3, <1>4 DEF WholeInv

\* A write that starts takes all that waits.
LEMMA WholeBegins ==
    ASSUME SyncInv, WholeInv, proc = "up", proc' = "up", db' = db,
           NEW who \in Writers, NEW m \in MemType, BeginFlush(who, m),
           ~DriverWrites, ~WorkerWrites,
           \A w \in Writers : Writes(w)' <=> w = who,
           Overlay(db.blocks, m) = Chain[m.best], m.genesis = mem.genesis,
           m.best = NoBlock \/ mem.best # NoBlock,
           m.safe <= m.last, \A b \in Chain[m.best] : Height[b] <= m.safe => b \in db.blocks,
           wpc' \in {"idle", "next"} \/ mem.genesis = Genesis,
           wpc' # "removing", wpc' = "rmFlush" => work'.block = m.best
    PROVE  WholeInv'
<1>1. /\ inflight' = [inflight EXCEPT ![who] = Gather(m)]
      /\ mem' = [m EXCEPT !.put = {}, !.del = {}]
  BY DEF BeginFlush
<1>2. /\ inflight'[who] = Gather(m)
      /\ mem'.del = {} /\ mem'.best = m.best /\ mem'.genesis = m.genesis
      /\ mem'.safe = m.safe /\ mem'.last = m.last
  BY <1>1 DEF MemType, SyncInv, TypeOK, Writers
<1>3. DiskWhole'
  BY <1>2 DEF WholeInv, DiskWhole, DbIsChain
<1>4. MemoryWhole'
  <2>1. Overlay(db.blocks, Gather(m)) = Overlay(db.blocks, m)
    BY DEF Overlay, Gather
  <2>2. Gather(m).best = m.best /\ Gather(m).genesis = m.genesis
    BY DEF Gather
  <2>3. (DriverWrites \/ WorkerWrites)'
    BY DEF Writes, Writers
  <2> QED
    BY <1>2, <2>1, <2>2, <2>3 DEF MemoryWhole
<1>5. TakesBackTip' /\ Safe'
  BY <1>2 DEF TakesBackTip, Safe, SafeIsCommitted
<1> QED
  BY <1>3, <1>4, <1>5 DEF WholeInv

\* What a write puts on disk is the chain of the tip.
LEMMA WholeEnds ==
    ASSUME SyncInv, WholeInv, proc = "up", proc' = "up",
           NEW who \in Writers, Writes(who), EndFlush(who),
           ~DriverWrites', ~WorkerWrites',
           work' = work, wpc' \in {"idle", "next"} \/ (wpc' = "removing" /\ wpc = "rmFlush")
    PROVE  WholeInv' /\ mem'.best = mem.best /\ db'.best = mem.best
<1>0. MemoryWhole /\ TakesBackTip /\ mem \in MemType
  BY DEF WholeInv, SyncInv, TypeOK, MemType
<1>1. /\ db' = Written(db, inflight[who])
      /\ mem' = [mem EXCEPT !.seen = {}, !.safe = mem.last]
  BY DEF EndFlush
<1>2. /\ mem'.best = mem.best /\ mem'.genesis = mem.genesis /\ mem'.last = mem.last
      /\ mem'.safe = mem.last /\ mem'.put = mem.put /\ mem'.del = mem.del
  BY <1>0, <1>1 DEF MemType
<1>3. mem.put = {} /\ mem.del = {}
  BY <1>0 DEF SyncInv, Quiet, Writes, MemoryWhole
<1>4. db'.blocks = Chain[mem.best] /\ db'.best = mem.best /\ db'.genesis = mem.genesis
  BY <1>0, <1>1 DEF MemoryWhole, Written, Overlay
<1>5. DiskWhole'
  BY <1>2, <1>4 DEF WholeInv, DiskWhole, DbIsChain
<1>6. MemoryWhole'
  BY <1>2, <1>3, <1>4 DEF MemoryWhole, Writes
<1>7. TakesBackTip'
  BY <1>0, <1>2, <1>3, <1>4 DEF TakesBackTip
<1>8. Safe'
  <2>1. mem.last \in Int
    BY <1>0 DEF MemType
  <2> QED
    BY <1>2, <1>4, <2>1 DEF Safe, SafeIsCommitted
<1> QED
  BY <1>2, <1>4, <1>5, <1>6, <1>7, <1>8 DEF WholeInv

\* The node, other clients and the syncer do not touch the index.
LEMMA WholeOutside ==
    ASSUME SyncInv, WholeInv, Node \/ Clients \/ Syncer \/ SyncFails
    PROVE  WholeInv' /\ UNCHANGED <<proc, mem, db>>
<1> USE DEF driverVars, workVars
<1>1. UNCHANGED <<proc, indexVars>> /\ (DriverWrites' <=> DriverWrites)
  BY DEF Node, NodeExtends, NodeReorganises, Clients, ClientMisses, ClientLoads, Syncer, SyncRange,
         SyncFetches, SyncAdds, SyncRemoves, SyncThrows, SyncEnds, SyncFails, DriverWrites
<1>2. CASE UNCHANGED <<wpc, work>>
  BY <1>1, <1>2, WholeFrame DEF indexVars
<1>3. CASE ~UNCHANGED <<wpc, work>>
  <2>1. \/ \E b \in Blocks : Load(b) /\ wpc' = wpc
        \/ \E b \in Blocks : \E removed \in BOOLEAN : HandleBlock(b, removed)
    <3>1. requests \subseteq Blocks /\ fetched \subseteq Blocks /\ Chain[best] \subseteq Blocks
      BY ChainClosed DEF SyncInv, TypeOK, BlockOrNone
    <3>2. ASSUME SyncRemoves PROVE LastPast \in Blocks
      <4>1. past # <<>> /\ past \in Seq(Blocks)
        BY <3>2 DEF SyncRemoves, Forked, SyncInv, TypeOK
      <4> QED
        BY <4>1 DEF LastPast
    <3> QED
      BY <1>3, <3>1, <3>2
         DEF Node, NodeExtends, NodeReorganises, Clients, ClientMisses, ClientLoads, Syncer,
             SyncRange, SyncFetches, SyncAdds, SyncRemoves, SyncThrows, SyncEnds, SyncFails
  <2>2. CASE \E b \in Blocks : Load(b) /\ wpc' = wpc
    <3>1. work'.block = work.block
      BY <2>2, LoadFrame
    <3> QED
      BY <1>1, <2>2, <3>1, WholeFrame DEF indexVars
  <2>3. CASE \E b \in Blocks : \E removed \in BOOLEAN : HandleBlock(b, removed)
    <3>1. TypeOK
      BY DEF SyncInv
    <3>2. work'.block = work.block
      BY <2>3, <3>1, HandleBlockType
    <3>3. wpc' = wpc \/ (wpc = "idle" /\ wpc' = "next")
      BY <2>3 DEF HandleBlock, WorkerActive
    <3> QED
      BY <1>1, <3>2, <3>3, WholeFrame DEF indexVars
  <2> QED
    BY <2>1, <2>2, <2>3
<1> QED
  BY <1>2, <1>3

\* saveState writes what waits as it is.
LEMMA WholeSaves ==
    ASSUME SyncInv, WholeInv, proc = "up", proc' = "up", db' = db, ~DriverWrites, ~WorkerWrites,
           NEW who \in Writers, BeginFlush(who, mem),
           \A w \in Writers : Writes(w)' <=> w = who,
           wpc' \in {"idle", "next"} \/ mem.genesis = Genesis,
           wpc' # "removing", wpc' = "rmFlush" => work'.block = mem.best
    PROVE  WholeInv' /\ mem'.best = mem.best
<1>1. mem \in MemType /\ MemoryWhole /\ Safe
  BY DEF SyncInv, TypeOK, MemType, WholeInv
<1>2. Overlay(db.blocks, mem) = Chain[mem.best]
  BY <1>1 DEF MemoryWhole, Overlay
<1>3. mem'.best = mem.best
  BY <1>1 DEF BeginFlush, MemType
<1> QED
  BY <1>1, <1>2, <1>3, WholeBegins DEF Safe, SafeIsCommitted

LEMMA WholeDriver ==
    ASSUME SyncInv, WholeInv, Driver
    PROVE  /\ WholeInv' /\ proc = "up" /\ proc' = "up" /\ mem'.best = mem.best
           /\ db' = db \/ db'.best = mem.best
<1> USE DEF workVars
<1>0. SyncInv' /\ proc = "up" /\ proc' = "up"
  BY DriverStep DEF Driver, DriverLoops, DriverIsSynced, DriverSyncs, DriverSaves, DriverSaved
<1>1. CASE DriverLoops \/ DriverIsSynced \/ DriverSyncs
  <2>1. UNCHANGED <<proc, wpc, work, indexVars>> /\ (DriverWrites' <=> DriverWrites)
    BY <1>1 DEF DriverLoops, DriverIsSynced, DriverSyncs, DriverWrites
  <2> QED
    BY <1>0, <2>1, WholeFrame DEF indexVars
<1>2. CASE DriverSaves
  <2>1. CASE WorkerActive
    <3>1. UNCHANGED <<proc, wpc, work, indexVars>> /\ (DriverWrites' <=> DriverWrites)
      BY <1>2, <2>1 DEF DriverSaves, DriverWrites, indexVars
    <3> QED
      BY <1>0, <3>1, WholeFrame DEF indexVars
  <2>2. CASE ~WorkerActive
    <3>1. /\ BeginFlush("driver", mem) /\ UNCHANGED <<db, wpc>> /\ wpc = "idle"
          /\ dpc = "save" /\ dpc' = "saving"
      BY <1>2, <2>2 DEF DriverSaves, WorkerActive
    <3>2. ~DriverWrites /\ ~WorkerWrites /\ \A w \in Writers : Writes(w)' <=> w = "driver"
      BY <3>1 DEF DriverWrites, WorkerWrites, Writes, Writers
    <3> QED
      BY <1>0, <3>1, <3>2, WholeSaves DEF Writers
  <2> QED
    BY <2>1, <2>2
<1>3. CASE DriverSaved
  <2>1. EndFlush("driver") /\ dpc = "saving" /\ dpc' = "loop" /\ wpc = "idle"
        /\ wpc' = wpc /\ work' = work
    BY <1>3 DEF DriverSaved, DriverWrites, SyncInv, Exclusive
  <2>2. Writes("driver") /\ ~DriverWrites' /\ ~WorkerWrites'
    BY <2>1 DEF Writes, DriverWrites, WorkerWrites
  <2> QED
    BY <1>0, <2>1, <2>2, WholeEnds DEF Writers
<1> QED
  BY <1>1, <1>2, <1>3 DEF Driver

\* A block that follows the tip makes its chain.
LEMMA WholeAdds ==
    ASSUME SyncInv, WholeInv, FedInOrder, WorkerAdds
    PROVE  WholeInv' /\ work.block \in Blocks /\ Parent[work.block] = mem.best
           /\ mem'.best = work.block /\ db' = db
<1> DEFINE b == work.block
<1>1. /\ proc = "up" /\ wpc = "lookup" /\ b \in Blocks /\ wpc' = "saving"
      /\ mem' = [mem EXCEPT !.best = b, !.last = Height[b], !.seen = @ \cup {b},
                            !.put = @ \cup {b}, !.del = @ \ {b}]
      /\ UNCHANGED <<proc, dpc, work, inflight, db>>
  BY DEF WorkerAdds, SyncInv, WorkerHasBlock, driverVars
<1>2. Parent[b] = mem.best
  BY DEF FedInOrder, WorkerAdds
<1>3. /\ mem \in MemType /\ MemoryWhole /\ Safe /\ mem.last = HeightOf(mem.best)
      /\ ~DriverWrites /\ ~WorkerWrites
  BY <1>1 DEF SyncInv, TypeOK, MemType, WholeInv, Tips, TipHasHeight, Exclusive, WorkerWrites
<1>4. /\ mem'.best = b /\ mem'.genesis = mem.genesis /\ mem'.safe = mem.safe
      /\ mem'.last = Height[b] /\ mem'.put = mem.put \cup {b} /\ mem'.del = mem.del \ {b}
  BY <1>1, <1>3 DEF MemType
<1>5. Chain[b] = Chain[mem.best] \cup {b}
  BY <1>1, <1>2, ChainStep
<1>6. mem.safe < Height[b]
  <2>1. Height[b] = mem.last + 1
    BY <1>1, <1>2, <1>3 DEF HeightOf
  <2> QED
    BY <1>3, <2>1 DEF Safe, MemType
<1>7. mem.genesis = Genesis
  BY <1>1 DEF WholeInv, TakesBackTip
<1>8. DiskWhole'
  BY <1>1, <1>4, <1>7 DEF WholeInv, DiskWhole, DbIsChain
<1>9. MemoryWhole'
  BY <1>1, <1>3, <1>4, <1>5 DEF MemoryWhole, DriverWrites, WorkerWrites, Writes
<1>10. TakesBackTip' /\ Safe'
  <2>1. \A c \in Chain[b] : Height[c] <= mem.safe => c \in db.blocks
    BY <1>1, <1>3, <1>5, <1>6 DEF Safe, SafeIsCommitted, MemType
  <2>2. mem.safe <= Height[b]
    BY <1>1, <1>3, <1>6 DEF MemType
  <2> QED
    BY <1>1, <1>4, <1>7, <2>1, <2>2 DEF TakesBackTip, Safe, SafeIsCommitted
<1> QED
  BY <1>1, <1>2, <1>4, <1>8, <1>9, <1>10 DEF WholeInv

\* The tip is taken back from a disk that holds its chain.
LEMMA WholeRemoves ==
    ASSUME SyncInv, WholeInv, WorkerRemoves
    PROVE  /\ WholeInv' /\ mem.best \in Blocks /\ mem'.best = Parent[mem.best]
           /\ db' = db /\ db.best = mem.best
<1> DEFINE b == work.block
           m == [mem EXCEPT !.best = Parent[b], !.last = Height[b] - 1, !.safe = Height[b] - 1,
                            !.put = @ \ {b}, !.del = @ \cup {b}]
<1>1. /\ proc = "up" /\ wpc = "removing" /\ b \in Blocks /\ wpc' = "flush"
      /\ BeginFlush("worker", m)
      /\ UNCHANGED <<proc, dpc, work, db>>
  BY DEF WorkerRemoves, SyncInv, WorkerHasBlock, driverVars
<1>2. /\ mem \in MemType /\ MemoryWhole /\ mem.best = b /\ mem.put = {} /\ db.best = b
      /\ mem.genesis = Genesis /\ ~DriverWrites /\ ~WorkerWrites
  BY <1>1 DEF SyncInv, TypeOK, MemType, WholeInv, TakesBackTip, Exclusive, WorkerWrites
<1>3. Parent[b] \in BlockOrNone /\ Chain[b] = Chain[Parent[b]] \cup {b} /\ b \notin Chain[Parent[b]]
  BY <1>1, ChainStep
<1>4. /\ m \in MemType /\ m.best = Parent[b] /\ m.genesis = mem.genesis
      /\ m.last = Height[b] - 1 /\ m.safe = m.last /\ m.put = {} /\ m.del = {b}
  <2>1. Height[b] - 1 \in Int
    BY <1>1
  <2>2. mem.del = {}
    BY <1>2 DEF MemoryWhole
  <2> QED
    BY <1>1, <1>2, <1>3, <2>1, <2>2 DEF MemType
<1> HIDE DEF m
<1>5. db.blocks = Chain[b]
  BY <1>2 DEF WholeInv, DiskWhole, DbIsChain
<1>6. Overlay(db.blocks, m) = Chain[m.best]
  BY <1>3, <1>4, <1>5 DEF Overlay
<1>7. \A c \in Chain[m.best] : c \in db.blocks
  BY <1>3, <1>4, <1>5
<1>8. \A w \in Writers : Writes(w)' <=> w = "worker"
  BY <1>1, <1>2 DEF Writers, Writes, DriverWrites, WorkerWrites
<1>9. m.safe <= m.last
  BY <1>4 DEF MemType
<1>10. m.best = NoBlock \/ mem.best # NoBlock
  BY <1>1, <1>2
<1>11. WholeInv'
  BY <1>1, <1>2, <1>4, <1>6, <1>7, <1>8, <1>9, <1>10, WholeBegins DEF Writers
<1>12. mem'.best = m.best
  BY <1>1, <1>4 DEF BeginFlush, MemType
<1> QED
  BY <1>1, <1>2, <1>4, <1>11, <1>12

\* The other actions of the worker leave the tip where it is.
OtherWorker == \/ WorkerShifts \/ WorkerQuits \/ WorkerSkips \/ WorkerStartsRemoval
               \/ WorkerAborts \/ WorkerSaved \/ WorkerFlushed

LEMMA WholeWorker ==
    ASSUME SyncInv, WholeInv, FedInOrder, OtherWorker
    PROVE  /\ WholeInv' /\ proc = "up" /\ mem'.best = mem.best
           /\ db' = db \/ db'.best = mem.best
           /\ proc' # "up" => db' = db
<1>0. SyncInv' /\ proc = "up" /\ mem \in MemType
  BY WorkerStep
     DEF OtherWorker, Worker, WorkerShifts, WorkerQuits, WorkerSkips, WorkerStartsRemoval,
         WorkerAborts, WorkerSaved, WorkerFlushed, SyncInv, TypeOK, MemType
<1> USE DEF driverVars, workVars
<1>1. CASE WorkerShifts
  <2>1. /\ wpc = "next" /\ wpc' = "lookup" /\ proc' = proc /\ queue # <<>>
        /\ queue \in Seq(EntryOf(Blocks)) /\ UNCHANGED <<dpc, inflight, db>>
        /\ mem.genesis # NoBlock \/ Height[Head(queue).block] = 0
        /\ mem' = IF mem.genesis = NoBlock THEN [mem EXCEPT !.genesis = Head(queue).block] ELSE mem
    BY <1>1 DEF WorkerShifts, SyncInv, TypeOK
  <2>2. Height[Head(queue).block] = 0 => Head(queue).block = Genesis
    <3>1. Head(queue) \in EntryOf(Blocks)
      BY <2>1
    <3>2. Head(queue).block \in Blocks
      BY <3>1 DEF EntryOf
    <3>3. \A b \in Blocks : b # Genesis => Parent[b] \in Blocks /\ Height[b] # 0
      OBVIOUS
    <3> QED
      BY <3>2, <3>3
  <2>3. mem'.genesis = Genesis
    BY <1>0, <2>1, <2>2 DEF WholeInv, DiskWhole, MemType
  <2>4. /\ mem'.best = mem.best /\ mem'.del = mem.del /\ mem'.put = mem.put
        /\ mem'.safe = mem.safe /\ mem'.last = mem.last
    BY <1>0, <2>1 DEF MemType
  <2>5. ~DriverWrites /\ ~DriverWrites' /\ ~WorkerWrites /\ ~WorkerWrites'
    BY <2>1 DEF SyncInv, Exclusive, DriverWrites, WorkerWrites
  <2>6. DiskWhole'
    BY <2>1, <2>3 DEF WholeInv, DiskWhole, DbIsChain
  <2>7. MemoryWhole' /\ TakesBackTip' /\ Safe'
    BY <1>0, <2>1, <2>3, <2>4, <2>5
       DEF WholeInv, MemoryWhole, TakesBackTip, Safe, SafeIsCommitted, Writes
  <2> QED
    BY <1>0, <2>1, <2>4, <2>6, <2>7 DEF WholeInv
<1>2. CASE WorkerQuits
  <2>1. wpc = "next" /\ wpc' = "idle" /\ UNCHANGED <<proc, db>>
    BY <1>2 DEF WorkerQuits
  <2>2. CASE dpc = "saveWait"
    <3>1. BeginFlush("driver", mem) /\ dpc' = "saving"
      BY <1>2, <2>2 DEF WorkerQuits
    <3>2. ~DriverWrites /\ ~WorkerWrites /\ \A w \in Writers : Writes(w)' <=> w = "driver"
      BY <2>1, <2>2, <3>1 DEF DriverWrites, WorkerWrites, Writes, Writers
    <3> QED
      BY <1>0, <2>1, <3>1, <3>2, WholeSaves DEF Writers
  <2>3. CASE dpc # "saveWait"
    <3>1. UNCHANGED indexVars /\ (DriverWrites' <=> DriverWrites)
      BY <1>2, <2>3 DEF WorkerQuits, DriverWrites, indexVars
    <3> QED
      BY <1>0, <2>1, <3>1, WholeFrame DEF indexVars
  <2> QED
    BY <2>2, <2>3
<1>3. CASE WorkerSkips \/ WorkerAborts
  <2>1. /\ (wpc' = wpc /\ work' = work) \/ (wpc = "lookup" /\ wpc' = "next")
        /\ proc' = proc \/ proc' # "up"
        /\ UNCHANGED indexVars /\ (DriverWrites' <=> DriverWrites)
    BY <1>3 DEF WorkerSkips, WorkerAborts, DriverWrites
  <2> QED
    BY <1>0, <2>1, WholeFrame DEF indexVars
<1>4. CASE WorkerStartsRemoval
  <2>1. /\ wpc = "lookup" /\ wpc' = "rmFlush" /\ BeginFlush("worker", mem)
        /\ UNCHANGED <<proc, dpc, work, db>>
    BY <1>4 DEF WorkerStartsRemoval
  <2>2. work.block = mem.best
    BY <1>4 DEF WorkerStartsRemoval, FedInOrder
  <2>3. ~DriverWrites /\ ~WorkerWrites /\ \A w \in Writers : Writes(w)' <=> w = "worker"
    BY <2>1 DEF SyncInv, Exclusive, DriverWrites, WorkerWrites, Writes, Writers
  <2>4. mem.genesis = Genesis
    BY <1>0, <2>1 DEF WholeInv, TakesBackTip
  <2> QED
    BY <1>0, <2>1, <2>2, <2>3, <2>4, WholeSaves DEF Writers
<1>5. CASE WorkerSaved
  <2>1. /\ wpc = "saving" /\ UNCHANGED <<proc, dpc, work, db>>
        /\ \/ wpc' = "flush" /\ BeginFlush("worker", mem)
           \/ wpc' = "next" /\ UNCHANGED <<mem, inflight>>
    BY <1>5 DEF WorkerSaved
  <2>2. CASE wpc' = "flush" /\ BeginFlush("worker", mem)
    <3>1. ~DriverWrites /\ ~WorkerWrites /\ \A w \in Writers : Writes(w)' <=> w = "worker"
      BY <2>1, <2>2 DEF SyncInv, Exclusive, DriverWrites, WorkerWrites, Writes, Writers
    <3>2. mem.genesis = Genesis
      BY <1>0, <2>1 DEF WholeInv, TakesBackTip
    <3> QED
      BY <1>0, <2>1, <2>2, <3>1, <3>2, WholeSaves DEF Writers
  <2>3. CASE wpc' = "next" /\ UNCHANGED <<mem, inflight>>
    BY <1>0, <2>1, <2>3, WholeFrame DEF indexVars, DriverWrites
  <2> QED
    BY <2>1, <2>2, <2>3
<1>6. CASE WorkerFlushed
  <2>1. /\ EndFlush("worker") /\ WorkerWrites /\ UNCHANGED <<proc, dpc, work>>
        /\ wpc' = IF wpc = "flush" THEN "next" ELSE "removing"
    BY <1>6 DEF WorkerFlushed
  <2>2. Writes("worker") /\ ~DriverWrites' /\ ~WorkerWrites'
        /\ (wpc' \in {"idle", "next"} \/ (wpc' = "removing" /\ wpc = "rmFlush"))
    BY <2>1 DEF SyncInv, Exclusive, Writes, DriverWrites, WorkerWrites
  <2> QED
    BY <1>0, <2>1, <2>2, WholeEnds DEF Writers
<1> QED
  BY <1>1, <1>2, <1>3, <1>4, <1>5, <1>6 DEF OtherWorker

\* A batch is on disk as a whole or not at all when the process ends.
LEMMA WholeCrash ==
    ASSUME SyncInv, WholeInv, Crash
    PROVE  WholeInv' /\ proc = "up" /\ proc' # "up" /\ (db' = db \/ db'.best = mem.best)
<1>1. proc = "up" /\ proc' = "killed" /\ mem' = mem /\ MemoryWhole
  BY DEF Crash, WholeInv
<1>2. CASE db' = db
  BY <1>1, <1>2 DEF WholeInv, DiskWhole, DbIsChain
<1>3. ASSUME NEW who \in Writers, Writes(who), db' = Written(db, inflight[who])
      PROVE  WholeInv' /\ db'.best = mem.best
  <2>1. db'.best = mem.best /\ db'.genesis = mem.genesis /\ db'.blocks = Chain[mem.best]
    BY <1>1, <1>3 DEF MemoryWhole, Written, Overlay
  <2> QED
    BY <1>1, <2>1 DEF WholeInv, DiskWhole, DbIsChain
<1>4. \/ db' = db
      \/ \E who \in Writers : Writes(who) /\ db' = Written(db, inflight[who])
  BY DEF Crash, Writers, Writes
<1> QED
  BY <1>1, <1>2, <1>3, <1>4

\* A restart reads a whole chain.
LEMMA WholeBoot ==
    ASSUME SyncInv, WholeInv, Boot
    PROVE  WholeInv' /\ proc # "up" /\ proc' = "up" /\ mem'.best = db.best /\ db' = db
<1>1. /\ proc # "up" /\ proc' = "up" /\ dpc' = "loop" /\ wpc' = "idle"
      /\ mem' = MemoryOf(db) /\ db' = db
  BY DEF Boot
<1>2. /\ mem'.best = db.best /\ mem'.genesis = db.genesis /\ mem'.last = db.last
      /\ mem'.safe = db.last /\ mem'.put = {} /\ mem'.del = {}
  BY <1>1 DEF MemoryOf
<1>3. db.last \in Int /\ db.genesis \in BlockOrNone
  BY DEF SyncInv, TypeOK
<1>4. DbIsChain
  BY DEF WholeInv, DiskWhole
<1>5. db.genesis \in {NoBlock, Genesis}
  BY DEF WholeInv, DiskWhole
<1>6. DiskWhole'
  BY <1>1, <1>2, <1>4, <1>5 DEF DiskWhole, DbIsChain
<1>7. MemoryWhole' /\ TakesBackTip' /\ Safe'
  BY <1>1, <1>2, <1>3, <1>4
     DEF MemoryWhole, TakesBackTip, Safe, SafeIsCommitted, DbIsChain, DriverWrites, WorkerWrites,
         Writes
<1> QED
  BY <1>1, <1>2, <1>6, <1>7 DEF WholeInv

\* The database is empty at first.
LEMMA WholeInit == Init => WholeInv
BY ChainEmpty DEF Init, WholeInv, DiskWhole, DbIsChain, MemoryOf, EmptyDb

\* Every step keeps the invariant while the worker is fed in order.
LEMMA WholeNext == SyncInv /\ WholeInv /\ FedInOrder /\ [Next]_vars => WholeInv'
<1> SUFFICES ASSUME SyncInv, WholeInv, FedInOrder, [Next]_vars PROVE WholeInv'
  OBVIOUS
<1>1. CASE UNCHANGED vars
  <2>1. UNCHANGED <<proc, wpc, work, indexVars>> /\ (DriverWrites' <=> DriverWrites)
    BY <1>1 DEF vars, DriverWrites, indexVars
  <2> QED
    BY <2>1, WholeFrame
<1> QED
  BY <1>1, WholeOutside, WholeDriver, WholeAdds, WholeRemoves, WholeWorker, WholeCrash, WholeBoot
     DEF Next, Worker, OtherWorker

------------------------------------------------------------------------------
(* The theorems *)

\* The inductive invariant holds as long as the worker is fed in order.
THEOREM WholeHolds == Spec /\ []FedInOrder => []WholeInv
BY WholeInit, WholeNext, InvariantHolds, PTL DEF Spec

\* While a batch is being written nothing waits, and there is no second batch.
LEMMA NothingIsLost == SyncInv /\ WholeInv => NothingLost
<1> SUFFICES ASSUME SyncInv, WholeInv, proc = "up" PROVE Indexed = Chain[mem.best]
  BY DEF NothingLost
<1>1. MemoryWhole
  BY DEF WholeInv
<1>2. \A S : Overlay(S, Nothing) = S
  BY DEF Overlay, Nothing
<1>3. mem.put = {} => \A S : Overlay(S, mem) = S
  BY <1>1 DEF Overlay, MemoryWhole
<1>4. CASE ~DriverWrites /\ ~WorkerWrites
  <2>1. Indexed = Overlay(db.blocks, mem)
    BY <1>2, <1>4 DEF Indexed, SyncInv, Exclusive
  <2> QED
    BY <1>1, <1>4, <2>1 DEF Overlay, MemoryWhole
<1>5. CASE DriverWrites
  <2>1. mem.put = {} /\ inflight["worker"] = Nothing
    BY <1>5 DEF SyncInv, Exclusive, Quiet, DriverWrites, WorkerWrites
  <2>2. Indexed = Overlay(db.blocks, inflight["driver"])
    BY <1>2, <1>3, <2>1 DEF Indexed
  <2> QED
    BY <1>1, <1>5, <2>2 DEF MemoryWhole, Writers, Writes
<1>6. CASE WorkerWrites
  <2>1. mem.put = {} /\ inflight["driver"] = Nothing
    BY <1>6 DEF SyncInv, Exclusive, Quiet, DriverWrites, WorkerWrites
  <2>2. Indexed = Overlay(db.blocks, inflight["worker"])
    BY <1>2, <1>3, <2>1 DEF Indexed
  <2> QED
    BY <1>1, <1>6, <2>2 DEF MemoryWhole, Writers, Writes
<1> QED
  BY <1>4, <1>5, <1>6

\* No block operation is lost or left over, through flushes, crashes and reorgs, as
\* long as the worker is fed in order (Indexer.js:300-311, 331-333, 359-374).
THEOREM NothingIsEverLost == Spec /\ []FedInOrder => []NothingLost
BY WholeHolds, InvariantHolds, NothingIsLost, PTL

\* The blocks up to safeLastBlockSymbol are on disk, also while later blocks are
\* indexed and while a block is taken back (Indexer.js:308, 378-379).
THEOREM SafeStaysCommitted == Spec /\ []FedInOrder => []SafeIsCommitted
<1>1. WholeInv => SafeIsCommitted
  BY DEF WholeInv, Safe, SafeIsCommitted
<1> QED
  BY <1>1, WholeHolds, PTL

\* A restart finds one whole chain, whenever the process ended (Indexer.js:331-374,
\* 1224-1302).
THEOREM DiskStaysAChain == Spec /\ []FedInOrder => []DbIsChain
<1>1. WholeInv => DbIsChain
  BY DEF WholeInv, DiskWhole
<1> QED
  BY <1>1, WholeHolds, PTL

\* A step of the pipeline is a step of the abstract index or leaves it alone.
LEMMA IndexStep ==
    SyncInv /\ WholeInv /\ FedInOrder /\ [Next]_vars
        => [Index!Next]_<<IF proc = "up" THEN mem.best ELSE db.best, db.best>>
<1> DEFINE working == IF proc = "up" THEN mem.best ELSE db.best
<1> SUFFICES ASSUME SyncInv, WholeInv, FedInOrder, [Next]_vars
             PROVE  Index!Next \/ UNCHANGED <<working, db.best>>
  OBVIOUS
<1> USE DEF Index!Next
<1>1. CASE UNCHANGED vars
  BY <1>1 DEF vars
<1>2. CASE Node \/ Clients \/ Syncer \/ SyncFails
  BY <1>2, WholeOutside
<1>3. CASE Driver
  BY <1>3, WholeDriver DEF Index!Commit
<1>4. CASE WorkerAdds
  <2>1. proc = "up" /\ proc' = "up"
    BY <1>4 DEF WorkerAdds
  <2> QED
    BY <1>4, <2>1, WholeAdds DEF Index!Extend
<1>5. CASE WorkerRemoves
  <2>1. proc = "up" /\ proc' = "up"
    BY <1>5 DEF WorkerRemoves
  <2> QED
    BY <1>5, <2>1, WholeRemoves DEF Index!Retract
<1>6. CASE OtherWorker
  BY <1>6, WholeWorker DEF Index!Commit, Index!Restart
<1>7. CASE Crash
  BY <1>7, WholeCrash DEF Index!Commit, Index!Restart
<1>8. CASE Boot
  BY <1>8, WholeBoot
<1> QED
  BY <1>1, <1>2, <1>3, <1>4, <1>5, <1>6, <1>7, <1>8 DEF Next, Worker, OtherWorker

\* The pipeline implements ChainIndex as long as the worker is fed in order: the
\* index grows and shrinks one block at a time, nothing is taken back that is not on
\* disk, and the disk moves from one state memory has been in to another
\* (Indexer.js:269-381).
THEOREM IndexIsImplemented == Spec /\ []FedInOrder => ImplementsIndex
<1>1. Init => Index!Init
  BY DEF Init, Index!Init, EmptyDb
<1> QED
  BY <1>1, IndexStep, WholeHolds, InvariantHolds, PTL DEF Spec, ImplementsIndex, Index!Spec
==============================================================================
