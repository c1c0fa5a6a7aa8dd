---------------------------- MODULE AddressSymbols ----------------------------
(***************************************************************************)
(* How addresses get their symbols: getAddressSymbolByAddress of           *)
(* Indexer.js, await by await, called by the worker for the outputs of a   *)
(* block, by processBatchedUtxoLists while a flush gathers, and by the     *)
(* balance and coin queries of clients, all at once. In UtxoIndexer the    *)
(* look-ups of worker and flush are one step each, and a client's of an    *)
(* unknown address is two. Inputs and removals are left out: a removal     *)
(* names the addresses of its outputs in the same way.                     *)
(***************************************************************************)
EXTENDS Integers, Sequences

CONSTANTS
    Addresses,  \* the address strings
    Payees,     \* what transactions can look like: sequences of the addresses they pay
    Clients,    \* the client requests that can be in flight at once
    Worker,     \* the worker's own look-up
    Payments,   \* bound: how many transactions the worker indexes
    Queries,    \* bound: how many look-ups clients start
    Crashes     \* bound: how often the process may be killed

ASSUME AddressSymbolsAssumption ==
    /\ Payees \subseteq Seq(Addresses) \ {<<>>}
    /\ Worker \notin Clients
    /\ {Payments, Queries, Crashes} \subseteq Nat

Callers == Clients \cup {Worker}

VARIABLES
    last,       \* lastAddressSymbol
    seen,       \* lastSeenAddresses: symbol by address, None without an entry
    ops,        \* the waiting operations of address-sym, by address, None without one
    calls,      \* the look-ups in progress, by caller
    worker,     \* what the worker is at: [at, payees, named, lists]
    waiting,    \* the outputs waiting to be written: [out, to, symbol]
    added,      \* lastAddressUtxos: the outputs added by address
    batch,      \* the operations a flush has gathered
    disk,       \* address-sym, latestAddressSymbol, the utxo records and address-utxos
    early,      \* ghost: addresses a client asked for before the indexer knew them
    budget      \* what is left of the bounds

vars == <<last, seen, ops, calls, worker, waiting, added, batch, disk, early, budget>>

None == 0           \* symbols start at 1

NoSymbols == [a \in Addresses |-> None]

NoCall == [stage |-> "none", address |-> None, symbol |-> None]

NothingAdded == [a \in Addresses |-> {}]

Resting == [at |-> "idle", payees |-> <<>>, named |-> <<>>, lists |-> {}]

\* utxos: a set of [out, to, symbol], of which the record on disk has the symbol; lists: a
\* set of [symbol, address, outs], one for each symbol that has a list.
EmptyTables == [address |-> NoSymbols, last |-> 0, utxos |-> {}, lists |-> {}]

------------------------------------------------------------------------------
(* getAddressSymbolByAddress: the cache, the database, a new symbol *)

\* Up to the first await. stage: "known" when there is a symbol; "reading" while address-sym
\* is read; "read" when the value read, None if there is none, is to be looked at.
Call(a) == IF seen[a] # None THEN [stage |-> "known", address |-> a, symbol |-> seen[a]]
           ELSE [stage |-> "reading", address |-> a, symbol |-> None]

ReadSymbol(c) ==
    /\ calls[c].stage = "reading"
    /\ calls' = [calls EXCEPT ![c].stage = "read", ![c].symbol = disk.address[calls[c].address]]
    /\ UNCHANGED <<last, seen, ops, worker, waiting, added, batch, disk, early, budget>>

FindSymbol(c) ==
    /\ calls[c].stage = "read"
    /\ calls[c].symbol # None
    /\ calls' = [calls EXCEPT ![c].stage = "known"]
    /\ UNCHANGED <<last, seen, ops, worker, waiting, added, batch, disk, early, budget>>

\* Nothing is looked at again: another caller may have named the address meanwhile.
NewSymbol(c) ==
    /\ calls[c].stage = "read"
    /\ calls[c].symbol = None
    /\ LET a == calls[c].address
       IN  /\ last' = last + 1
           /\ seen' = [seen EXCEPT ![a] = last + 1]
           /\ ops' = [ops EXCEPT ![a] = last + 1]
           /\ calls' = [calls EXCEPT ![c].stage = "known", ![c].symbol = last + 1]
    /\ UNCHANGED <<worker, waiting, added, batch, disk, early, budget>>

------------------------------------------------------------------------------
(* Clients *)

\* getAccountBalance or getAccountUtxos of an address.
ClientAsks(c) ==
    /\ calls[c] = NoCall
    /\ budget.queries > 0
    /\ budget' = [budget EXCEPT !.queries = @ - 1]
    /\ \E a \in Addresses :
          /\ calls' = [calls EXCEPT ![c] = Call(a)]
          /\ early' = IF seen[a] = None /\ disk.address[a] = None THEN early \cup {a} ELSE early
    /\ UNCHANGED <<last, seen, ops, worker, waiting, added, batch, disk>>

\* It has its symbol, and goes on to read the list.
ClientServed(c) ==
    /\ calls[c].stage = "known"
    /\ calls' = [calls EXCEPT ![c] = NoCall]
    /\ UNCHANGED <<last, seen, ops, worker, waiting, added, batch, disk, early, budget>>

------------------------------------------------------------------------------
(* The worker: the outputs of a transaction *)

\* batchTransactionOutputs: the address of the first output is looked up.
WorkerTakes ==
    /\ worker = Resting
    /\ budget.payments > 0
    /\ budget' = [budget EXCEPT !.payments = @ - 1]
    /\ \E payees \in Payees :
          /\ worker' = [Resting EXCEPT !.at = "naming", !.payees = payees]
          /\ calls' = [calls EXCEPT ![Worker] = Call(Head(payees))]
    /\ UNCHANGED <<last, seen, ops, waiting, added, batch, disk, early>>

OutOf(i) == <<budget.payments, i>>

WorkerKnows == worker.at = "naming" /\ calls[Worker].stage = "known"

\* One more output has its symbol; the next is looked up.
WorkerNames ==
    /\ WorkerKnows
    /\ Len(worker.named) + 1 < Len(worker.payees)
    /\ worker' = [worker EXCEPT !.named = Append(@, calls[Worker].symbol)]
    /\ calls' = [calls EXCEPT ![Worker] = Call(worker.payees[Len(worker.named) + 2])]
    /\ UNCHANGED <<last, seen, ops, waiting, added, batch, disk, early, budget>>

\* All outputs have their symbols: the records and the additions to the lists.
WorkerRecords ==
    /\ WorkerKnows
    /\ Len(worker.named) + 1 = Len(worker.payees)
    /\ LET symbols == Append(worker.named, calls[Worker].symbol)
           paid(a) == {i \in DOMAIN worker.payees : worker.payees[i] = a}
       IN  /\ waiting' = waiting \cup {[out |-> OutOf(i), to |-> worker.payees[i],
                                        symbol |-> symbols[i]] : i \in DOMAIN worker.payees}
           /\ added' = [a \in Addresses |-> added[a] \cup {OutOf(i) : i \in paid(a)}]
    /\ worker' = Resting
    /\ calls' = [calls EXCEPT ![Worker] = NoCall]
    /\ UNCHANGED <<last, seen, ops, batch, disk, early, budget>>

------------------------------------------------------------------------------
(* The worker: a flush *)

\* Mutant of FlushBegins: the counter is not part of the batch.
FlushBeginsUncounted ==
    /\ worker = Resting
    /\ batch' = [address |-> ops, last |-> disk.last, utxos |-> waiting, lists |-> {}]
    /\ ops' = NoSymbols
    /\ waiting' = {}
    /\ worker' = [Resting EXCEPT !.at = "gathering",
                                 !.lists = {a \in Addresses : added[a] # {}}]
    /\ UNCHANGED <<last, seen, calls, added, disk, early, budget>>

\* Mutant of FlushBegins: the caches are dropped when their operations are gathered.
FlushBeginsForgetting ==
    /\ worker = Resting
    /\ batch' = [address |-> ops, last |-> last, utxos |-> waiting, lists |-> {}]
    /\ ops' = NoSymbols
    /\ seen' = NoSymbols
    /\ waiting' = {}
    /\ worker' = [Resting EXCEPT !.at = "gathering",
                                 !.lists = {a \in Addresses : added[a] # {}}]
    /\ UNCHANGED <<last, calls, added, disk, early, budget>>

\* processBatches: all but the lists is gathered at once, the counter included.
FlushBegins ==
    /\ worker = Resting
    /\ batch' = [address |-> ops, last |-> last, utxos |-> waiting, lists |-> {}]
    /\ ops' = NoSymbols
    /\ waiting' = {}
    /\ worker' = [Resting EXCEPT !.at = "gathering",
                                 !.lists = {a \in Addresses : added[a] # {}}]
    /\ UNCHANGED <<last, seen, calls, added, disk, early, budget>>

\* processBatchedUtxoLists: an address that outputs were added for is looked up.
ListBegins ==
    /\ worker.at = "gathering"
    /\ calls[Worker] = NoCall
    /\ \E a \in worker.lists :
          /\ worker' = [worker EXCEPT !.lists = @ \ {a}]
          /\ calls' = [calls EXCEPT ![Worker] = Call(a)]
    /\ UNCHANGED <<last, seen, ops, waiting, added, batch, disk, early, budget>>

\* Mutant of ListGathered: the list on disk is replaced.
ListReplaced ==
    /\ worker.at = "gathering"
    /\ calls[Worker].stage = "known"
    /\ LET a == calls[Worker].address
           list == [symbol |-> calls[Worker].symbol, address |-> a, outs |-> added[a]]
       IN  batch' = [batch EXCEPT !.lists = @ \cup {list}]
    /\ calls' = [calls EXCEPT ![Worker] = NoCall]
    /\ UNCHANGED <<last, seen, ops, worker, waiting, added, disk, early, budget>>

\* The list on disk under the symbol found, with the outputs added.
ListGathered ==
    /\ worker.at = "gathering"
    /\ calls[Worker].stage = "known"
    /\ LET a      == calls[Worker].address
           symbol == calls[Worker].symbol
           before == UNION {l.outs : l \in {k \in disk.lists : k.symbol = symbol}}
           list   == [symbol |-> symbol, address |-> a, outs |-> before \cup added[a]]
       IN  batch' = [batch EXCEPT !.lists = @ \cup {list}]
    /\ calls' = [calls EXCEPT ![Worker] = NoCall]
    /\ UNCHANGED <<last, seen, ops, worker, waiting, added, disk, early, budget>>

WriteBegins ==
    /\ worker.at = "gathering" /\ worker.lists = {} /\ calls[Worker] = NoCall
    /\ worker' = [worker EXCEPT !.at = "writing"]
    /\ UNCHANGED <<last, seen, ops, calls, waiting, added, batch, disk, early, budget>>

\* The leveldb batch is on disk: everything at once.
WriteLands ==
    /\ worker.at = "writing"
    /\ LET rewritten == {l.symbol : l \in batch.lists}
       IN  disk' = [address |-> [a \in Addresses |-> IF batch.address[a] # None
                                                     THEN batch.address[a]
                                                     ELSE disk.address[a]],
                    last |-> batch.last,
                    utxos |-> disk.utxos \cup batch.utxos,
                    lists |-> {l \in disk.lists : l.symbol \notin rewritten} \cup batch.lists]
    /\ batch' = EmptyTables
    /\ worker' = [worker EXCEPT !.at = "written"]
    /\ UNCHANGED <<last, seen, ops, calls, waiting, added, early, budget>>

\* writeBatches after its await: the last-seen caches are dropped.
WriteEnds ==
    /\ worker.at = "written"
    /\ seen' = NoSymbols
    /\ added' = NothingAdded
    /\ worker' = Resting
    /\ UNCHANGED <<last, ops, calls, waiting, batch, disk, early, budget>>

------------------------------------------------------------------------------

\* Mutant of Crash: address symbols start at 0 on an empty database, as those of blocks do.
CrashCountingFromMinusOne ==
    /\ budget.crashes > 0
    /\ budget' = [budget EXCEPT !.crashes = @ - 1]
    /\ last' = IF disk.last = 0 THEN -1 ELSE disk.last
    /\ seen' = NoSymbols
    /\ ops' = NoSymbols
    /\ calls' = [c \in Callers |-> NoCall]
    /\ worker' = Resting
    /\ waiting' = {}
    /\ added' = NothingAdded
    /\ batch' = EmptyTables
    /\ UNCHANGED <<disk, early>>

\* The process is killed and starts again: initAddressSymbol.
Crash ==
    /\ budget.crashes > 0
    /\ budget' = [budget EXCEPT !.crashes = @ - 1]
    /\ last' = disk.last
    /\ seen' = NoSymbols
    /\ ops' = NoSymbols
    /\ calls' = [c \in Callers |-> NoCall]
    /\ worker' = Resting
    /\ waiting' = {}
    /\ added' = NothingAdded
    /\ batch' = EmptyTables
    /\ UNCHANGED <<disk, early>>

Init ==
    /\ last = 0
    /\ seen = NoSymbols
    /\ ops = NoSymbols
    /\ calls = [c \in Callers |-> NoCall]
    /\ worker = Resting
    /\ waiting = {}
    /\ added = NothingAdded
    /\ batch = EmptyTables
    /\ disk = EmptyTables
    /\ early = {}
    /\ budget = [payments |-> Payments, queries |-> Queries, crashes |-> Crashes]

Next ==
    \/ \E c \in Callers : ReadSymbol(c) \/ FindSymbol(c) \/ NewSymbol(c)
    \/ \E c \in Clients : ClientAsks(c) \/ ClientServed(c)
    \/ WorkerTakes \/ WorkerNames \/ WorkerRecords
    \/ FlushBegins \/ ListBegins \/ ListGathered \/ WriteBegins \/ WriteLands \/ WriteEnds
    \/ Crash

Spec == Init /\ [][Next]_vars

------------------------------------------------------------------------------
(* Properties *)

Outs == Nat \X Nat      \* transaction and index

Records == [out : Outs, to : Addresses, symbol : Nat]

Tables == [address : [Addresses -> Nat], last : Nat, utxos : SUBSET Records,
           lists : SUBSET [symbol : Nat, address : Addresses, outs : SUBSET Outs]]

LookUps == {l \in [stage : {"none", "reading", "read", "known"},
                   address : Addresses \cup {None}, symbol : Nat] :
                l.stage # "none" => l.address \in Addresses}

\* Type invariant.
TypeOK ==
    /\ last \in Nat
    /\ seen \in [Addresses -> Nat]
    /\ ops \in [Addresses -> Nat]
    /\ calls \in [Callers -> LookUps]
    /\ worker \in [at : {"idle", "naming", "gathering", "writing", "written"},
                   payees : Seq(Addresses), named : Seq(Nat), lists : SUBSET Addresses]
    /\ waiting \subseteq Records
    /\ added \in [Addresses -> SUBSET Outs]
    /\ batch \in Tables
    /\ disk \in Tables
    /\ early \subseteq Addresses
    /\ budget \in [payments : Nat, queries : Nat, crashes : Nat]

\* No two addresses get one symbol, in memory, in a batch, on disk or between them, and none
\* has a symbol the counter, or after a restart the counter on disk, would give out again,
\* whoever looks up what at the same time (Indexer.js:883-899, 675-678, 1275-1283).
Distinct(table, other) ==
    \A a, b \in Addresses : table[a] # None /\ table[a] = other[b] => a = b

Below(table, counter) == \A a \in Addresses : table[a] <= counter

SymbolsDistinct ==
    /\ \A table, other \in {seen, ops, batch.address, disk.address} : Distinct(table, other)
    /\ \A table \in {seen, ops, batch.address, disk.address} : Below(table, last)
    /\ Below(disk.address, disk.last)

\* "If it did not exist, create a new one" (Indexer.js:885): the symbol of an address never
\* changes once it is on disk, unless a client asked for the address before the indexer knew
\* it; asking for known addresses, crashes and flushes do not change it.
SymbolKept ==
    [][\A a \in Addresses \ early' :
          disk.address[a] # None => disk'.address[a] = disk.address[a]]_vars

\* A recorded output is found from its address, and its address from it: the list under the
\* symbol of the address, which is the symbol in the record, names the address and holds exactly
\* the outputs that pay it. Clients that ask for addresses the indexer does not know
\* spoil that for those addresses, and with a crash for others too (Indexer.js:563-596, 1066-1086).
ListsComplete ==
    (early = {} \/ budget.crashes = Crashes) =>
        \A a \in Addresses \ early :
            LET paying == {u \in disk.utxos : u.to = a}
                lists  == {l \in disk.lists : l.symbol = disk.address[a]}
            IN  paying # {} =>
                    /\ \A u \in paying : u.symbol = disk.address[a]
                    /\ lists = {[symbol |-> disk.address[a], address |-> a,
                                 outs |-> {u.out : u \in paying}]}
==============================================================================
