----------------------------- MODULE BlockQueries -----------------------------
(***************************************************************************)
(* What clients of /block and /mempool/transaction are told of a           *)
(* transaction: BlockService.js decides by the safe height whether a block *)
(* may be answered, and txOperations of utils.js looks up the owner of     *)
(* each output that is spent with getUtxoData of Indexer.js, one await     *)
(* after the other, while the worker goes on. The transactions of a block  *)
(* are translated concurrently and only read: one of them is followed.     *)
(***************************************************************************)
EXTENDS UtxoIndexer

CONSTANT
    Pending     \* the transactions /mempool/transaction is asked for

ASSUME PendingAssumption == Pending \subseteq Txs

VARIABLES
    lookup,     \* the transaction a request translates, or its answer
    during      \* ghost: the blocks the database has been at during the request, in order

blockVars == <<best, pc, safe, mem, inflight, db, budget, lookup, during>>

------------------------------------------------------------------------------
(* txOperations *)

\* stage names the read that is awaited; next is the input at hand, symbol its tx symbol,
\* record its utxo record; operations are those of the inputs so far, then all.
NoRecord == [sats |-> 0, address |-> 0]

NoLookup == [stage |-> "none", tx |-> 0, block |-> NoBlock, next |-> 1, symbol |-> NoSymbol,
             record |-> NoRecord, operations |-> <<>>]

Done == lookup.stage \in {"answered", "unlisted", "refused"}

Operation(type, address, sats) == [type |-> type, account |-> address, sats |-> sats]

OutputOperations(t) ==
    [n \in DOMAIN Outs[t] |-> Operation("OUTPUT", Outs[t][n].address, Outs[t][n].sats)]

\* Mutant of WithOutputs: outputs without exactly one address are listed too.
WithAllOutputs(l) ==
    [l EXCEPT !.stage = "answered", !.operations = @ \o OutputOperations(l.tx)]

\* The outputs come after all inputs; one without exactly one address ends the translation
\* with no operations at all.
WithOutputs(l) ==
    IF \E n \in DOMAIN Outs[l.tx] : Outs[l.tx][n].address = NoAddress
    THEN [l EXCEPT !.stage = "unlisted", !.operations = <<>>]
    ELSE [l EXCEPT !.stage = "answered", !.operations = @ \o OutputOperations(l.tx)]

\* getUtxoData with the record of the output, up to its next read.
OwnerOf(l, record) ==
    [l EXCEPT !.stage = "owner", !.record = [sats |-> record.sats, address |-> record.address]]

\* The input at hand, up to its first read: a last-seen output needs no read of its record,
\* a last-seen transaction none of its symbol.
AtInput(l) ==
    IF l.next > Len(Ins[l.tx]) THEN WithOutputs(l)
    ELSE LET ref == Ins[l.tx][l.next]
         IN  CASE ref \in DOMAIN mem.seenUtxo -> OwnerOf(l, mem.seenUtxo[ref].value)
               [] ref \notin DOMAIN mem.seenUtxo /\ ref[1] \in DOMAIN mem.seenTx ->
                     [l EXCEPT !.stage = "record", !.symbol = mem.seenTx[ref[1]]]
               [] OTHER -> [l EXCEPT !.stage = "txSymbol"]

\* The next input; one whose owner was not found is skipped in silence.
Onward(l) ==
    AtInput([l EXCEPT !.next = @ + 1, !.symbol = NoSymbol, !.record = NoRecord])

Asked(t, b) == AtInput([NoLookup EXCEPT !.tx = t, !.block = b])

------------------------------------------------------------------------------
(* Actions of a request *)

LookingUp(stage) == pc # "aborted" /\ lookup.stage = stage

\* requestedDataAvailable
Available(b) == safe >= Height[b]

\* A /block request of a client: the operations of a transaction of the block, or
\* NODE_SYNCING.
AskBlock ==
    /\ LookingUp("none")
    /\ \E b \in Blocks : \E t \in ToSet(TxsOf[b]) :
          lookup' = IF Available(b) THEN Asked(t, b)
                    ELSE [NoLookup EXCEPT !.stage = "refused", !.block = b]
    /\ during' = <<db.best>>
    /\ UNCHANGED vars

\* mempoolTransaction: the node has returned the transaction, mined or not.
AskMempool ==
    /\ LookingUp("none")
    /\ \E t \in Pending : lookup' = Asked(t, NoBlock)
    /\ during' = <<db.best>>
    /\ UNCHANGED vars

\* getTxSymbol: tx-sym.
ReadTxSymbol ==
    /\ LookingUp("txSymbol")
    /\ LET t == Ins[lookup.tx][lookup.next][1]
       IN  lookup' = IF t \notin DOMAIN db.tx THEN Onward(lookup)
                     ELSE [lookup EXCEPT !.stage = "record", !.symbol = db.tx[t]]
    /\ UNCHANGED <<vars, during>>

\* utxoExistsBySymbol.
ReadUtxo ==
    /\ LookingUp("record")
    /\ LET key == <<lookup.symbol, Ins[lookup.tx][lookup.next][2]>>
       IN  lookup' = IF key \notin DOMAIN db.utxo THEN Onward(lookup)
                     ELSE OwnerOf(lookup, db.utxo[key])
    /\ UNCHANGED <<vars, during>>

\* Mutant of ReadOwner: a spent output is listed as a gain of its owner.
ReadOwnerUnsigned ==
    /\ LookingUp("owner")
    /\ LET symbol == lookup.record.address
           owner  == ListOf(db, symbol).address
       IN  lookup' = IF symbol \notin 1 .. mem.lastAddress \/ owner = NoAddress
                     THEN Onward(lookup)
                     ELSE Onward([lookup EXCEPT !.operations =
                                     Append(@, Operation("INPUT", owner, lookup.record.sats))])
    /\ UNCHANGED <<vars, during>>

\* getAddressBySymbol: the address that address-utxos has under a symbol the counter has
\* reached.
ReadOwner ==
    /\ LookingUp("owner")
    /\ LET symbol == lookup.record.address
           owner  == ListOf(db, symbol).address
       IN  lookup' = IF symbol \notin 1 .. mem.lastAddress \/ owner = NoAddress
                     THEN Onward(lookup)
                     ELSE Onward([lookup EXCEPT !.operations =
                                     Append(@, Operation("INPUT", owner, -lookup.record.sats))])
    /\ UNCHANGED <<vars, during>>

\* The answer leaves at once.
Answer ==
    /\ Done
    /\ lookup' = NoLookup
    /\ during' = <<>>
    /\ UNCHANGED vars

Lookup == AskBlock \/ AskMempool \/ ReadTxSymbol \/ ReadUtxo \/ ReadOwner \/ Answer

\* A step of the indexer; the end of the process is the end of the request.
IndexerSteps ==
    /\ ~Done
    /\ \/ /\ AddBlock \/ Flush \/ StartRemoval \/ FlushEnds \/ RemoveBest \/ Query
          /\ UNCHANGED lookup
       \/ Restart /\ lookup' = NoLookup
    /\ during' = CASE lookup'.stage = "none" -> <<>>
                   [] lookup'.stage # "none" /\ db'.best = Last(during) -> during
                   [] OTHER -> Append(during, db'.best)

BlockInit == Init /\ lookup = NoLookup /\ during = <<>>

BlockNext == Lookup \/ IndexerSteps

BlockSpec == BlockInit /\ [][BlockNext]_blockVars

------------------------------------------------------------------------------
(* Properties *)

\* Type invariant of a request.
LookupTypeOK ==
    /\ lookup.stage \in {"none", "txSymbol", "record", "owner", "answered", "unlisted", "refused"}
    /\ lookup.block \in BlockOrNone
    /\ lookup.stage \notin {"none", "refused"} =>
          lookup.tx \in Txs /\ lookup.next \in 1 .. Len(Ins[lookup.tx]) + 1
    /\ lookup.symbol \in Nat \cup {NoSymbol}
    /\ lookup.record \in [sats : Nat, address : Nat]
    /\ \A i \in DOMAIN lookup.operations :
          lookup.operations[i] \in [type : {"INPUT", "OUTPUT"}, account : Addresses, sats : Int]
    /\ during \in Seq(BlockOrNone)

Spends(t) == ToSet(Ins[t])

Paid(ref) == Outs[ref[1]][ref[2]]

\* The operations of the inputs of t at some positions, in order.
InputOperationsAt(t, positions) ==
    LET InputOperation(i) == Operation("INPUT", Paid(Ins[t][i]).address, -Paid(Ins[t][i]).sats)
        upTo[n \in 0 .. Len(Ins[t])] ==
            IF n = 0 THEN <<>>
            ELSE IF n \notin positions THEN upTo[n - 1]
            ELSE Append(upTo[n - 1], InputOperation(n))
    IN  upTo[Len(Ins[t])]

\* The outputs a transaction spends are indexed during the whole request.
InputsStay == \A b \in Range(during), ref \in Spends(lookup.tx) : ref[1] \in Mined(b)

\* No block was removed from the database during the request.
OnlyGrew == \A i \in 1 .. Len(during) - 1 : during[i] \in Chain[during[i + 1]]

\* "Process transaction operations if the requested data was already indexed"
\* (BlockService.js:115-116): if what a transaction spends stays indexed and was paid to one
\* address each, the operations are the inputs with their owners and amounts and then the
\* outputs, whether it is asked for in a block of any branch or in the mempool, and whatever
\* is added, flushed or removed between the look-ups, unless a client has asked for an address
\* before the indexer knew it (utils.js:45-95, Indexer.js:1206-1235).
OperationsExact ==
    NoEarly /\ lookup.stage = "answered" /\ InputsStay
        /\ (\A ref \in Spends(lookup.tx) : Paid(ref).address # NoAddress)
        => lookup.operations = InputOperationsAt(lookup.tx, DOMAIN Ins[lookup.tx])
                                   \o OutputOperations(lookup.tx)

\* No operation is made up: as long as no block is removed, also a transaction whose inputs
\* are not indexed, or not yet, is answered with operations it has; only inputs can be
\* missing (utils.js:50-54). A client that asks for an address too early can spoil that: with
\* a restart in between, a list may be left under a symbol that another address is given
\* (Indexer.js:569).
OperationsSound ==
    NoEarly /\ lookup.stage = "answered" /\ OnlyGrew =>
        \E found \in SUBSET DOMAIN Ins[lookup.tx] :
            lookup.operations = InputOperationsAt(lookup.tx, found) \o OutputOperations(lookup.tx)

\* NODE_SYNCING is only answered for a block that memory or the database does not have: the
\* safe height follows every flush, removal and restart (Indexer.js:308, 379, 1263,
\* BlockService.js:89-132).
IndexedNotRefused ==
    lookup.stage = "refused" => lookup.block \notin Chain[best] \cap Chain[db.best]
==============================================================================
