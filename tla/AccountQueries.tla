---------------------------- MODULE AccountQueries ----------------------------
(***************************************************************************)
(* The endpoints /account/balance and /account/coins over the tables of    *)
(* UtxoIndexer: AccountService.js with getAccountBalance, getAccountUtxos  *)
(* and getTxHash of Indexer.js. A request reads the database once per      *)
(* await, and between two reads the worker may add blocks, flush and       *)
(* remove blocks. One request is followed: apart from the symbol that one  *)
(* for an unknown address allocates, which Query stands for, a request     *)
(* changes nothing that another one reads.                                 *)
(***************************************************************************)
EXTENDS UtxoIndexer

CONSTANT
    Questions   \* what clients ask: [kind, address, by, block]; by "latest" names no block

ASSUME QuestionsAssumption ==
    /\ Questions \subseteq [kind : {"balance", "coins"}, address : Addresses,
                            by : {"latest", "height", "hash"}, block : BlockOrNone]
    /\ \A q \in Questions : /\ q.by = "latest" <=> q.block = NoBlock
                            /\ q.kind = "coins" => q.by = "latest"

VARIABLES
    request,    \* the request in flight, or its answer
    during      \* ghost: the blocks the database has been at during the request, in order

accountVars == <<best, pc, safe, mem, inflight, db, budget, request, during>>

------------------------------------------------------------------------------
(* Requests *)

\* stage names the read a request waits for; height and hash are blockSymbol and
\* blockHash; call numbers its look-up of an unknown address; outs is the list it walks,
\* next the position in it.
NoRequest == [stage |-> "none", kind |-> "balance", address |-> NoAddress, by |-> "latest",
              block |-> NoBlock, height |-> NoSymbol, hash |-> NoBlock, symbol |-> NoSymbol,
              call |-> 0, outs |-> <<>>, next |-> 1, balance |-> 0, unspent |-> <<>>, coins |-> {}]

Asked(question, stage) ==
    [NoRequest EXCEPT !.kind = question.kind, !.address = question.address, !.by = question.by,
                      !.block = question.block, !.stage = stage]

Failed(r) == [r EXCEPT !.stage = "failed"]

Done == request.stage \in {"answered", "failed"}

\* The coins found are labelled with the tip in memory, and their transactions are looked
\* up next. Without a tip the node is asked for the hash of block -1.
Labelled(r) ==
    IF best = NoBlock THEN Failed(r)
    ELSE [r EXCEPT !.height = HeightOf(best), !.hash = best,
                   !.stage = IF r.unspent = <<>> THEN "answered" ELSE "txHash"]

\* Mutant of LoopedOver: the last entry of the list is not read.
LoopedOverTooFew(r) ==
    IF r.next < Len(r.outs) THEN r
    ELSE IF r.kind = "coins" THEN Labelled(r) ELSE [r EXCEPT !.stage = "answered"]

\* Where the loop over the list ends.
LoopedOver(r) ==
    IF r.next <= Len(r.outs) THEN r
    ELSE IF r.kind = "coins" THEN Labelled(r) ELSE [r EXCEPT !.stage = "answered"]

\* An error in the loop: the balance is lost, the coins found so far are kept.
LoopThrows(r) == IF r.kind = "coins" THEN Labelled(r) ELSE Failed(r)

------------------------------------------------------------------------------
(* Actions of a request: what runs between two of its awaits *)

Requesting(stage) == pc # "aborted" /\ request.stage = stage

\* balance: the checks of getAccountBalance before its first read.
AskBalance ==
    /\ Requesting("none")
    /\ \E q \in {question \in Questions : question.kind = "balance"} :
          request' =
            CASE q.by = "height" /\ Height[q.block] > HeightOf(best) -> Asked(q, "failed")
              [] q.by = "height" /\ Height[q.block] <= HeightOf(best) ->
                    [Asked(q, "blockHash") EXCEPT !.height = Height[q.block]]
              [] q.by = "hash" /\ q.block \in DOMAIN mem.seenBlock ->
                    [Asked(q, "symbol") EXCEPT !.height = mem.seenBlock[q.block],
                                               !.hash = q.block]
              [] q.by = "hash" /\ q.block \notin DOMAIN mem.seenBlock ->
                    [Asked(q, "blockSymbol") EXCEPT !.hash = q.block]
              [] q.by = "latest" ->
                    [Asked(q, "symbol") EXCEPT !.height = HeightOf(best), !.hash = best]
    /\ during' = <<db.best>>
    /\ UNCHANGED vars

AskCoins ==
    /\ Requesting("none")
    /\ \E q \in {question \in Questions : question.kind = "coins"} :
          request' = Asked(q, "symbol")
    /\ during' = <<db.best>>
    /\ UNCHANGED vars

\* getBlockHash: sym-block.
ReadBlockHash ==
    /\ Requesting("blockHash")
    /\ request' = IF request.height \notin DOMAIN db.at THEN Failed(request)
                  ELSE [request EXCEPT !.hash = db.at[request.height], !.stage = "symbol"]
    /\ UNCHANGED <<vars, during>>

\* getBlockSymbol: block-sym.
ReadBlockSymbol ==
    /\ Requesting("blockSymbol")
    /\ request' = IF request.hash \notin DOMAIN db.block THEN Failed(request)
                  ELSE [request EXCEPT !.height = db.block[request.hash], !.stage = "symbol"]
    /\ UNCHANGED <<vars, during>>

\* getAddressSymbolByAddress of an address that the cache or address-sym has.
LookUpAddress ==
    /\ Requesting("symbol")
    /\ HasSymbol(mem, db, request.address)
    /\ request' = [request EXCEPT !.symbol = AddressSymbol(mem, db, request.address),
                                  !.stage = "list"]
    /\ UNCHANGED <<vars, during>>

\* Of one that neither has: the cache is looked at, the read of address-sym comes back
\* empty, and the address gets a symbol, whatever has happened in between.
AskForSymbol ==
    /\ Requesting("symbol")
    /\ AskEarly(request.address)
    /\ request' = [request EXCEPT !.call = budget.queries, !.stage = "naming"]
    /\ UNCHANGED during

Call(r) == <<r.call, r.address>>

NameAddress ==
    /\ Requesting("naming")
    /\ NameEarly(Call(request))
    /\ request' = [request EXCEPT !.symbol = mem'.lastAddress, !.stage = "list"]
    /\ UNCHANGED during

\* address-utxos; an address without a list throws.
ReadList ==
    /\ Requesting("list")
    /\ request' = IF request.symbol \notin DOMAIN db.list THEN LoopThrows(request)
                  ELSE LoopedOver([request EXCEPT !.outs = ListOf(db, request.symbol).outs,
                                                  !.stage = "record"])
    /\ UNCHANGED <<vars, during>>

\* Mutant of WithRecord: coins are taken whether they are spent or not.
WithRecordSpentToo(r, record, out) ==
    IF r.kind = "coins" THEN [r EXCEPT !.unspent = Append(@, <<out[1], out[2], record.sats>>)]
    ELSE [r EXCEPT !.balance = @ + (IF Counts(record, r.height) THEN record.sats ELSE 0)]

\* Mutant of WithRecord: an output that does not count is subtracted.
WithRecordNet(r, record, out) ==
    IF r.kind = "coins"
    THEN [r EXCEPT !.unspent = IF record.spentOn # NoSymbol THEN @
                               ELSE Append(@, <<out[1], out[2], record.sats>>)]
    ELSE [r EXCEPT !.balance = IF Counts(record, r.height) THEN @ + record.sats
                               ELSE @ - record.sats]

\* What one record adds to the answer.
WithRecord(r, record, out) ==
    CASE r.kind = "coins" /\ record.spentOn = NoSymbol ->
            [r EXCEPT !.unspent = Append(@, <<out[1], out[2], record.sats>>)]
      [] r.kind = "balance" /\ Counts(record, r.height) -> [r EXCEPT !.balance = @ + record.sats]
      [] OTHER -> r

\* utxoExistsBySymbol of the next entry of the list.
ReadRecord ==
    /\ Requesting("record")
    /\ LET out == request.outs[request.next]
       IN  request' = IF out \notin DOMAIN db.utxo THEN LoopThrows(request)
                      ELSE LoopedOver([WithRecord(request, db.utxo[out], out)
                                          EXCEPT !.next = @ + 1])
    /\ UNCHANGED <<vars, during>>

\* getTxHash: sym-tx, from the last coin to the first.
ReadTxHash ==
    /\ Requesting("txHash")
    /\ LET coin == Last(request.unspent)
       IN  request' = IF coin[1] \notin DOMAIN db.txid THEN Failed(request)
                      ELSE [request EXCEPT
                               !.coins = @ \cup {<<db.txid[coin[1]], coin[2], coin[3]>>},
                               !.unspent = Front(@),
                               !.stage = IF Len(request.unspent) = 1 THEN "answered" ELSE @]
    /\ UNCHANGED <<vars, during>>

\* The answer leaves at once.
Answer ==
    /\ Done
    /\ request' = NoRequest
    /\ during' = <<>>
    /\ UNCHANGED vars

Request == AskBalance \/ AskCoins \/ ReadBlockHash \/ ReadBlockSymbol \/ LookUpAddress
           \/ AskForSymbol \/ NameAddress \/ ReadList \/ ReadRecord \/ ReadTxHash \/ Answer

\* The early look-ups of other requests.
QueryOfOthers ==
    \/ \E a \in Addresses : AskEarly(a)
    \/ \E call \in mem.asking : call # Call(request) /\ NameEarly(call)

\* A step of the indexer; the end of the process is the end of the request.
IndexerSteps ==
    /\ ~Done
    /\ \/ /\ AddBlock \/ Flush \/ StartRemoval \/ FlushEnds \/ RemoveBest \/ QueryOfOthers
          /\ UNCHANGED request
       \/ Restart /\ request' = NoRequest
    /\ during' = CASE request'.stage = "none" -> <<>>
                   [] request'.stage # "none" /\ db'.best = Last(during) -> during
                   [] OTHER -> Append(during, db'.best)

AccountInit == Init /\ request = NoRequest /\ during = <<>>

AccountNext == Request \/ IndexerSteps

AccountSpec == AccountInit /\ [][AccountNext]_accountVars

------------------------------------------------------------------------------
(* Properties *)

\* Type invariant of a request.
RequestTypeOK ==
    /\ request.stage \in {"none", "blockHash", "blockSymbol", "symbol", "naming", "list",
                          "record", "txHash", "answered", "failed"}
    /\ request.stage = "naming" => Call(request) \in mem.asking
    /\ request.height \in Nat \cup {NoSymbol}
    /\ request.hash \in BlockOrNone
    /\ request.next \in 1 .. Len(request.outs) + 1
    /\ request.balance \in Nat
    /\ request.coins \subseteq Txs \X Nat \X Nat
    /\ during \in Seq(BlockOrNone)

\* No block was removed from the database during the request.
OnlyGrew == \A i \in 1 .. Len(during) - 1 : during[i] \in Chain[during[i + 1]]

\* The request is for block b, by its hash or its height.
AsksFor(b) ==
    \/ request.by = "hash" /\ request.block = b
    \/ request.by = "height" /\ Height[request.block] = Height[b]

\* Block b is indexed during the whole request.
Stays(b) == b \in Chain[best] /\ \A t \in Range(during) : b \in Chain[t]

\* "It is also possible to perform a historical balance lookup" (AccountService.js:34): for a
\* block that stays indexed the answer names that block and has the balance the chain gives at
\* it, although each record may be read from another state of the tables, with flushes and
\* removals of later blocks in between; only a removal can make the lookup fail, as long as no
\* client has asked for an address before the indexer knew it (Indexer.js:1126-1204, 880-899).
HistoryAnswered ==
    NoEarly /\ Done /\ request.kind = "balance" =>
        \A b \in Blocks :
            AsksFor(b) /\ Stays(b) /\ Owned(b, request.address) # {} =>
                \/ /\ request.stage = "answered"
                   /\ request.height = Height[b]
                   /\ request.hash = b
                   /\ request.balance = Ledger(b, request.address)
                \/ request.stage = "failed" /\ ~OnlyGrew

Sats(refs) == MapThenSumSet(LAMBDA ref : Outs[ref[1]][ref[2]].sats, refs)

InAll(blocks, a) == {ref \in OutputRefs : \A b \in blocks : ref \in Unspent(b, a)}

InSome(blocks, a) == UNION {Unspent(b, a) : b \in blocks}

\* A latest balance counts each output once: all that no state of the database during the
\* request and not the named tip has spent or lacks, and none that they all have spent or
\* lack, as long as no block is removed meanwhile and no client has asked for an address
\* too early (Indexer.js:1157-1190).
LatestBetween ==
    /\ NoEarly
    /\ request.stage = "answered" /\ request.kind = "balance" /\ request.by = "latest"
    /\ OnlyGrew
    =>  LET blocks == Range(during) \cup {request.hash}
        IN  /\ Sats(InAll(blocks, request.address)) <= request.balance
            /\ request.balance <= Sats(InSome(blocks, request.address))

\* The coins are outputs of the address that some state of the database during the request had
\* unspent, each with its amount and the hash of its transaction, and none is missing that all
\* had, as long as no block is removed meanwhile and no client has asked for an address too
\* early (Indexer.js:1088-1124, AccountService.js:120-131).
CoinsBetween ==
    NoEarly /\ request.stage = "answered" /\ request.kind = "coins" /\ OnlyGrew =>
        /\ Coins(InAll(Range(during), request.address)) \subseteq request.coins
        /\ request.coins \subseteq Coins(InSome(Range(during), request.address))
==============================================================================
