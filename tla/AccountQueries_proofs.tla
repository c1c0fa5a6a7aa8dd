------------------------- MODULE AccountQueries_proofs -------------------------
(* Proofs about AccountQueries: whatever clients ask, and however their reads   *)
(* fall between the steps of the indexer, to the tables they are nothing but    *)
(* the Query steps of UtxoIndexer, and what they read is what they take it for; *)
(* and what is answered about a block that stays indexed is right for it.       *)
EXTENDS AccountQueries, UtxoLists_proofs

Early == {"blockHash", "blockSymbol", "symbol"}

\* A request that is yet to look its address up is for one of the addresses, and one whose
\* look-up found nothing is among those that go on.
RequestInv ==
    /\ DOMAIN request = DOMAIN NoRequest
    /\ request.stage \in Early => request.address \in Addresses
    /\ request.stage = "naming" => Call(request) \in mem.asking

LEMMA AskedType ==
    ASSUME NEW q \in Questions, NEW stage
    PROVE  /\ Asked(q, stage).address = q.address
           /\ DOMAIN Asked(q, stage) = DOMAIN NoRequest
           /\ q.address \in Addresses
  BY QuestionsAssumption DEF QuestionsAssumption, Asked, NoRequest

\* Where a loop ends, the request is past its look-up.
LEMMA LoopsAreLate ==
    ASSUME NEW r, DOMAIN r = DOMAIN NoRequest, r.stage \notin Early \cup {"naming"}
    PROVE  /\ DOMAIN LoopedOver(r) = DOMAIN NoRequest
           /\ LoopedOver(r).stage \notin Early \cup {"naming"}
           /\ DOMAIN LoopThrows(r) = DOMAIN NoRequest
           /\ LoopThrows(r).stage \notin Early \cup {"naming"}
  BY DEF LoopedOver, LoopThrows, Labelled, Failed, NoRequest, Early

LEMMA RequestInvInit == AccountInit => RequestInv
  BY DEF AccountInit, RequestInv, NoRequest, Early

\* How a request for a balance starts.
LEMMA BalanceAsked ==
    ASSUME FlushInv, AskBalance
    PROVE  \E q \in Questions :
              /\ q.kind = "balance"
              /\ q.by \in {"latest", "height", "hash"} /\ q.block \in BlockOrNone
              /\ q.by # "latest" => q.block # NoBlock
              /\ \/ /\ q.by = "height" /\ Height[q.block] > HeightOf(best)
                    /\ request' = Asked(q, "failed")
                 \/ /\ q.by = "height" /\ Height[q.block] <= HeightOf(best)
                    /\ request' = [Asked(q, "blockHash") EXCEPT !.height = Height[q.block]]
                 \/ /\ q.by = "hash" /\ q.block \in DOMAIN mem.seenBlock
                    /\ request' = [Asked(q, "symbol") EXCEPT !.height = mem.seenBlock[q.block],
                                                             !.hash = q.block]
                 \/ /\ q.by = "hash" /\ q.block \notin DOMAIN mem.seenBlock
                    /\ request' = [Asked(q, "blockSymbol") EXCEPT !.hash = q.block]
                 \/ /\ q.by = "latest"
                    /\ request' = [Asked(q, "symbol") EXCEPT !.height = HeightOf(best), !.hash = best]
<1>1. PICK q \in {question \in Questions : question.kind = "balance"} :
          request' =
            CASE q.by = "height" /\ Height[q.block] > HeightOf(best) -> Asked(q, "failed")
              [] q.by = "height" /\ Height[q.block] <= HeightOf(best) ->
                    [Asked(q, "blockHash") EXCEPT !.height = Height[q.block]]
              [] q.by = "hash" /\ q.block \in DOMAIN mem.seenBlock ->
                    [Asked(q, "symbol") EXCEPT !.height = mem.seenBlock[q.block],
                                               !.hash = q.block]
              [] q.by = "hash" /\ q.block \notin DOMAIN mem.seenBlock ->
                    [Asked(q, "blockSymbol") EXCEPT !.hash = q.block]
              [] q.by = "latest" ->
                    [Asked(q, "symbol") EXCEPT !.height = HeightOf(best), !.hash = best]
  BY DEF AskBalance
<1>2. q.by \in {"latest", "height", "hash"} /\ q.block \in BlockOrNone
      /\ (q.by # "latest" => q.block # NoBlock)
  BY QuestionsAssumption DEF QuestionsAssumption
<1>3. /\ q.block # NoBlock => Height[q.block] \in Int
      /\ HeightOf(best) \in Int
  BY <1>2, BlockTreeAssumption DEF BlockTreeAssumption, BlockOrNone, FlushInv, HeightOf
<1>4. CASE q.by = "height"
  <2>1. \/ Height[q.block] > HeightOf(best) /\ ~(Height[q.block] <= HeightOf(best))
        \/ Height[q.block] <= HeightOf(best) /\ ~(Height[q.block] > HeightOf(best))
    BY <1>2, <1>3, <1>4
  <2> QED
    BY <1>1, <1>2, <1>4, <2>1
<1>5. CASE q.by = "hash"
  BY <1>1, <1>2, <1>5
<1>6. CASE q.by = "latest"
  BY <1>1, <1>2, <1>6
<1> QED
  BY <1>2, <1>4, <1>5, <1>6

\* A client's look-up of an unknown address is a query.
LEMMA EarlySteps ==
    /\ RequestInv /\ AskForSymbol => Query
    /\ NameAddress => Query
    /\ QueryOfOthers => Query
<1>1. ASSUME RequestInv, AskForSymbol PROVE Query
  <2>1. request.address \in Addresses /\ AskEarly(request.address)
    BY <1>1 DEF AskForSymbol, Requesting, RequestInv, Early
  <2> QED
    BY <2>1 DEF Query
<1>2. ASSUME NameAddress PROVE Query
  <2>1. NameEarly(Call(request)) /\ Call(request) \in mem.asking
    BY <1>2, Zenon DEF NameAddress, NameEarly
  <2> QED
    BY <2>1 DEF Query
<1>3. ASSUME QueryOfOthers PROVE Query
  BY <1>3, Zenon DEF QueryOfOthers, Query
<1> QED
  BY <1>1, <1>2, <1>3

\* What it does to those under way.
LEMMA AskingMoves ==
    ASSUME SymbolInv
    PROVE  /\ \A a : AskEarly(a) => mem'.asking = mem.asking \cup {<<budget.queries, a>>}
           /\ \A call : NameEarly(call) => mem'.asking = mem.asking \ {call}
<1>1. pc # "aborted" => IsMem(mem)
  BY DEF SymbolInv, SoundInv, Sound
<1>2. ASSUME NEW a, AskEarly(a) PROVE mem'.asking = mem.asking \cup {<<budget.queries, a>>}
  BY <1>1, <1>2 DEF AskEarly, IsMem
<1>3. ASSUME NEW call, NameEarly(call) PROVE mem'.asking = mem.asking \ {call}
  BY <1>1, <1>3 DEF NameEarly, NewSymbol, IsMem
<1> QED
  BY <1>2, <1>3

\* Every step keeps the invariant.
LEMMA RequestInvStep ==
    FlushInv /\ SymbolInv /\ RequestInv /\ [AccountNext]_accountVars => RequestInv'
<1> SUFFICES ASSUME FlushInv, SymbolInv, RequestInv, [AccountNext]_accountVars PROVE RequestInv'
  OBVIOUS
<1>1. CASE AskBalance
  <2>1. PICK q \in Questions :
           \/ request' = Asked(q, "failed")
           \/ \E h : request' = [Asked(q, "blockHash") EXCEPT !.height = h]
           \/ \E h, b : request' = [Asked(q, "symbol") EXCEPT !.height = h, !.hash = b]
           \/ \E b : request' = [Asked(q, "blockSymbol") EXCEPT !.hash = b]
    BY <1>1, BalanceAsked, ZenonT(30)
  <2>2. /\ DOMAIN request' = DOMAIN NoRequest /\ request'.address = q.address
        /\ request'.stage # "naming"
    <3>1. CASE request' = Asked(q, "failed")
      BY <3>1 DEF NoRequest, Asked
    <3>2. CASE \E h : request' = [Asked(q, "blockHash") EXCEPT !.height = h]
      BY <3>2 DEF NoRequest, Asked
    <3>3. CASE \E h, b : request' = [Asked(q, "symbol") EXCEPT !.height = h, !.hash = b]
      BY <3>3 DEF NoRequest, Asked
    <3>4. CASE \E b : request' = [Asked(q, "blockSymbol") EXCEPT !.hash = b]
      BY <3>4 DEF NoRequest, Asked
    <3> QED
      BY <2>1, <3>1, <3>2, <3>3, <3>4
  <2> QED
    BY <2>2, AskedType DEF RequestInv
<1>2. CASE AskCoins
  <2>1. PICK q \in Questions : request' = Asked(q, "symbol")
    BY <1>2 DEF AskCoins
  <2>2. request'.stage # "naming"
    BY <2>1 DEF Asked, NoRequest
  <2> QED
    BY <2>1, <2>2, AskedType DEF RequestInv
<1>3. CASE ReadBlockHash
  BY <1>3 DEF ReadBlockHash, Requesting, RequestInv, NoRequest, Failed, Early
<1>4. CASE ReadBlockSymbol
  BY <1>4 DEF ReadBlockSymbol, Requesting, RequestInv, NoRequest, Failed, Early
<1>5. CASE LookUpAddress
  BY <1>5 DEF LookUpAddress, Requesting, RequestInv, NoRequest, Early
<1>6. CASE ReadList
  <2> DEFINE r == [request EXCEPT !.outs = ListOf(db, request.symbol).outs, !.stage = "record"]
  <2>1. /\ DOMAIN r = DOMAIN NoRequest /\ r.stage = "record" /\ request.stage = "list"
        /\ DOMAIN request = DOMAIN NoRequest
    BY <1>6 DEF ReadList, Requesting, RequestInv, NoRequest, Early
  <2>2. request' = LoopThrows(request) \/ request' = LoopedOver(r)
    BY <1>6 DEF ReadList
  <2> HIDE DEF r
  <2> QED
    BY <2>1, <2>2, LoopsAreLate DEF RequestInv, Early
<1>7. CASE ReadRecord
  <2> DEFINE out == request.outs[request.next]
             r == [WithRecord(request, db.utxo[out], out) EXCEPT !.next = @ + 1]
  <2>1. request.stage = "record" /\ DOMAIN request = DOMAIN NoRequest
    BY <1>7 DEF ReadRecord, Requesting, RequestInv
  <2>2. DOMAIN r = DOMAIN NoRequest /\ r.stage = "record"
    BY <2>1 DEF WithRecord, NoRequest
  <2>3. request' = LoopThrows(request) \/ request' = LoopedOver(r)
    BY <1>7 DEF ReadRecord
  <2> QED
    BY <2>1, <2>2, <2>3, LoopsAreLate DEF RequestInv, Early
<1>8. CASE ReadTxHash
  BY <1>8 DEF ReadTxHash, Requesting, RequestInv, NoRequest, Failed, Early
<1>9. CASE Answer
  BY <1>9 DEF Answer, RequestInv, NoRequest, Early
<1>10. CASE IndexerSteps
  <2>1. CASE Restart /\ request' = NoRequest
    BY <2>1 DEF RequestInv, NoRequest, Early
  <2>2. CASE (AddBlock \/ Flush \/ StartRemoval \/ FlushEnds \/ RemoveBest) /\ UNCHANGED request
    BY <2>2, AskingStays DEF RequestInv, Call
  <2>3. CASE QueryOfOthers /\ UNCHANGED request
    <3>1. Call(request) \in mem.asking => Call(request) \in mem'.asking
      BY <2>3, AskingMoves DEF QueryOfOthers
    <3> QED
      BY <2>3, <3>1 DEF RequestInv, Call
  <2> QED
    BY <1>10, <2>1, <2>2, <2>3 DEF IndexerSteps
<1>11. CASE UNCHANGED accountVars
  BY <1>11 DEF accountVars, RequestInv, Call, vars
<1>12. CASE AskForSymbol
  <2>1. /\ request' = [request EXCEPT !.call = budget.queries, !.stage = "naming"]
        /\ AskEarly(request.address)
    BY <1>12 DEF AskForSymbol
  <2>2. /\ DOMAIN request' = DOMAIN NoRequest /\ request'.stage = "naming"
        /\ Call(request') = <<budget.queries, request.address>>
    BY <2>1 DEF RequestInv, NoRequest, Call
  <2>3. Call(request') \in mem'.asking
    BY <2>1, <2>2, AskingMoves
  <2> QED
    BY <2>2, <2>3 DEF RequestInv, Early, Call
<1>13. CASE NameAddress
  <2>1. request' = [request EXCEPT !.symbol = mem'.lastAddress, !.stage = "list"]
    BY <1>13 DEF NameAddress
  <2>2. DOMAIN request' = DOMAIN NoRequest /\ request'.stage = "list"
    BY <2>1 DEF RequestInv, NoRequest
  <2> QED
    BY <2>2 DEF RequestInv, Early
<1> QED
  BY <1>1, <1>2, <1>3, <1>4, <1>5, <1>6, <1>7, <1>8, <1>9, <1>10, <1>11, <1>12, <1>13
     DEF AccountNext, Request

\* Asking for a symbol that is not there, and taking one, are steps of Query; every other
\* read is nothing to the tables.
LEMMA RequestStep == RequestInv /\ [AccountNext]_accountVars => [Next]_vars
<1> SUFFICES ASSUME RequestInv, [AccountNext]_accountVars PROVE [Next]_vars
  OBVIOUS
<1>1. CASE AskForSymbol \/ NameAddress
  BY <1>1, EarlySteps DEF Next
<1>2. CASE AskBalance \/ AskCoins \/ ReadBlockHash \/ ReadBlockSymbol \/ LookUpAddress \/ ReadList
           \/ ReadRecord \/ ReadTxHash \/ Answer
  BY <1>2 DEF AskBalance, AskCoins, ReadBlockHash, ReadBlockSymbol, LookUpAddress, ReadList,
              ReadRecord, ReadTxHash, Answer
<1>3. CASE IndexerSteps
  BY <1>3, EarlySteps DEF IndexerSteps, Next
<1>4. CASE UNCHANGED accountVars
  BY <1>4 DEF accountVars, vars
<1> QED
  BY <1>1, <1>2, <1>3, <1>4 DEF AccountNext, Request

\* With requests in flight the indexer is still the one of UtxoIndexer: all that holds of
\* its tables holds here.
THEOREM RequestsAreQueries == AccountSpec => Spec
<1>1. AccountInit => Init
  BY DEF AccountInit
<1>2. FlushInv /\ SymbolInv /\ RequestInv /\ [AccountNext]_accountVars
        => FlushInv' /\ SymbolInv' /\ RequestInv'
  BY RequestInvStep, RequestStep, FlushInvNext, SymbolInvNext
<1> QED
  BY <1>1, <1>2, FlushInvInit, SymbolInvInit, RequestInvInit, RequestStep, PTL
     DEF AccountSpec, Spec

\* In particular the database keeps following the abstract chain index.
THEOREM RequestsKeepIndex == AccountSpec => ImplementsIndex
  BY RequestsAreQueries, IndexRefined, PTL

------------------------------------------------------------------------------
(* The type of a request *)

\* The coins a loop has found: tx symbol, position and amount.
Findings == Seq(Nat \X Nat \X Nat)

\* What a request has read so far.
HasRead(r) ==
    /\ DOMAIN r = DOMAIN NoRequest
    /\ r.height \in Nat \cup {NoSymbol}
    /\ r.hash \in BlockOrNone
    /\ r.outs \in Entries
    /\ r.next \in 1 .. Len(r.outs) + 1
    /\ r.balance \in Nat
    /\ r.unspent \in Findings
    /\ r.coins \subseteq Txs \X Nat \X Nat

\* What it is about to read exists.
CanGoOn(r) ==
    /\ r.stage \in {"none", "blockHash", "blockSymbol", "symbol", "naming", "list", "record",
                    "txHash", "answered", "failed"}
    /\ r.stage \in {"blockHash", "blockSymbol", "symbol", "naming", "list"} => r.next = 1
    /\ r.stage = "record" => r.next <= Len(r.outs)
    /\ r.stage = "txHash" => r.unspent # <<>>

HasReadInv == HasRead(request) /\ CanGoOn(request) /\ during \in Seq(BlockOrNone)

\* A request that has read no list.
Fresh(r) ==
    /\ DOMAIN r = DOMAIN NoRequest
    /\ r.stage \in {"none", "failed", "blockHash", "blockSymbol", "symbol"}
    /\ r.height \in Nat \cup {NoSymbol}
    /\ r.hash \in BlockOrNone
    /\ r.outs = <<>> /\ r.next = 1 /\ r.balance = 0 /\ r.unspent = <<>> /\ r.coins = {}

LEMMA FreshHasRead == ASSUME NEW r, Fresh(r) PROVE HasRead(r) /\ CanGoOn(r)
<1>1. <<>> \in Entries /\ <<>> \in Findings /\ Len(r.outs) = 0
  BY DEF Entries, Findings, Fresh
<1>2. HasRead(r)
  BY <1>1 DEF HasRead, Fresh
<1> QED
  BY <1>2 DEF CanGoOn, Fresh

\* A request starts with nothing read.
LEMMA AskedFresh ==
    ASSUME NEW q \in Questions,
           NEW stage \in {"failed", "blockHash", "blockSymbol", "symbol"}
    PROVE  /\ Fresh(Asked(q, stage))
           /\ \A h \in Nat \cup {NoSymbol} : Fresh([Asked(q, stage) EXCEPT !.height = h])
           /\ \A b \in BlockOrNone : Fresh([Asked(q, stage) EXCEPT !.hash = b])
           /\ \A h \in Nat \cup {NoSymbol}, b \in BlockOrNone :
                 Fresh([Asked(q, stage) EXCEPT !.height = h, !.hash = b])
<1> DEFINE r == Asked(q, stage)
<1>1. /\ DOMAIN r = DOMAIN NoRequest /\ r.stage = stage /\ r.height = NoSymbol
      /\ r.hash = NoBlock /\ r.outs = <<>> /\ r.next = 1 /\ r.balance = 0
      /\ r.unspent = <<>> /\ r.coins = {}
  BY DEF Asked, NoRequest
<1>2. NoBlock \in BlockOrNone /\ NoSymbol \in Nat \cup {NoSymbol}
  BY DEF BlockOrNone
<1> HIDE DEF r
<1>3. Fresh(r)
  BY <1>1, <1>2 DEF Fresh
<1>4. ASSUME NEW h \in Nat \cup {NoSymbol} PROVE Fresh([r EXCEPT !.height = h])
  BY <1>1, <1>2 DEF Fresh, NoRequest
<1>5. ASSUME NEW b \in BlockOrNone PROVE Fresh([r EXCEPT !.hash = b])
  BY <1>1, <1>2 DEF Fresh, NoRequest
<1>6. ASSUME NEW h \in Nat \cup {NoSymbol}, NEW b \in BlockOrNone
      PROVE  Fresh([r EXCEPT !.height = h, !.hash = b])
  BY <1>1, <1>2 DEF Fresh, NoRequest
<1> QED
  BY <1>3, <1>4, <1>5, <1>6 DEF r

LEMMA NoRequestHasRead == HasRead(NoRequest) /\ CanGoOn(NoRequest)
<1>1. Fresh(NoRequest)
  BY DEF Fresh, NoRequest, BlockOrNone
<1> QED
  BY <1>1, FreshHasRead

\* Another height, hash or symbol changes nothing that was read of the lists.
LEMMA ReadsOn ==
    ASSUME NEW r, HasRead(r), CanGoOn(r), r.stage \in Early \cup {"naming"},
           NEW stage \in {"symbol", "naming", "list"}
    PROVE  /\ \A b \in BlockOrNone :
                 HasRead([r EXCEPT !.hash = b, !.stage = stage])
                 /\ CanGoOn([r EXCEPT !.hash = b, !.stage = stage])
           /\ \A h \in Nat :
                 HasRead([r EXCEPT !.height = h, !.stage = stage])
                 /\ CanGoOn([r EXCEPT !.height = h, !.stage = stage])
           /\ \A s : HasRead([r EXCEPT !.symbol = s, !.stage = stage])
                     /\ CanGoOn([r EXCEPT !.symbol = s, !.stage = stage])
           /\ \A c : HasRead([r EXCEPT !.call = c, !.stage = stage])
                     /\ CanGoOn([r EXCEPT !.call = c, !.stage = stage])
<1>1. /\ r.next = 1 /\ DOMAIN r = DOMAIN NoRequest /\ r.height \in Nat \cup {NoSymbol}
      /\ r.hash \in BlockOrNone /\ r.outs \in Entries /\ r.next \in 1 .. Len(r.outs) + 1
      /\ r.balance \in Nat /\ r.unspent \in Findings /\ r.coins \subseteq Txs \X Nat \X Nat
  BY DEF HasRead, CanGoOn, Early
<1>2. ASSUME NEW n, DOMAIN n = DOMAIN NoRequest, n.stage = stage,
             n.height \in Nat \cup {NoSymbol}, n.hash \in BlockOrNone, n.outs = r.outs,
             n.next = r.next, n.balance = r.balance, n.unspent = r.unspent, n.coins = r.coins
      PROVE  HasRead(n) /\ CanGoOn(n)
  <2>1. HasRead(n)
    BY <1>1, <1>2 DEF HasRead
  <2> QED
    BY <1>1, <1>2, <2>1 DEF CanGoOn
<1>3. ASSUME NEW b \in BlockOrNone
      PROVE  LET n == [r EXCEPT !.hash = b, !.stage = stage] IN HasRead(n) /\ CanGoOn(n)
  <2> DEFINE n == [r EXCEPT !.hash = b, !.stage = stage]
  <2>1. /\ DOMAIN n = DOMAIN NoRequest /\ n.stage = stage /\ n.height = r.height /\ n.hash = b
        /\ n.outs = r.outs /\ n.next = r.next /\ n.balance = r.balance
        /\ n.unspent = r.unspent /\ n.coins = r.coins
    BY <1>1 DEF NoRequest
  <2> HIDE DEF n
  <2>2. HasRead(n) /\ CanGoOn(n)
    BY <1>1, <1>2, <2>1
  <2> QED
    BY <2>2 DEF n
<1>4. ASSUME NEW h \in Nat
      PROVE  LET n == [r EXCEPT !.height = h, !.stage = stage] IN HasRead(n) /\ CanGoOn(n)
  <2> DEFINE n == [r EXCEPT !.height = h, !.stage = stage]
  <2>1. /\ DOMAIN n = DOMAIN NoRequest /\ n.stage = stage /\ n.height = h /\ n.hash = r.hash
        /\ n.outs = r.outs /\ n.next = r.next /\ n.balance = r.balance
        /\ n.unspent = r.unspent /\ n.coins = r.coins
    BY <1>1 DEF NoRequest
  <2> HIDE DEF n
  <2>2. HasRead(n) /\ CanGoOn(n)
    BY <1>1, <1>2, <2>1
  <2> QED
    BY <2>2 DEF n
<1>5. ASSUME NEW s
      PROVE  LET n == [r EXCEPT !.symbol = s, !.stage = stage] IN HasRead(n) /\ CanGoOn(n)
  <2> DEFINE n == [r EXCEPT !.symbol = s, !.stage = stage]
  <2>1. /\ DOMAIN n = DOMAIN NoRequest /\ n.stage = stage /\ n.height = r.height
        /\ n.hash = r.hash /\ n.outs = r.outs /\ n.next = r.next /\ n.balance = r.balance
        /\ n.unspent = r.unspent /\ n.coins = r.coins
    BY <1>1 DEF NoRequest
  <2> HIDE DEF n
  <2>2. HasRead(n) /\ CanGoOn(n)
    BY <1>1, <1>2, <2>1
  <2> QED
    BY <2>2 DEF n
<1>6. ASSUME NEW c
      PROVE  LET n == [r EXCEPT !.call = c, !.stage = stage] IN HasRead(n) /\ CanGoOn(n)
  <2> DEFINE n == [r EXCEPT !.call = c, !.stage = stage]
  <2>1. /\ DOMAIN n = DOMAIN NoRequest /\ n.stage = stage /\ n.height = r.height
        /\ n.hash = r.hash /\ n.outs = r.outs /\ n.next = r.next /\ n.balance = r.balance
        /\ n.unspent = r.unspent /\ n.coins = r.coins
    BY <1>1 DEF NoRequest
  <2> HIDE DEF n
  <2>2. HasRead(n) /\ CanGoOn(n)
    BY <1>1, <1>2, <2>1
  <2> QED
    BY <2>2 DEF n
<1> QED
  BY <1>3, <1>4, <1>5, <1>6

\* Where a loop ends, nothing else is read.
LEMMA LoopsHaveRead ==
    ASSUME FlushInv, NEW r, HasRead(r)
    PROVE  /\ HasRead(Failed(r)) /\ CanGoOn(Failed(r))
           /\ HasRead(Labelled(r)) /\ CanGoOn(Labelled(r))
           /\ HasRead(LoopThrows(r)) /\ CanGoOn(LoopThrows(r))
           /\ r.stage = "record" => HasRead(LoopedOver(r)) /\ CanGoOn(LoopedOver(r))
<1>1. HasRead(Failed(r)) /\ CanGoOn(Failed(r))
  BY DEF HasRead, CanGoOn, Failed, NoRequest
<1>2. HasRead(Labelled(r)) /\ CanGoOn(Labelled(r))
  <2> DEFINE n == [r EXCEPT !.height = HeightOf(best), !.hash = best,
                            !.stage = IF r.unspent = <<>> THEN "answered" ELSE "txHash"]
  <2>1. CASE best = NoBlock
    BY <1>1, <2>1 DEF Labelled
  <2>2. CASE best # NoBlock
    <3>1. HeightOf(best) \in Nat /\ best \in BlockOrNone
      BY <2>2, BlockTreeAssumption DEF BlockTreeAssumption, FlushInv, BlockOrNone, HeightOf
    <3>2. Labelled(r) = n
      BY <2>2 DEF Labelled
    <3>3. /\ DOMAIN n = DOMAIN NoRequest /\ n.height = HeightOf(best) /\ n.hash = best
          /\ n.outs = r.outs /\ n.next = r.next /\ n.balance = r.balance
          /\ n.unspent = r.unspent /\ n.coins = r.coins
          /\ n.stage = IF r.unspent = <<>> THEN "answered" ELSE "txHash"
      BY DEF HasRead, NoRequest
    <3> HIDE DEF n
    <3>4. HasRead(n)
      BY <3>1, <3>3 DEF HasRead
    <3>5. CanGoOn(n)
      BY <3>3 DEF CanGoOn
    <3> QED
      BY <3>2, <3>4, <3>5
  <2> QED
    BY <2>1, <2>2
<1>3. r.stage = "record" => HasRead(LoopedOver(r)) /\ CanGoOn(LoopedOver(r))
  <2>1. HasRead([r EXCEPT !.stage = "answered"]) /\ CanGoOn([r EXCEPT !.stage = "answered"])
    BY DEF HasRead, CanGoOn, NoRequest
  <2>2. r.stage = "record" /\ r.next <= Len(r.outs) => CanGoOn(r)
    BY DEF CanGoOn
  <2> QED
    BY <1>2, <2>1, <2>2 DEF LoopedOver
<1> QED
  BY <1>1, <1>2, <1>3 DEF LoopThrows

\* One record.
LEMMA RecordRead ==
    ASSUME NEW r, HasRead(r), CanGoOn(r), r.stage = "record",
           db.utxo[r.outs[r.next]] \in Records
    PROVE  LET n == [WithRecord(r, db.utxo[r.outs[r.next]], r.outs[r.next]) EXCEPT !.next = @ + 1]
           IN  HasRead(n) /\ n.stage = "record"
<1> DEFINE out == r.outs[r.next]
           record == db.utxo[out]
           w == WithRecord(r, record, out)
           coin == <<out[1], out[2], record.sats>>
           n == [w EXCEPT !.next = @ + 1]
<1>1. r.outs \in Entries /\ r.unspent \in Findings /\ r.next \in 1..Len(r.outs)
  BY DEF HasRead, CanGoOn, Entries
<1>3. record.sats \in Nat /\ r.balance \in Nat
  BY DEF Records, HasRead
<1>2. Append(r.unspent, coin) \in Findings /\ r.next + 1 \in 1..Len(r.outs) + 1
  <2>1. out \in Nat \X Nat /\ r.next + 1 \in 1..Len(r.outs) + 1
    BY <1>1, SMTT(30) DEF Entries
  <2>2. coin \in Nat \X Nat \X Nat
    BY <1>3, <2>1
  <2> HIDE DEF coin
  <2> QED
    BY <1>1, <2>1, <2>2 DEF Findings
<1>4. r.balance + record.sats \in Nat
  BY <1>3
<1>5. \/ w = [r EXCEPT !.unspent = Append(@, coin)]
      \/ w = [r EXCEPT !.balance = @ + record.sats]
      \/ w = r
  BY Zenon DEF WithRecord
<1> HIDE DEF out, record, w, coin
<1>6. /\ DOMAIN w = DOMAIN NoRequest /\ w.height = r.height /\ w.hash = r.hash /\ w.outs = r.outs
      /\ w.next = r.next /\ w.coins = r.coins /\ w.stage = r.stage
      /\ w.balance \in {r.balance, r.balance + record.sats}
      /\ w.unspent \in {r.unspent, Append(r.unspent, coin)}
  BY <1>5 DEF HasRead, NoRequest
<1>7. /\ DOMAIN n = DOMAIN NoRequest /\ n.height = r.height /\ n.hash = r.hash /\ n.outs = r.outs
      /\ n.next = r.next + 1 /\ n.coins = r.coins /\ n.stage = "record"
      /\ n.balance \in Nat /\ n.unspent \in Findings
  BY <1>1, <1>2, <1>3, <1>4, <1>6 DEF NoRequest
<1> HIDE DEF n
<1>8. HasRead(n)
  BY <1>2, <1>7 DEF HasRead
<1> QED
  BY <1>7, <1>8 DEF n, w, record, out

\* Every step keeps the type.
LEMMA HasReadStep ==
    FlushInv /\ FlushInv' /\ SymbolInv /\ RecordInv /\ TypedInv /\ RequestInv /\ HasReadInv
        /\ [AccountNext]_accountVars => HasReadInv'
<1> SUFFICES ASSUME FlushInv, FlushInv', SymbolInv, RecordInv, TypedInv, RequestInv, HasReadInv,
                    [AccountNext]_accountVars
             PROVE  HasReadInv'
  OBVIOUS
<1>1. HasRead(request) /\ CanGoOn(request) /\ during \in Seq(BlockOrNone)
  BY DEF HasReadInv
<1>2. best \in BlockOrNone /\ db.best \in BlockOrNone /\ HeightOf(best) \in Nat \cup {NoSymbol}
  BY BlockTreeAssumption DEF BlockTreeAssumption, FlushInv, BlockOrNone, HeightOf, NoSymbol
<1>3. <<db.best>> \in Seq(BlockOrNone) /\ <<>> \in Seq(BlockOrNone)
  BY <1>2
<1>4. CASE AskBalance
  <2>1. PICK q \in Questions :
           \/ request' = Asked(q, "failed")
           \/ /\ q.block \in Blocks
              /\ request' = [Asked(q, "blockHash") EXCEPT !.height = Height[q.block]]
           \/ /\ q.block \in DOMAIN mem.seenBlock /\ q.block \in Blocks
              /\ request' = [Asked(q, "symbol") EXCEPT !.height = mem.seenBlock[q.block],
                                                       !.hash = q.block]
           \/ /\ q.block \in Blocks
              /\ request' = [Asked(q, "blockSymbol") EXCEPT !.hash = q.block]
           \/ request' = [Asked(q, "symbol") EXCEPT !.height = HeightOf(best), !.hash = best]
    BY <1>4, BalanceAsked DEF BlockOrNone
  <2>2. q.block \in Blocks => Height[q.block] \in Nat /\ q.block \in BlockOrNone
    BY BlockTreeAssumption DEF BlockTreeAssumption, BlockOrNone
  <2>3. q.block \in DOMAIN mem.seenBlock => mem.seenBlock[q.block] \in Nat
    BY DEF TypedInv, Typed
  <2>4. Fresh(request')
    <3>1. CASE request' = Asked(q, "failed")
      BY <3>1, AskedFresh
    <3>2. CASE /\ q.block \in Blocks
               /\ request' = [Asked(q, "blockHash") EXCEPT !.height = Height[q.block]]
      BY <2>2, <3>2, AskedFresh
    <3>3. CASE /\ q.block \in DOMAIN mem.seenBlock /\ q.block \in Blocks
               /\ request' = [Asked(q, "symbol") EXCEPT !.height = mem.seenBlock[q.block],
                                                        !.hash = q.block]
      BY <2>2, <2>3, <3>3, AskedFresh
    <3>4. CASE /\ q.block \in Blocks
               /\ request' = [Asked(q, "blockSymbol") EXCEPT !.hash = q.block]
      BY <2>2, <3>4, AskedFresh
    <3>5. CASE request' = [Asked(q, "symbol") EXCEPT !.height = HeightOf(best), !.hash = best]
      BY <1>2, <3>5, AskedFresh
    <3> QED
      BY <2>1, <3>1, <3>2, <3>3, <3>4, <3>5
  <2> QED
    BY <1>3, <1>4, <2>4, FreshHasRead DEF HasReadInv, AskBalance
<1>5. CASE AskCoins
  <2>1. PICK q \in Questions : request' = Asked(q, "symbol")
    BY <1>5 DEF AskCoins
  <2>2. HasRead(request') /\ CanGoOn(request')
    BY <2>1, AskedFresh, FreshHasRead
  <2> QED
    BY <1>3, <1>5, <2>2 DEF HasReadInv, AskCoins
<1>6. CASE ReadBlockHash
  <2> DEFINE h == db.at[request.height]
             n == [request EXCEPT !.hash = h, !.stage = "symbol"]
  <2>1. \/ request' = Failed(request)
        \/ request.height \in DOMAIN db.at /\ request' = n
    BY <1>6 DEF ReadBlockHash
  <2>2. request.height \in DOMAIN db.at => h \in BlockOrNone
    BY DEF TypedInv, TypedDb, BlockOrNone
  <2> HIDE DEF h
  <2>3. h \in BlockOrNone => HasRead(n) /\ CanGoOn(n)
    BY <1>1, <1>6, ReadsOn DEF ReadBlockHash, Requesting, Early
  <2>4. HasRead(request') /\ CanGoOn(request')
    BY <1>1, <2>1, <2>2, <2>3, LoopsHaveRead
  <2> QED
    BY <1>1, <1>6, <2>4 DEF HasReadInv, ReadBlockHash
<1>7. CASE ReadBlockSymbol
  <2> DEFINE h == db.block[request.hash]
             n == [request EXCEPT !.height = h, !.stage = "symbol"]
  <2>1. \/ request' = Failed(request)
        \/ request.hash \in DOMAIN db.block /\ request' = n
    BY <1>7 DEF ReadBlockSymbol
  <2>2. request.hash \in DOMAIN db.block => h \in Nat
    <3>1. db.block = [c \in Chain[db.best] |-> Height[c]]
      BY DEF SymbolInv, NameInv, BlockNames
    <3>2. \A c \in Chain[db.best] : Height[c] \in Nat
      BY <1>2, ChainHeight, BlockTreeAssumption DEF BlockTreeAssumption
    <3> QED
      BY <3>1, <3>2
  <2> HIDE DEF h
  <2>3. h \in Nat => HasRead(n) /\ CanGoOn(n)
    BY <1>1, <1>7, ReadsOn DEF ReadBlockSymbol, Requesting, Early
  <2>4. HasRead(request') /\ CanGoOn(request')
    BY <1>1, <2>1, <2>2, <2>3, LoopsHaveRead
  <2> QED
    BY <1>1, <1>7, <2>4 DEF HasReadInv, ReadBlockSymbol
<1>8. CASE LookUpAddress
  <2>1. PICK s : request' = [request EXCEPT !.symbol = s, !.stage = "list"]
    BY <1>8 DEF LookUpAddress
  <2>2. request.stage \in Early
    BY <1>8 DEF LookUpAddress, Requesting, Early
  <2>3. \A x : LET n == [request EXCEPT !.symbol = x, !.stage = "list"]
               IN  HasRead(n) /\ CanGoOn(n)
    BY <1>1, <2>2, ReadsOn
  <2>4. HasRead(request') /\ CanGoOn(request')
    BY <2>1, <2>3
  <2> QED
    BY <1>1, <1>8, <2>4 DEF HasReadInv, LookUpAddress
<1>15. CASE AskForSymbol \/ NameAddress
  <2>1. \/ \E s : request' = [request EXCEPT !.symbol = s, !.stage = "list"]
        \/ \E c : request' = [request EXCEPT !.call = c, !.stage = "naming"]
    BY <1>15 DEF AskForSymbol, NameAddress
  <2>2. request.stage \in Early \cup {"naming"} /\ UNCHANGED during
    BY <1>15 DEF AskForSymbol, NameAddress, Requesting, Early
  <2>3. /\ \A s : HasRead([request EXCEPT !.symbol = s, !.stage = "list"])
                 /\ CanGoOn([request EXCEPT !.symbol = s, !.stage = "list"])
        /\ \A c : HasRead([request EXCEPT !.call = c, !.stage = "naming"])
                 /\ CanGoOn([request EXCEPT !.call = c, !.stage = "naming"])
    <3>1. \A stage \in {"symbol", "naming", "list"} :
             /\ \A s : HasRead([request EXCEPT !.symbol = s, !.stage = stage])
                      /\ CanGoOn([request EXCEPT !.symbol = s, !.stage = stage])
             /\ \A c : HasRead([request EXCEPT !.call = c, !.stage = stage])
                      /\ CanGoOn([request EXCEPT !.call = c, !.stage = stage])
      BY <1>1, <2>2, ReadsOn
    <3> QED
      BY <3>1
  <2>4. HasRead(request') /\ CanGoOn(request')
    BY <2>1, <2>3
  <2> QED
    BY <1>1, <2>2, <2>4 DEF HasReadInv
<1>9. CASE ReadList
  <2> DEFINE outs == ListOf(db, request.symbol).outs
             r == [request EXCEPT !.outs = outs, !.stage = "record"]
  <2>1. request' = LoopThrows(request) \/ request' = LoopedOver(r)
    BY <1>9 DEF ReadList
  <2>2. outs \in Entries
    BY ListOfType DEF TypedInv, TypedDb, Lists, Entries
  <2>3. request.next = 1
    BY <1>1, <1>9 DEF ReadList, Requesting, CanGoOn
  <2> HIDE DEF outs
  <2>4. HasRead(r) /\ r.stage = "record"
    <3>1. /\ DOMAIN r = DOMAIN NoRequest /\ r.height = request.height /\ r.hash = request.hash
          /\ r.outs = outs /\ r.next = request.next /\ r.balance = request.balance
          /\ r.unspent = request.unspent /\ r.coins = request.coins /\ r.stage = "record"
      BY <1>1 DEF HasRead, NoRequest
    <3>2. 1 \in 1 .. Len(outs) + 1
      BY <2>2 DEF Entries
    <3> QED
      BY <1>1, <2>2, <2>3, <3>1, <3>2 DEF HasRead
  <2> HIDE DEF r
  <2>5. HasRead(request') /\ CanGoOn(request')
    BY <1>1, <2>1, <2>4, LoopsHaveRead
  <2> QED
    BY <1>1, <1>9, <2>5 DEF HasReadInv, ReadList
<1>10. CASE ReadRecord
  <2> DEFINE out == request.outs[request.next]
             n == [WithRecord(request, db.utxo[out], out) EXCEPT !.next = @ + 1]
  <2>1. /\ \/ request' = LoopThrows(request)
           \/ out \in DOMAIN db.utxo /\ request' = LoopedOver(n)
        /\ request.stage = "record"
    BY <1>10 DEF ReadRecord, Requesting
  <2>2. out \in DOMAIN db.utxo => db.utxo[out] \in Records
    BY DEF RecordInv, Readies
  <2>3. out \in DOMAIN db.utxo => HasRead(n) /\ n.stage = "record"
    BY <1>1, <2>1, <2>2, RecordRead
  <2> HIDE DEF n, out
  <2>4. HasRead(request') /\ CanGoOn(request')
    BY <1>1, <2>1, <2>3, LoopsHaveRead
  <2> QED
    BY <1>1, <1>10, <2>4 DEF HasReadInv, ReadRecord
<1>11. CASE ReadTxHash
  <2> DEFINE out == Last(request.unspent)
             found == db.txid[out[1]]
             rest == Front(request.unspent)
             n == [request EXCEPT !.coins = @ \cup {<<found, out[2], out[3]>>}, !.unspent = rest,
                                  !.stage = IF Len(request.unspent) = 1 THEN "answered" ELSE @]
  <2>1. /\ \/ request' = Failed(request)
           \/ out[1] \in DOMAIN db.txid /\ request' = n
        /\ request.stage = "txHash"
    BY <1>11 DEF ReadTxHash, Requesting
  <2>2. request.unspent \in Findings /\ request.unspent # <<>> /\ request.unspent \in Seq(Nat \X Nat \X Nat)
    BY <1>1, <2>1 DEF HasRead, CanGoOn, Findings
  <2>3. Len(request.unspent) \in Nat \ {0}
    BY <2>2
  <2>4. out \in Nat \X Nat \X Nat
    BY <2>2, <2>3 DEF Last
  <2>5. rest \in Findings /\ (Len(request.unspent) # 1 => rest # <<>>)
    <3>1. rest = [i \in 1 .. Len(request.unspent) - 1 |-> request.unspent[i]]
      BY <2>2 DEF Front
    <3>2. \A i \in 1 .. Len(request.unspent) - 1 : request.unspent[i] \in Nat \X Nat \X Nat
      BY <2>2, <2>3
    <3>3. rest \in Seq(Nat \X Nat \X Nat) /\ Len(rest) = Len(request.unspent) - 1
      BY <2>3, <3>1, <3>2
    <3>4. rest = <<>> => Len(rest) = 0
      OBVIOUS
    <3> QED
      BY <2>3, <3>3, <3>4 DEF Findings
  <2>6. out[1] \in DOMAIN db.txid => found \in Txs
    BY DEF TypedInv, TypedDb
  <2> HIDE DEF found, rest
  <2>7. out[1] \in DOMAIN db.txid => HasRead(n) /\ CanGoOn(n)
    <3> SUFFICES ASSUME out[1] \in DOMAIN db.txid
                 PROVE  HasRead(n) /\ CanGoOn(n)
      OBVIOUS
    <3> HIDE DEF out
    <3>1. /\ DOMAIN n = DOMAIN NoRequest /\ n.height = request.height /\ n.hash = request.hash
          /\ n.outs = request.outs /\ n.next = request.next /\ n.balance = request.balance
          /\ n.unspent = rest /\ n.coins = request.coins \cup {<<found, out[2], out[3]>>}
          /\ n.stage = IF Len(request.unspent) = 1 THEN "answered" ELSE "txHash"
      BY <1>1, <2>1 DEF HasRead, NoRequest
    <3> HIDE DEF n
    <3>2. <<found, out[2], out[3]>> \in Txs \X Nat \X Nat
      BY <2>4, <2>6
    <3>3. HasRead(n)
      BY <1>1, <2>5, <3>1, <3>2 DEF HasRead
    <3>4. CanGoOn(n)
      BY <2>5, <3>1 DEF CanGoOn
    <3> QED
      BY <3>3, <3>4
  <2> HIDE DEF n, out
  <2>8. HasRead(request') /\ CanGoOn(request')
    BY <1>1, <2>1, <2>7, LoopsHaveRead
  <2> QED
    BY <1>1, <1>11, <2>8 DEF HasReadInv, ReadTxHash
<1>12. CASE Answer
  BY <1>3, <1>12, NoRequestHasRead DEF Answer, HasReadInv
<1>13. CASE IndexerSteps
  <2>1. HasRead(request') /\ CanGoOn(request')
    BY <1>1, <1>13, NoRequestHasRead DEF IndexerSteps
  <2>2. db'.best \in BlockOrNone
    BY DEF FlushInv
  <2>3. during' \in {<<>>, during, Append(during, db'.best)}
    BY <1>13, Zenon DEF IndexerSteps
  <2>4. Append(during, db'.best) \in Seq(BlockOrNone)
    BY <1>1, <2>2
  <2>5. during' \in Seq(BlockOrNone)
    BY <1>1, <1>3, <2>3, <2>4
  <2> QED
    BY <2>1, <2>5 DEF HasReadInv
<1>14. CASE UNCHANGED accountVars
  BY <1>1, <1>14 DEF accountVars, HasReadInv
<1> QED
  BY <1>4, <1>5, <1>6, <1>7, <1>8, <1>9, <1>10, <1>11, <1>12, <1>13, <1>14, <1>15
     DEF AccountNext, Request

\* A request has its type in every state (RequestTypeOK): each read finds a value of the kind
\* the next step needs, whatever blocks are added, flushed and removed in between. The answer
\* holds a height of a block or none, a natural balance, and coins of known transactions.
THEOREM RequestsTyped == AccountSpec => []RequestTypeOK
<1>1. AccountInit => FlushInv /\ SymbolInv /\ RecordInv /\ TypedInv /\ RequestInv /\ HasReadInv
  <2>1. AccountInit => FlushInv /\ SymbolInv /\ RecordInv /\ TypedInv /\ RequestInv
    BY FlushInvInit, SymbolInvInit, RecordInvInit, TypedInvInit, RequestInvInit DEF AccountInit
  <2>2. AccountInit => HasReadInv
    BY NoRequestHasRead DEF AccountInit, HasReadInv
  <2> QED
    BY <2>1, <2>2
<1>2. FlushInv /\ SymbolInv /\ RecordInv /\ TypedInv /\ RequestInv /\ HasReadInv
          /\ [AccountNext]_accountVars
        => (FlushInv /\ SymbolInv /\ RecordInv /\ TypedInv /\ RequestInv /\ HasReadInv)'
  BY RequestStep, FlushInvNext, SymbolInvNext, RecordInvNext, TypedInvNext, RequestInvStep,
     HasReadStep
<1>3. RequestInv /\ HasReadInv => RequestTypeOK
  BY DEF RequestInv, HasReadInv, HasRead, CanGoOn, RequestTypeOK
<1> QED
  BY <1>1, <1>2, <1>3, PTL DEF AccountSpec

------------------------------------------------------------------------------
(* Sums of satoshis *)

\* What outputs hold is a sum.
LEMMA SatsSums ==
    ASSUME NEW U, IsFiniteSet(U)
    PROVE  \E h : /\ SumRun(h, [ref \in U |-> Outs[ref[1]][ref[2]].sats], U)
                  /\ Sats(U) = h[U]
<1> DEFINE held(ref) == Outs[ref[1]][ref[2]].sats
           w == [ref \in U |-> held(ref)]
           Solves(h) == h = [s \in SUBSET U |-> IF s = {} THEN 0
                                                ELSE held(Chosen(s)) + h[s \ {Chosen(s)}]]
           sum == CHOOSE h : Solves(h)
<1>1. Sats(U) = sum[U]
  BY Zenon DEF Sats, MapThenSumSet, MapThenFoldSet, Chosen
<1>2. \A s \in SUBSET U : s # {} => w[Chosen(s)] = held(Chosen(s))
  BY ChosenIn
<1> HIDE DEF held, w
<1>3. \A h : SumRun(h, w, U) <=> Solves(h)
  BY <1>2 DEF SumRun
<1>4. \E h : Solves(h)
  BY <1>3, SumExists
<1> HIDE DEF Solves
<1>5. Solves(sum)
  BY <1>4
<1>6. SumRun(sum, w, U)
  BY <1>3, <1>5
<1> HIDE DEF sum
<1> QED
  BY <1>1, <1>6 DEF w, held

\* It splits at any of them.
LEMMA SatsSplit ==
    ASSUME NEW U \in SUBSET OutputRefs, IsFiniteSet(U)
    PROVE  /\ Sats(U) \in Nat
           /\ U = {} => Sats(U) = 0
           /\ \A x \in U : Sats(U) = Outs[x[1]][x[2]].sats + Sats(U \ {x})
<1> DEFINE w == [ref \in U |-> Outs[ref[1]][ref[2]].sats]
<1>1. PICK h : SumRun(h, w, U) /\ Sats(U) = h[U]
  BY SatsSums
<1>2. \A x \in U : w[x] \in Nat
  BY RefType
<1>3. /\ h[{}] = 0
      /\ \A s \in SUBSET U : h[s] \in Nat /\ \A x \in s : h[s] = w[x] + h[s \ {x}]
  <2> HIDE DEF w
  <2> QED
    BY <1>1, <1>2, SumSplits
<1>4. ASSUME NEW x \in U PROVE Sats(U \ {x}) = h[U \ {x}]
  <2> DEFINE V == U \ {x}
             v == [ref \in V |-> Outs[ref[1]][ref[2]].sats]
             g == [s \in SUBSET V |-> h[s]]
             p == [y \in V |-> y]
  <2>1. V \in SUBSET U /\ IsFiniteSet(V)
    BY FS_Subset
  <2>2. PICK k : SumRun(k, v, V) /\ Sats(V) = k[V]
    BY <2>1, SatsSums
  <2>3. \A y \in V : v[y] = w[y] /\ v[y] \in Nat
    BY <1>2, <2>1
  <2> HIDE DEF V, v, w
  <2>4. ASSUME NEW s \in SUBSET V
        PROVE  g[s] = IF s = {} THEN 0 ELSE v[Chosen(s)] + g[s \ {Chosen(s)}]
    <3>1. CASE s = {}
      BY <1>3, <3>1
    <3>2. CASE s # {}
      <4>1. Chosen(s) \in s /\ Chosen(s) \in V /\ s \in SUBSET U /\ s \ {Chosen(s)} \in SUBSET V
        BY <2>1, <3>2, ChosenIn
      <4>2. h[s] = w[Chosen(s)] + h[s \ {Chosen(s)}]
        BY <1>3, <4>1
      <4> QED
        BY <2>3, <3>2, <4>1, <4>2
    <3> QED
      BY <3>1, <3>2
  <2>5. SumRun(g, v, V)
    <3>1. g = [s \in SUBSET V |-> g[s]]
      OBVIOUS
    <3> HIDE DEF g
    <3>2. [s \in SUBSET V |-> g[s]]
             = [s \in SUBSET V |-> IF s = {} THEN 0 ELSE v[Chosen(s)] + g[s \ {Chosen(s)}]]
      BY <2>4
    <3> QED
      BY <3>1, <3>2 DEF SumRun
  <2>6. V \in SUBSET V /\ g[V] = h[V]
    OBVIOUS
  <2>7. /\ \A y \in V : v[p[y]] = v[y]
        /\ \A y, z \in V : p[y] = p[z] => y = z
        /\ V = {p[y] : y \in V}
    OBVIOUS
  <2> HIDE DEF p, g
  <2>8. g[V] = k[V]
    BY <2>1, <2>2, <2>3, <2>5, <2>7, SumMapped
  <2> QED
    BY <2>2, <2>6, <2>8 DEF V
<1>5. \A x \in U : Sats(U) = Outs[x[1]][x[2]].sats + Sats(U \ {x})
  BY <1>1, <1>3, <1>4, ZenonT(30)
<1> QED
  BY <1>1, <1>3, <1>5

------------------------------------------------------------------------------
(* A balance at a block that stays *)

\* No block leaves in a row of blocks that the database is at.
Grew(blocks) == \A i \in 1 .. Len(blocks) - 1 : blocks[i] \in Chain[blocks[i + 1]]

\* The request is for the balance at block b, which has paid the address, and which all the
\* blocks that the database has been at have on their chains.
Pinned(r, b, blocks) ==
    /\ r.stage # "none" /\ r.kind = "balance"
    /\ \/ r.by = "hash" /\ r.block = b
       \/ r.by = "height" /\ Height[r.block] = Height[b]
    /\ \A t \in Range(blocks) : b \in Chain[t]
    /\ Owned(b, r.address) # {}

\* A list that was read when the chain had block b: it has the outputs that pay address a up
\* to b, and of the outputs up to b no others.
OutsFor(outs, tx, b, a) ==
    /\ outs \in Entries /\ IsInjective(outs)
    /\ \A ref \in Owned(b, a) : Key(tx, ref) \in ToSet(outs)
    /\ \A ref \in OutputsOf(Mined(b)) : Key(tx, ref) \in ToSet(outs) => ref \in Owned(b, a)

\* The outputs in U that have their entry among the first n of a list.
PartOf(outs, tx, U, n) == {ref \in U : \E i \in 1..n : outs[i] = Key(tx, ref)}

\* What a request for the balance at b has found out, stage by stage, over tables d of the
\* last of the blocks in a row. The list may have grown on disk since it was read; as long
\* as no block leaves, the outputs in it stay.
Follows(r, b, d, blocks, top) ==
    /\ r.stage # "txHash"
    /\ r.stage = "blockHash" => r.height = Height[b]
    /\ r.stage = "blockSymbol" => r.hash = b
    /\ r.stage \in {"symbol", "list", "record", "answered"} => r.height = Height[b] /\ r.hash = b
    /\ r.stage \in Early \cup {"list"} => r.balance = 0
    /\ r.stage = "list" => r.symbol = d.address[r.address]
    /\ r.stage = "record" =>
          /\ OutsFor(r.outs, d.tx, b, r.address)
          /\ Grew(blocks) => \A e \in ToSet(r.outs) :
                \E ref \in Owned(d.best, r.address) : e = Key(d.tx, ref)
          /\ r.balance = Sats(PartOf(r.outs, d.tx, Unspent(b, r.address), r.next - 1))
    /\ r.stage = "answered" => r.balance = Ledger(b, r.address)
    /\ r.stage = "failed" => ~Grew(blocks) \/ b \notin Chain[top]

\* The last block noted is the one the database is at.
DuringInv ==
    request.stage # "none" =>
        /\ request.address \in Addresses
        /\ during # <<>> /\ Last(during) = db.best

HistInv ==
    \A b \in Blocks : Pinned(request, b, during) => Follows(request, b, db, during, best)

\* No two outputs of the chain of b have a key in common there.
LEMMA ChainKeys ==
    ASSUME AllInv, NEW b \in Chain[db.best]
    PROVE  /\ b \in Blocks /\ Mined(b) \subseteq Mined(db.best)
           /\ \A a : Owned(b, a) \subseteq Owned(db.best, a)
           /\ OneKey(db.tx, OutputsOf(Mined(b))) /\ OneKey(db.tx, OutputsOf(Mined(db.best)))
           /\ db.at[Height[b]] = b /\ Height[b] \in DOMAIN db.at /\ b \in DOMAIN db.block
           /\ db.block[b] = Height[b] /\ db.best \in Chain[db.best]
<1>1. /\ db.best \in BlockOrNone /\ TxNames(db.tx, db.txid, db.lastTx, db.best)
      /\ BlockNames(db.block, db.at, db.best)
  BY DEF AllInv, FlushInv, SymbolInv, NameInv
<1>2. b \in Blocks /\ Chain[b] \subseteq Chain[db.best]
  BY <1>1, ChainBefore
<1>3. Mined(b) \subseteq Mined(db.best)
  BY <1>2 DEF Mined
<1>4. \A t \in Mined(db.best) : db.txid[db.tx[t]] = t
  BY <1>1 DEF TxNames
<1>5. OneKey(db.tx, OutputsOf(Mined(b))) /\ OneKey(db.tx, OutputsOf(Mined(db.best)))
  BY <1>3, <1>4, OwnKeys
<1>6. \A a : Owned(b, a) \subseteq Owned(db.best, a)
  BY <1>3 DEF Owned
<1>7. db.best \in Chain[db.best]
  BY <1>1, ChainEnds DEF BlockOrNone
<1> QED
  BY <1>1, <1>2, <1>3, <1>5, <1>6, <1>7 DEF BlockNames

\* A list for the outputs up to b bounds them.
LEMMA OwnedFinite ==
    ASSUME NEW outs, NEW tx, NEW b, NEW a, OutsFor(outs, tx, b, a),
           OneKey(tx, OutputsOf(Mined(b)))
    PROVE  IsFiniteSet(Owned(b, a))
<1> DEFINE W == Owned(b, a)
           N == Len(outs)
           S == {i \in 1..N : \E ref \in W : outs[i] = Key(tx, ref)}
           p == [i \in S |-> CHOOSE ref \in W : outs[i] = Key(tx, ref)]
<1>1. N \in Nat /\ DOMAIN outs = 1..N
  BY DEF OutsFor, Entries
<1>2. W \subseteq OutputsOf(Mined(b))
  BY DEF Owned, OutputsOf
<1>3. \A ref, o \in W : Key(tx, ref) = Key(tx, o) => ref = o
  BY <1>2 DEF OneKey
<1>4. \A ref \in W : \E i \in 1..N : outs[i] = Key(tx, ref)
  BY <1>1 DEF OutsFor, ToSet
<1> HIDE DEF W, N
<1>5. \A i \in S : p[i] \in W /\ outs[i] = Key(tx, p[i])
  OBVIOUS
<1>6. ASSUME NEW ref \in W PROVE \E i \in S : p[i] = ref
  <2>1. PICK i \in 1..N : outs[i] = Key(tx, ref)
    BY <1>4
  <2>2. i \in S
    BY <2>1
  <2> HIDE DEF p, S
  <2>3. p[i] \in W /\ Key(tx, p[i]) = Key(tx, ref)
    BY <1>5, <2>1, <2>2
  <2> QED
    BY <1>3, <2>2, <2>3
<1>7. p \in Surjection(S, W)
  <2>1. p = [i \in S |-> p[i]]
    OBVIOUS
  <2> HIDE DEF p, S
  <2> QED
    BY <1>5, <1>6, <2>1 DEF Surjection
<1>8. IsFiniteSet(1..N)
  BY <1>1, FS_Interval
<1>9. IsFiniteSet(S)
  BY <1>8, FS_Subset
<1> HIDE DEF p, S
<1> QED
  BY <1>7, <1>9, FS_Surjection DEF W

\* One entry further, at most one more output is among them.
LEMMA PartGrows ==
    ASSUME NEW outs, NEW tx, NEW b, NEW a, OutsFor(outs, tx, b, a),
           OneKey(tx, OutputsOf(Mined(b)))
    PROVE  LET U == Unspent(b, a)
               part(n) == PartOf(outs, tx, U, n)
           IN  /\ Sats(part(0)) = 0 /\ part(Len(outs)) = U
               /\ \A n \in 1..Len(outs) :
                     /\ Sats(part(n)) \in Nat
                     /\ \A ref \in U : outs[n] = Key(tx, ref) =>
                           Sats(part(n)) = Sats(part(n - 1)) + Outs[ref[1]][ref[2]].sats
                     /\ (\A ref \in U : outs[n] # Key(tx, ref)) => part(n) = part(n - 1)
<1> DEFINE U == Unspent(b, a)
           part(n) == PartOf(outs, tx, U, n)
<1>1. Len(outs) \in Nat /\ DOMAIN outs = 1..Len(outs)
  BY DEF OutsFor, Entries
<1>2. U \subseteq Owned(b, a) /\ U \in SUBSET OutputRefs /\ U \subseteq OutputsOf(Mined(b))
  BY DEF Unspent, Owned, OutputsOf
<1>3. \A i, j \in 1..Len(outs) : outs[i] = outs[j] => i = j
  BY <1>1 DEF OutsFor, IsInjective
<1>4. \A ref, o \in U : Key(tx, ref) = Key(tx, o) => ref = o
  BY <1>2 DEF OneKey
<1>5. \A ref \in U : \E i \in 1..Len(outs) : outs[i] = Key(tx, ref)
  BY <1>1, <1>2 DEF OutsFor, ToSet
<1>6. IsFiniteSet(U)
  BY <1>2, OwnedFinite, FS_Subset
<1> HIDE DEF U
<1>7. \A n : part(n) \in SUBSET OutputRefs /\ part(n) \in SUBSET U
  BY <1>2 DEF PartOf
<1>8. \A n : IsFiniteSet(part(n))
  BY <1>6, <1>7, FS_Subset
<1>9. part(0) = {} /\ part(Len(outs)) = U
  BY <1>5 DEF PartOf
<1>10. \A n : Sats(part(n)) \in Nat
  <2> HIDE DEF part
  <2> QED
    BY <1>7, <1>8, SatsSplit
<1>11. Sats(part(0)) = 0
  <2> HIDE DEF part
  <2> QED
    BY <1>7, <1>8, <1>9, SatsSplit
<1>12. ASSUME NEW n \in 1..Len(outs), NEW ref \in U, outs[n] = Key(tx, ref)
       PROVE  Sats(part(n)) = Sats(part(n - 1)) + Outs[ref[1]][ref[2]].sats
  <2>1. n - 1 \in Nat /\ 1..n = (1..n - 1) \cup {n} /\ n \notin 1..n - 1
        /\ 1..n - 1 \subseteq 1..Len(outs)
    BY <1>1
  <2>2. ref \in part(n)
    BY <1>12, <2>1 DEF PartOf
  <2>3. \A o \in part(n) : o = ref \/ o \in part(n - 1)
    BY <1>4, <1>12, <2>1 DEF PartOf
  <2>4. ref \notin part(n - 1)
    BY <1>3, <1>12, <2>1 DEF PartOf
  <2>5. part(n - 1) \subseteq part(n)
    BY <2>1 DEF PartOf
  <2> HIDE DEF part
  <2>6. part(n) \ {ref} = part(n - 1)
    BY <2>2, <2>3, <2>4, <2>5
  <2>7. Sats(part(n)) = Outs[ref[1]][ref[2]].sats + Sats(part(n) \ {ref})
    BY <1>7, <1>8, <2>2, SatsSplit
  <2>8. Outs[ref[1]][ref[2]].sats \in Nat
    BY <1>2, RefType
  <2>9. Sats(part(n)) = Outs[ref[1]][ref[2]].sats + Sats(part(n - 1))
    BY <2>6, <2>7
  <2> QED
    BY <1>10, <2>8, <2>9
<1>13. ASSUME NEW n \in 1..Len(outs), \A ref \in U : outs[n] # Key(tx, ref)
       PROVE  part(n) = part(n - 1)
  <2>1. 1..n = (1..n - 1) \cup {n}
    BY <1>1
  <2> QED
    BY <1>13, <2>1 DEF PartOf
<1> QED
  BY <1>9, <1>10, <1>11, <1>12, <1>13 DEF U

\* The records on disk: those of unspent outputs count at the height of b, no others in the
\* list do.
LEMMA RecordCounts ==
    ASSUME AllInv, TableInv, ListInv, NEW b \in Chain[db.best], NEW a \in Addresses,
           NEW outs, OutsFor(outs, db.tx, b, a), NEW out \in ToSet(outs), out \in DOMAIN db.utxo
    PROVE  /\ \A ref \in Unspent(b, a) : out = Key(db.tx, ref) =>
                 /\ Counts(db.utxo[out], Height[b])
                 /\ db.utxo[out].sats = Outs[ref[1]][ref[2]].sats
           /\ (\A ref \in Unspent(b, a) : out # Key(db.tx, ref)) =>
                 ~Counts(db.utxo[out], Height[b])
<1> DEFINE top == db.best
           life == LifeOf(db.tx, top, Mined(top))
           R == OutputsOf(Mined(top))
<1>1. /\ top \in BlockOrNone /\ ExactTable(db.utxo, db.tx, db.address, top)
  BY DEF AllInv, FlushInv, TableInv
<1>2. PICK ref \in R : /\ Addressed(ref) /\ out = Key(db.tx, ref)
                       /\ db.utxo[out] = RecordIn(db.address[Payee(ref)], life, ref)
  <2>1. PICK ref \in {r \in R : Addressed(r)} : out = Key(db.tx, ref)
    BY <1>1 DEF ExactTable, Keys
  <2> HIDE DEF R, life, top
  <2> QED
    BY <1>1, <2>1 DEF ExactTable, R, life, top
<1>3. Mined(b) \subseteq Mined(top) /\ OneKey(db.tx, R) /\ Owned(b, a) \subseteq Owned(top, a)
  BY ChainKeys
<1>4. Counts(db.utxo[out], Height[b])
         <=> ref[1] \in Mined(b) /\ \A t \in Mined(b) : ref \notin ToSet(Ins[t])
  <2> DEFINE s == db.address[Payee(ref)]
  <2>1. Counts(RecordIn(s, life, ref), Height[b])
           <=> ref[1] \in Mined(b) /\ \A t \in Mined(b) : ref \notin ToSet(Ins[t])
    BY <1>1, CountsUnspent
  <2> HIDE DEF s, life
  <2> QED
    BY <1>2, <2>1 DEF s
<1>5. db.utxo[out].sats = Outs[ref[1]][ref[2]].sats
  <2>1. RecordIn(db.address[Payee(ref)], life, ref).sats = Outs[ref[1]][ref[2]].sats
    BY Zenon DEF RecordIn
  <2> HIDE DEF life
  <2> QED
    BY <1>2, <2>1
<1>6. Owned(top, a) \subseteq R
  BY DEF Owned, OutputsOf
<1> HIDE DEF life, top
<1>7. ASSUME NEW o \in Unspent(b, a), out = Key(db.tx, o)
      PROVE  /\ Counts(db.utxo[out], Height[b])
             /\ db.utxo[out].sats = Outs[o[1]][o[2]].sats
  <2>1. o \in Owned(b, a) /\ \A t \in Mined(b) : o \notin ToSet(Ins[t])
    BY DEF Unspent
  <2>2. o \in R /\ o[1] \in Mined(b)
    BY <1>3, <1>6, <2>1 DEF Owned
  <2> HIDE DEF R
  <2>3. o = ref
    BY <1>2, <1>3, <1>7, <2>2 DEF OneKey
  <2> QED
    BY <1>4, <1>5, <2>1, <2>2, <2>3
<1>8. ASSUME Counts(db.utxo[out], Height[b])
      PROVE  ref \in Unspent(b, a)
  <2>1. ref \in OutputsOf(Mined(b))
    BY <1>4, <1>8 DEF OutputsOf, R
  <2>2. ref \in Owned(b, a)
    BY <1>2, <2>1 DEF OutsFor
  <2> QED
    BY <1>4, <1>8, <2>2 DEF Unspent
<1> QED
  BY <1>2, <1>7, <1>8

\* The question stays the same while it is being answered.
SameQuestion(r, n) ==
    n.kind = r.kind /\ n.address = r.address /\ n.by = r.by /\ n.block = r.block

LEMMA PinnedBefore ==
    ASSUME NEW r, NEW n, SameQuestion(r, n), r.stage # "none", NEW b, NEW blocks, Pinned(n, b, blocks)
    PROVE  Pinned(r, b, blocks)
  BY DEF SameQuestion, Pinned

\* The last of the blocks noted is among them.
LEMMA LastIn ==
    ASSUME NEW s \in Seq(BlockOrNone), s # <<>>
    PROVE  Len(s) \in Nat \ {0} /\ Last(s) = s[Len(s)] /\ Last(s) \in Range(s)
<1>1. Len(s) \in Nat /\ DOMAIN s = 1..Len(s) /\ Len(s) # 0
  OBVIOUS
<1> QED
  BY <1>1 DEF Last, Range

\* So a block that stays is indexed.
LEMMA PinnedIndexed ==
    ASSUME FlushInv, DuringInv, during \in Seq(BlockOrNone), NEW b \in Blocks,
           Pinned(request, b, during)
    PROVE  b \in Chain[db.best] /\ request.address \in Addresses /\ request.kind = "balance"
  BY LastIn DEF DuringInv, Pinned

\* A question for the balance at b is answered from the indexed chain, if it has b.
LEMMA AskFollows ==
    ASSUME FlushInv, StayInv, AskBalance, NEW b \in Blocks, Pinned(request', b, during')
    PROVE  Follows(request', b, db, during', best)
<1>1. PICK q \in Questions :
         \/ /\ q.by = "height" /\ Height[q.block] > HeightOf(best)
            /\ request' = Asked(q, "failed")
         \/ /\ q.by = "height" /\ Height[q.block] <= HeightOf(best)
            /\ request' = [Asked(q, "blockHash") EXCEPT !.height = Height[q.block]]
         \/ /\ q.by = "hash" /\ q.block \in DOMAIN mem.seenBlock
            /\ request' = [Asked(q, "symbol") EXCEPT !.height = mem.seenBlock[q.block],
                                                     !.hash = q.block]
         \/ /\ q.by = "hash"
            /\ request' = [Asked(q, "blockSymbol") EXCEPT !.hash = q.block]
         \/ /\ q.by = "latest"
            /\ request' = [Asked(q, "symbol") EXCEPT !.height = HeightOf(best), !.hash = best]
  BY BalanceAsked
<1>2. ASSUME NEW stage
      PROVE  LET r == Asked(q, stage)
             IN  /\ DOMAIN r = DOMAIN NoRequest /\ r.stage = stage /\ r.by = q.by
                 /\ r.block = q.block /\ r.balance = 0
  BY DEF Asked, NoRequest
<1>3. /\ request'.by = "hash" => request'.block = b
      /\ request'.by = "height" => Height[request'.block] = Height[b]
      /\ request'.by \in {"hash", "height"}
  BY DEF Pinned
<1>4. CASE Height[q.block] > HeightOf(best) /\ q.by = "height" /\ request' = Asked(q, "failed")
  <2>1. request'.stage = "failed" /\ Height[b] > HeightOf(best)
    BY <1>2, <1>3, <1>4
  <2>2. b \notin Chain[best]
    <3>1. b \in Chain[best] => Height[b] <= HeightOf(best)
      BY ChainHeight DEF FlushInv
    <3>2. Height[b] \in Nat /\ HeightOf(best) \in Int
      BY BlockTreeAssumption DEF BlockTreeAssumption, BlockOrNone, FlushInv, HeightOf
    <3> QED
      BY <2>1, <3>1, <3>2
  <2> QED
    BY <2>1, <2>2 DEF Follows, Early
<1>5. CASE q.by = "height" /\ request' = [Asked(q, "blockHash") EXCEPT !.height = Height[q.block]]
  <2>1. /\ request'.stage = "blockHash" /\ request'.by = q.by /\ request'.block = q.block
        /\ request'.height = Height[q.block] /\ request'.balance = 0
    BY <1>2, <1>5 DEF NoRequest
  <2> QED
    BY <1>3, <1>5, <2>1 DEF Follows, Early
<1>6. CASE /\ q.by = "hash" /\ q.block \in DOMAIN mem.seenBlock
           /\ request' = [Asked(q, "symbol") EXCEPT !.height = mem.seenBlock[q.block],
                                                    !.hash = q.block]
  <2>1. /\ request'.stage = "symbol" /\ request'.by = q.by /\ request'.block = q.block
        /\ request'.height = mem.seenBlock[q.block] /\ request'.hash = q.block
        /\ request'.balance = 0
    BY <1>2, <1>6 DEF NoRequest
  <2>2. mem.seenBlock[q.block] = Height[q.block]
    BY <1>6 DEF StayInv, AskBalance, Requesting
  <2> QED
    BY <1>3, <1>6, <2>1, <2>2 DEF Follows, Early
<1>7. CASE q.by = "hash" /\ request' = [Asked(q, "blockSymbol") EXCEPT !.hash = q.block]
  <2>1. /\ request'.stage = "blockSymbol" /\ request'.by = q.by /\ request'.block = q.block
        /\ request'.hash = q.block /\ request'.balance = 0
    BY <1>2, <1>7 DEF NoRequest
  <2> QED
    BY <1>3, <1>7, <2>1 DEF Follows, Early
<1>8. CASE /\ q.by = "latest"
           /\ request' = [Asked(q, "symbol") EXCEPT !.height = HeightOf(best), !.hash = best]
  <2>1. request'.by = "latest"
    BY <1>2, <1>8 DEF NoRequest
  <2> QED
    BY <1>3, <2>1
<1> QED
  BY <1>1, <1>4, <1>5, <1>6, <1>7, <1>8

\* The height of b leads to b, and b to its height.
LEMMA BlockFollows ==
    ASSUME AllInv, HasRead(request), NEW b \in Chain[db.best], Follows(request, b, db, during, best),
           ReadBlockHash \/ ReadBlockSymbol
    PROVE  SameQuestion(request, request') /\ Follows(request', b, db, during, best)
<1>1. /\ db.at[Height[b]] = b /\ Height[b] \in DOMAIN db.at /\ b \in DOMAIN db.block
      /\ db.block[b] = Height[b]
  BY ChainKeys
<1>2. DOMAIN request = DOMAIN NoRequest
  BY DEF HasRead
<1>3. CASE ReadBlockHash
  <2>1. request.stage = "blockHash" /\ request.height = Height[b] /\ request.balance = 0
    BY <1>3 DEF ReadBlockHash, Requesting, Follows, Early
  <2>2. request' = [request EXCEPT !.hash = b, !.stage = "symbol"]
    BY <1>1, <1>3, <2>1 DEF ReadBlockHash
  <2>3. /\ request'.stage = "symbol" /\ request'.height = Height[b] /\ request'.hash = b
        /\ request'.balance = 0 /\ SameQuestion(request, request')
    BY <1>2, <2>1, <2>2 DEF NoRequest, SameQuestion
  <2> QED
    BY <2>3 DEF Follows
<1>4. CASE ReadBlockSymbol
  <2>1. request.stage = "blockSymbol" /\ request.hash = b /\ request.balance = 0
    BY <1>4 DEF ReadBlockSymbol, Requesting, Follows, Early
  <2>2. request' = [request EXCEPT !.height = Height[b], !.stage = "symbol"]
    BY <1>1, <1>4, <2>1 DEF ReadBlockSymbol
  <2>3. /\ request'.stage = "symbol" /\ request'.height = Height[b] /\ request'.hash = b
        /\ request'.balance = 0 /\ SameQuestion(request, request')
    BY <1>2, <2>1, <2>2 DEF NoRequest, SameQuestion
  <2> QED
    BY <2>3 DEF Follows
<1> QED
  BY <1>3, <1>4

\* The address has its symbol on disk.
LEMMA AddressFollows ==
    ASSUME AllInv, TableInv, StayInv, HasRead(request), NEW b \in Chain[db.best],
           request.address \in Addresses, Owned(b, request.address) # {},
           Follows(request, b, db, during, best), LookUpAddress
    PROVE  SameQuestion(request, request') /\ Follows(request', b, db, during, best)
<1> DEFINE a == request.address
<1>1. PICK ref : ref \in Owned(db.best, a)
  BY ChainKeys
<1>2. ref \in OutputsOf(Mined(db.best)) /\ Addressed(ref) /\ Payee(ref) = a
  <2>1. NoAddress \notin Addresses
    BY UtxoIndexerAssumption DEF UtxoIndexerAssumption
  <2> QED
    BY <1>1, <2>1 DEF Owned, OutputsOf, Addressed, Payee
<1>3. a \in DOMAIN db.address
  BY <1>2 DEF TableInv, ExactTable
<1>4. request.stage = "symbol" /\ pc # "aborted"
  BY DEF LookUpAddress, Requesting
<1>5. a \notin DOMAIN mem.seenAddress
  BY <1>3, <1>4 DEF StayInv
<1>7. AddressSymbol(mem, db, a) = db.address[a]
  BY <1>5 DEF AddressSymbol
<1>8. request' = [request EXCEPT !.symbol = db.address[a], !.stage = "list"]
  BY <1>7 DEF LookUpAddress
<1>9. /\ request.height = Height[b] /\ request.hash = b /\ request.balance = 0
  BY <1>4 DEF Follows, Early
<1>10. /\ request'.stage = "list" /\ request'.height = Height[b] /\ request'.hash = b
       /\ request'.balance = 0 /\ request'.symbol = db.address[a]
       /\ SameQuestion(request, request')
  BY <1>8, <1>9 DEF NoRequest, SameQuestion, HasRead
<1> QED
  BY <1>10 DEF Follows, SameQuestion, Early

\* The list of the address is one for the outputs up to b.
LEMMA ListFollows ==
    ASSUME AllInv, TableInv, ListInv, HasRead(request), CanGoOn(request), NEW b \in Chain[db.best],
           request.address \in Addresses, request.kind = "balance",
           Owned(b, request.address) # {},
           Follows(request, b, db, during, best), ReadList
    PROVE  SameQuestion(request, request') /\ Follows(request', b, db, during, best)
<1> DEFINE a == request.address
           top == db.best
           outs == db.list[db.address[a]].outs
           r == [request EXCEPT !.outs = outs, !.stage = "record"]
<1>1. /\ request.stage = "list" /\ request.symbol = db.address[a] /\ request.height = Height[b]
      /\ request.hash = b /\ request.balance = 0 /\ request.next = 1
      /\ DOMAIN request = DOMAIN NoRequest
  BY DEF ReadList, Requesting, Follows, CanGoOn, HasRead, Early
<1>2. Owned(b, a) \subseteq Owned(top, a) /\ Owned(top, a) # {}
  BY ChainKeys
<1>3. /\ db.address[a] \in DOMAIN db.list
      /\ outs \in Entries /\ IsInjective(outs)
      /\ ToSet(outs) = {Key(db.tx, ref) : ref \in Owned(top, a)}
  BY <1>2, ListedOutputs DEF Readable
<1>4. OneKey(db.tx, OutputsOf(Mined(top))) /\ Mined(b) \subseteq Mined(top)
  BY ChainKeys
<1> HIDE DEF outs
<1>5. request' = LoopedOver(r)
  BY <1>1, <1>3 DEF ReadList, ListOf, outs
<1>6. /\ r.stage = "record" /\ r.outs = outs /\ r.next = 1 /\ r.balance = 0
      /\ r.height = Height[b] /\ r.hash = b /\ SameQuestion(request, r)
  BY <1>1 DEF NoRequest, SameQuestion
<1>7. 1 <= Len(outs)
  <2>1. PICK e : e \in ToSet(outs)
    BY <1>2, <1>3
  <2>2. DOMAIN outs = 1..Len(outs) /\ Len(outs) \in Nat
    BY <1>3 DEF Entries
  <2> QED
    BY <2>1, <2>2 DEF ToSet
<1> HIDE DEF r
<1>8. request' = r
  BY <1>5, <1>6, <1>7 DEF LoopedOver
<1>9. OutsFor(outs, db.tx, b, a)
  <2>1. \A ref \in Owned(b, a) : Key(db.tx, ref) \in ToSet(outs)
    BY <1>2, <1>3
  <2>2. ASSUME NEW ref \in OutputsOf(Mined(b)), Key(db.tx, ref) \in ToSet(outs)
        PROVE  ref \in Owned(b, a)
    <3>1. PICK o \in Owned(top, a) : Key(db.tx, ref) = Key(db.tx, o)
      BY <1>3, <2>2
    <3>2. o \in OutputsOf(Mined(top)) /\ ref \in OutputsOf(Mined(top)) /\ ref[1] \in Mined(b)
      BY <1>4 DEF Owned, OutputsOf
    <3>3. ref = o
      BY <1>4, <3>1, <3>2 DEF OneKey
    <3> QED
      BY <3>2, <3>3 DEF Owned
  <2> QED
    BY <1>3, <2>1, <2>2 DEF OutsFor
<1>10. Sats(PartOf(outs, db.tx, Unspent(b, a), 0)) = 0
  <2>1. OneKey(db.tx, OutputsOf(Mined(b)))
    BY ChainKeys
  <2> QED
    BY <1>9, <2>1, PartGrows
<1>11. \A e \in ToSet(outs) : \E ref \in Owned(top, a) : e = Key(db.tx, ref)
  BY <1>3
<1>12. r.address = a /\ r.next - 1 = 0
  BY <1>6 DEF SameQuestion
<1> HIDE DEF a, top
<1>13. Follows(r, b, db, during, best)
  BY <1>6, <1>9, <1>10, <1>11, <1>12 DEF Follows, Early, top
<1> QED
  BY <1>6, <1>8, <1>13

\* Each record adds what the output holds, if it is unspent at b and nothing otherwise; only
\* if a block has left meanwhile can it be missing.
LEMMA RecordFollows ==
    ASSUME AllInv, TableInv, ListInv, RecordInv, HasRead(request), CanGoOn(request),
           NEW b \in Chain[db.best],
           request.address \in Addresses, request.kind = "balance",
           Owned(b, request.address) # {},
           Follows(request, b, db, during, best), ReadRecord
    PROVE  SameQuestion(request, request') /\ Follows(request', b, db, during, best)
<1> DEFINE a == request.address
           top == db.best
           outs == request.outs
           n == request.next
           out == outs[n]
           part(k) == PartOf(outs, db.tx, Unspent(b, a), k)
<1>1. /\ request.stage = "record" /\ request.height = Height[b] /\ request.hash = b
      /\ OutsFor(outs, db.tx, b, a) /\ request.balance = Sats(part(n - 1))
      /\ Grew(during) => \A e \in ToSet(outs) : \E ref \in Owned(top, a) : e = Key(db.tx, ref)
      /\ DOMAIN request = DOMAIN NoRequest
  BY DEF ReadRecord, Requesting, Follows, HasRead, Early
<1>2. /\ outs \in Entries /\ n \in 1..Len(outs) /\ Len(outs) \in Nat /\ out \in ToSet(outs)
      /\ request.balance \in Nat
  <2>1. outs \in Entries /\ n \in 1 .. Len(outs) + 1 /\ n <= Len(outs) /\ request.balance \in Nat
    BY <1>1 DEF HasRead, CanGoOn
  <2>2. DOMAIN outs = 1..Len(outs) /\ Len(outs) \in Nat
    BY <2>1 DEF Entries
  <2>3. n \in 1..Len(outs)
    BY <2>1, <2>2
  <2> QED
    BY <2>1, <2>2, <2>3 DEF ToSet
<1>3. OneKey(db.tx, OutputsOf(Mined(b))) /\ Owned(b, a) \subseteq Owned(top, a)
  BY ChainKeys
<1>4. CASE out \notin DOMAIN db.utxo
  <2>1. request' = [request EXCEPT !.stage = "failed"]
    BY <1>4 DEF ReadRecord, LoopThrows, Failed
  <2>2. request'.stage = "failed" /\ SameQuestion(request, request')
    BY <1>1, <2>1 DEF NoRequest, SameQuestion
  <2>3. ~Grew(during)
    <3>1. ASSUME NEW ref \in Owned(top, a), out = Key(db.tx, ref) PROVE FALSE
      <4>1. /\ ToSet(db.list[db.address[a]].outs) \subseteq DOMAIN db.utxo
            /\ out \in ToSet(db.list[db.address[a]].outs)
        BY <3>1, ListedOutputs DEF Readable
      <4> QED
        BY <1>4, <4>1
    <3> QED
      BY <1>1, <1>2, <3>1
  <2> QED
    BY <2>2, <2>3 DEF Follows, Early
<1>5. CASE out \in DOMAIN db.utxo
  <2> DEFINE record == db.utxo[out]
             w == WithRecord(request, record, out)
             next == [w EXCEPT !.next = @ + 1]
  <2>1. request' = LoopedOver(next)
    BY <1>5 DEF ReadRecord
  <2>2. record \in Records
    BY <1>5 DEF RecordInv, Readies
  <2>3. /\ Counts(record, Height[b]) => w = [request EXCEPT !.balance = @ + record.sats]
        /\ ~Counts(record, Height[b]) => w = request
    BY <1>1 DEF WithRecord
  <2>4. /\ \A ref \in Unspent(b, a) : out = Key(db.tx, ref) =>
              /\ Counts(record, Height[b]) /\ record.sats = Outs[ref[1]][ref[2]].sats
        /\ (\A ref \in Unspent(b, a) : out # Key(db.tx, ref)) => ~Counts(record, Height[b])
    BY <1>1, <1>2, <1>5, RecordCounts
  <2>5. /\ Sats(part(n)) \in Nat /\ part(Len(outs)) = Unspent(b, a)
        /\ \A ref \in Unspent(b, a) : out = Key(db.tx, ref) =>
              Sats(part(n)) = Sats(part(n - 1)) + Outs[ref[1]][ref[2]].sats
        /\ (\A ref \in Unspent(b, a) : out # Key(db.tx, ref)) => part(n) = part(n - 1)
    BY <1>1, <1>2, <1>3, PartGrows
  <2> HIDE DEF record, w, part
  <2>6. /\ DOMAIN w = DOMAIN NoRequest /\ w.stage = "record" /\ w.height = Height[b]
        /\ w.hash = b /\ w.outs = outs /\ w.next = n /\ SameQuestion(request, w)
        /\ w.balance = IF Counts(record, Height[b]) THEN request.balance + record.sats
                       ELSE request.balance
    BY <1>1, <2>3 DEF NoRequest, SameQuestion
  <2>7. w.balance = Sats(part(n))
    <3>1. CASE \E ref \in Unspent(b, a) : out = Key(db.tx, ref)
      BY <1>1, <2>4, <2>5, <2>6, <3>1
    <3>2. CASE \A ref \in Unspent(b, a) : out # Key(db.tx, ref)
      BY <1>1, <2>4, <2>5, <2>6, <3>2
    <3> QED
      BY <3>1, <3>2
  <2>8. /\ next.stage = "record" /\ next.height = Height[b] /\ next.hash = b
        /\ next.outs = outs /\ next.next = n + 1 /\ SameQuestion(request, next)
        /\ next.balance = Sats(part(n)) /\ DOMAIN next = DOMAIN NoRequest
    BY <2>6, <2>7 DEF NoRequest, SameQuestion
  <2> HIDE DEF next
  <2>9. CASE n + 1 <= Len(outs)
    <3>1. request' = next
      BY <2>1, <2>8, <2>9 DEF LoopedOver
    <3>2. next.address = a /\ next.next - 1 = n
      BY <1>2, <2>8 DEF SameQuestion
    <3>3. Follows(next, b, db, during, best)
      BY <1>1, <2>8, <3>2 DEF Follows, Early, part
    <3> QED
      BY <2>8, <3>1, <3>3
  <2>10. CASE ~(n + 1 <= Len(outs))
    <3>1. request' = [next EXCEPT !.stage = "answered"]
      BY <2>1, <2>8, <2>10 DEF LoopedOver, SameQuestion
    <3>2. n = Len(outs)
      BY <1>2, <2>10
    <3>3. next.balance = Ledger(b, a)
      BY <2>5, <2>8, <3>2 DEF Ledger, Sats
    <3>4. /\ request'.stage = "answered" /\ request'.height = Height[b] /\ request'.hash = b
          /\ request'.balance = Ledger(b, a) /\ SameQuestion(request, request')
          /\ request'.address = a
      BY <2>8, <3>1, <3>3 DEF NoRequest, SameQuestion
    <3> QED
      BY <3>4 DEF Follows, Early
  <2> QED
    BY <2>9, <2>10
<1> QED
  BY <1>4, <1>5

\* What a step of the indexer does to the blocks noted.
LEMMA DuringGoesOn ==
    ASSUME FlushInv, FlushInv', DuringInv, during \in Seq(BlockOrNone), IndexerSteps,
           request'.stage # "none"
    PROVE  /\ request' = request /\ request.stage \notin {"answered", "failed"}
           /\ during' # <<>> /\ Last(during') = db'.best
           /\ Range(during) \subseteq Range(during') /\ db'.best \in Range(during')
           /\ Grew(during') => Grew(during) /\ (db'.best = db.best \/ db.best \in Chain[db'.best])
<1>1. request' = request /\ request.stage \notin {"answered", "failed"}
  BY DEF IndexerSteps, NoRequest, Done
<1>2. /\ during # <<>> /\ Last(during) = db.best /\ db'.best \in BlockOrNone
      /\ \/ db'.best = Last(during) /\ during' = during
         \/ during' = Append(during, db'.best)
  BY <1>1, Zenon DEF IndexerSteps, DuringInv, FlushInv
<1>3. /\ Len(during) \in Nat \ {0} /\ Last(during) = during[Len(during)]
      /\ Last(during) \in Range(during)
  BY <1>2, LastIn
<1>4. CASE db'.best = Last(during) /\ during' = during
  BY <1>1, <1>2, <1>3, <1>4
<1>5. CASE during' = Append(during, db'.best)
  <2> DEFINE N == Len(during)
  <2>1. /\ during' \in Seq(BlockOrNone) /\ Len(during') = N + 1 /\ during'[N + 1] = db'.best
        /\ \A i \in 1..N : during'[i] = during[i]
        /\ DOMAIN during = 1..N /\ DOMAIN during' = 1..N + 1 /\ N \in Nat \ {0}
    BY <1>2, <1>3, <1>5
  <2>2. during[N] = db.best
    BY <1>2, <1>3
  <2> HIDE DEF N
  <2>3. during' # <<>> /\ Last(during') = db'.best
    BY <2>1 DEF Last
  <2>4. Range(during) \subseteq Range(during') /\ db'.best \in Range(during')
    <3>1. \A i \in 1..N : i \in 1..N + 1
      BY <2>1
    <3>2. N + 1 \in 1..N + 1
      BY <2>1
    <3> QED
      BY <2>1, <3>1, <3>2 DEF Range
  <2>5. ASSUME Grew(during')
        PROVE  Grew(during) /\ db.best \in Chain[db'.best]
    <3>1. \A i \in 1..N : during'[i] \in Chain[during'[i + 1]]
      BY <2>1, <2>5 DEF Grew
    <3>2. \A i \in 1..N - 1 : i \in 1..N /\ i + 1 \in 1..N
      BY <2>1
    <3>3. Grew(during)
      BY <2>1, <3>1, <3>2 DEF Grew, N
    <3>4. N \in 1..N
      BY <2>1
    <3> QED
      BY <2>1, <2>2, <3>1, <3>3, <3>4
  <2> QED
    BY <1>1, <2>3, <2>4, <2>5
<1> QED
  BY <1>2, <1>4, <1>5

\* A list stays one for the outputs up to b, as the transactions up to b keep their symbols.
LEMMA OutsStay ==
    ASSUME NEW tx, NEW tx2, NEW b, \A t \in Mined(b) : tx2[t] = tx[t],
           NEW outs, NEW a, OutsFor(outs, tx, b, a)
    PROVE  /\ OutsFor(outs, tx2, b, a)
           /\ \A n : PartOf(outs, tx2, Unspent(b, a), n) = PartOf(outs, tx, Unspent(b, a), n)
<1>1. \A ref \in Owned(b, a) : Key(tx2, ref) = Key(tx, ref)
  BY DEF Owned, Key
<1>2. \A ref \in OutputsOf(Mined(b)) : Key(tx2, ref) = Key(tx, ref)
  BY DEF OutputsOf, Key
<1> QED
  BY <1>1, <1>2 DEF OutsFor, PartOf, Unspent

\* Steps of the indexer leave what was found out about a block that stays as it is.
LEMMA IndexerFollows ==
    ASSUME AllInv, AllInv', TableInv, ListInv, StayInv, DuringInv, HistInv,
           during \in Seq(BlockOrNone), [Next]_vars, IndexerSteps,
           NEW b \in Blocks, Pinned(request', b, during')
    PROVE  Follows(request', b, db', during', best')
<1> DEFINE a == request.address
<1>1. request'.stage # "none"
  BY DEF Pinned
<1>2. FlushInv /\ FlushInv' /\ SymbolInv
  BY DEF AllInv
<1>3. /\ request' = request /\ request.stage \notin {"answered", "failed"}
      /\ during' # <<>> /\ Last(during') = db'.best
      /\ Range(during) \subseteq Range(during') /\ db'.best \in Range(during')
      /\ Grew(during') => Grew(during) /\ (db'.best = db.best \/ db.best \in Chain[db'.best])
  BY <1>1, <1>2, DuringGoesOn
<1>4. Pinned(request, b, during) /\ b \in Chain[db'.best]
  BY <1>3 DEF Pinned
<1>5. Follows(request, b, db, during, best)
  BY <1>4 DEF HistInv
<1>6. b \in Chain[db.best] /\ a \in Addresses
  BY <1>2, <1>4, PinnedIndexed
<1>7. /\ \A c \in Chain[db.best] \cap Chain[db'.best] :
            \A t \in Mined(c) : t \in DOMAIN db.tx /\ db'.tx[t] = db.tx[t]
      /\ \A x \in DOMAIN db.address : x \in DOMAIN db'.address /\ db'.address[x] = db.address[x]
  BY <1>2, SymbolsPersist
<1>8. \A t \in Mined(b) : db'.tx[t] = db.tx[t]
  BY <1>4, <1>6, <1>7
<1>9. db'.address[a] = db.address[a]
  <2>1. PICK ref : ref \in Owned(db.best, a)
    BY <1>4, <1>6, ChainKeys DEF Pinned
  <2>2. NoAddress \notin Addresses
    BY UtxoIndexerAssumption DEF UtxoIndexerAssumption
  <2>3. ref \in OutputsOf(Mined(db.best)) /\ Addressed(ref) /\ Payee(ref) = a
    BY <1>6, <2>1, <2>2 DEF Owned, OutputsOf, Addressed, Payee
  <2>4. a \in DOMAIN db.address
    BY <2>3 DEF TableInv, ExactTable
  <2> QED
    BY <1>7, <2>4
<1>10. ASSUME Grew(during'), NEW e, NEW ref \in Owned(db.best, a), e = Key(db.tx, ref)
       PROVE  \E o \in Owned(db'.best, a) : e = Key(db'.tx, o)
  <2>1. db.best \in Chain[db.best] /\ db.best \in Blocks
    BY <1>6, ChainKeys
  <2>2. db.best \in Chain[db'.best]
    BY <1>3, <1>10, <2>1
  <2>3. ref[1] \in Mined(db.best)
    BY DEF Owned
  <2>4. Key(db'.tx, ref) = Key(db.tx, ref)
    BY <1>7, <2>1, <2>2, <2>3 DEF Key
  <2>5. Chain[db.best] \subseteq Chain[db'.best]
    BY <1>2, <2>2, ChainBefore DEF FlushInv
  <2>6. ref \in Owned(db'.best, a)
    BY <2>5 DEF Owned, Mined
  <2> QED
    BY <1>10, <2>4, <2>6
<1>11. request.stage = "record" =>
          /\ OutsFor(request.outs, db'.tx, b, a)
          /\ Grew(during') => \A e \in ToSet(request.outs) :
                \E ref \in Owned(db'.best, a) : e = Key(db'.tx, ref)
          /\ request.balance = Sats(PartOf(request.outs, db'.tx, Unspent(b, a), request.next - 1))
  <2> SUFFICES ASSUME request.stage = "record"
               PROVE  /\ OutsFor(request.outs, db'.tx, b, a)
                      /\ Grew(during') => \A e \in ToSet(request.outs) :
                            \E ref \in Owned(db'.best, a) : e = Key(db'.tx, ref)
                      /\ request.balance
                            = Sats(PartOf(request.outs, db'.tx, Unspent(b, a), request.next - 1))
    OBVIOUS
  <2>1. /\ OutsFor(request.outs, db.tx, b, a)
        /\ Grew(during) => \A e \in ToSet(request.outs) :
              \E ref \in Owned(db.best, a) : e = Key(db.tx, ref)
        /\ request.balance = Sats(PartOf(request.outs, db.tx, Unspent(b, a), request.next - 1))
    BY <1>5 DEF Follows
  <2>2. /\ OutsFor(request.outs, db'.tx, b, a)
        /\ PartOf(request.outs, db'.tx, Unspent(b, a), request.next - 1)
              = PartOf(request.outs, db.tx, Unspent(b, a), request.next - 1)
    <3> DEFINE tx == db.tx
               tx2 == db'.tx
               outs == request.outs
    <3>1. (\A t \in Mined(b) : tx2[t] = tx[t]) /\ OutsFor(outs, tx, b, a)
      BY <1>8, <2>1
    <3> HIDE DEF a, tx, tx2, outs
    <3>2. /\ OutsFor(outs, tx2, b, a)
          /\ \A n : PartOf(outs, tx2, Unspent(b, a), n) = PartOf(outs, tx, Unspent(b, a), n)
      BY <3>1, OutsStay
    <3> QED
      BY <3>2 DEF a, tx, tx2, outs
  <2>3. Grew(during') => \A e \in ToSet(request.outs) :
           \E ref \in Owned(db'.best, a) : e = Key(db'.tx, ref)
    BY <1>3, <1>10, <2>1
  <2> QED
    BY <2>1, <2>2, <2>3
<1> QED
  BY <1>3, <1>5, <1>9, <1>11 DEF Follows

\* Reads keep the question.
LEMMA ReadsSameQuestion ==
    ASSUME HasRead(request), ReadBlockHash \/ ReadBlockSymbol \/ LookUpAddress \/ ReadList
                             \/ ReadRecord \/ ReadTxHash
    PROVE  SameQuestion(request, request')
<1>1. DOMAIN request = DOMAIN NoRequest
  BY DEF HasRead
<1>2. CASE ReadBlockHash \/ ReadBlockSymbol \/ LookUpAddress \/ ReadTxHash
  BY <1>1, <1>2 DEF ReadBlockHash, ReadBlockSymbol, LookUpAddress, ReadTxHash, Failed, NoRequest,
                    SameQuestion
<1>3. CASE ReadList \/ ReadRecord
  <2> DEFINE out == request.outs[request.next]
             n == [WithRecord(request, db.utxo[out], out) EXCEPT !.next = @ + 1]
             r == [request EXCEPT !.outs = ListOf(db, request.symbol).outs, !.stage = "record"]
  <2>1. request' \in {LoopThrows(request), LoopedOver(n), LoopedOver(r)}
    BY <1>3 DEF ReadList, ReadRecord
  <2>2. SameQuestion(request, n) /\ DOMAIN n = DOMAIN NoRequest
    BY <1>1 DEF WithRecord, NoRequest, SameQuestion
  <2>3. SameQuestion(request, r) /\ DOMAIN r = DOMAIN NoRequest
    BY <1>1 DEF NoRequest, SameQuestion
  <2>4. ASSUME NEW x, DOMAIN x = DOMAIN NoRequest
        PROVE  SameQuestion(x, LoopThrows(x)) /\ SameQuestion(x, LoopedOver(x))
    BY <2>4 DEF LoopThrows, LoopedOver, Labelled, Failed, NoRequest, SameQuestion
  <2> HIDE DEF n, r
  <2>5. /\ SameQuestion(request, LoopThrows(request)) /\ SameQuestion(n, LoopedOver(n))
        /\ SameQuestion(r, LoopedOver(r))
    BY <1>1, <2>2, <2>3, <2>4
  <2> QED
    BY <2>1, <2>2, <2>3, <2>5 DEF SameQuestion
<1> QED
  BY <1>2, <1>3

\* Every step notes the block the database is at,
LEMMA DuringInvNext ==
    FlushInv /\ FlushInv' /\ RequestInv /\ HasReadInv /\ DuringInv /\ [AccountNext]_accountVars
        /\ ~Query => DuringInv'
<1> SUFFICES ASSUME FlushInv, FlushInv', RequestInv, HasReadInv, DuringInv,
                    [AccountNext]_accountVars, ~Query
             PROVE  DuringInv'
  OBVIOUS
<1>1. DOMAIN request = DOMAIN NoRequest /\ during \in Seq(BlockOrNone)
  BY DEF HasReadInv, HasRead
<1>2. <<db.best>> # <<>> /\ Last(<<db.best>>) = db.best
  BY DEF Last
<1>3. CASE AskBalance
  <2>1. PICK q \in Questions :
           \/ request' = Asked(q, "failed")
           \/ \E h : request' = [Asked(q, "blockHash") EXCEPT !.height = h]
           \/ \E h, b : request' = [Asked(q, "symbol") EXCEPT !.height = h, !.hash = b]
           \/ \E b : request' = [Asked(q, "blockSymbol") EXCEPT !.hash = b]
    BY <1>3, BalanceAsked, ZenonT(30)
  <2>2. request'.address \in Addresses
    BY <2>1, AskedType DEF NoRequest
  <2> QED
    BY <1>2, <1>3, <2>2 DEF DuringInv, AskBalance, vars
<1>4. CASE AskCoins
  <2>1. PICK q \in Questions : request' = Asked(q, "symbol")
    BY <1>4 DEF AskCoins
  <2>2. request'.address \in Addresses
    BY <2>1, AskedType
  <2> QED
    BY <1>2, <1>4, <2>2 DEF DuringInv, AskCoins, vars
<1>5. CASE ReadBlockHash \/ ReadBlockSymbol \/ LookUpAddress \/ ReadList \/ ReadRecord \/ ReadTxHash
  <2>1. SameQuestion(request, request')
    BY <1>5, ReadsSameQuestion DEF HasReadInv
  <2>2. request.stage # "none" /\ db' = db /\ during' = during
    BY <1>5 DEF ReadBlockHash, ReadBlockSymbol, LookUpAddress, ReadList, ReadRecord, ReadTxHash,
                Requesting, vars
  <2> QED
    BY <2>1, <2>2 DEF DuringInv, SameQuestion
<1>6. CASE Answer
  BY <1>6 DEF Answer, DuringInv, NoRequest
<1>7. CASE IndexerSteps
  BY <1>1, <1>7, DuringGoesOn DEF DuringInv
<1>8. CASE UNCHANGED accountVars
  BY <1>8 DEF accountVars, DuringInv
<1> QED
  BY <1>3, <1>4, <1>5, <1>6, <1>7, <1>8, EarlySteps DEF AccountNext, Request

\* and keeps what a request has found out.
LEMMA HistInvNext ==
    AllInv /\ AllInv' /\ RecordInv /\ TableInv /\ ListInv /\ StayInv /\ RequestInv /\ HasReadInv
        /\ DuringInv /\ HistInv /\ [AccountNext]_accountVars /\ ~Query => HistInv'
<1> SUFFICES ASSUME AllInv, AllInv', RecordInv, TableInv, ListInv, StayInv, RequestInv, HasReadInv,
                    DuringInv, HistInv, [AccountNext]_accountVars, ~Query,
                    NEW b \in Blocks, Pinned(request', b, during')
             PROVE  Follows(request', b, db', during', best')
  BY DEF HistInv
<1>1. HasRead(request) /\ CanGoOn(request) /\ during \in Seq(BlockOrNone) /\ FlushInv
  BY DEF HasReadInv, AllInv
<1>2. Pinned(request, b, during) =>
        /\ b \in Chain[db.best] /\ request.address \in Addresses /\ request.kind = "balance"
        /\ Owned(b, request.address) # {} /\ Follows(request, b, db, during, best)
  BY <1>1, PinnedIndexed DEF HistInv, Pinned
<1>3. CASE AskBalance
  <2>1. Follows(request', b, db, during', best)
    BY <1>1, <1>3, AskFollows
  <2>2. db' = db /\ best' = best
    BY <1>3 DEF AskBalance, vars
  <2> QED
    BY <2>1, <2>2
<1>4. CASE AskCoins
  <2>1. PICK q \in Questions : q.kind = "coins" /\ request' = Asked(q, "symbol")
    BY <1>4 DEF AskCoins
  <2>2. request'.kind = "coins"
    BY <2>1 DEF Asked, NoRequest
  <2> QED
    BY <2>2 DEF Pinned
<1>5. CASE ReadBlockHash \/ ReadBlockSymbol \/ LookUpAddress \/ ReadList \/ ReadRecord \/ ReadTxHash
  <2>1. db' = db /\ best' = best /\ during' = during /\ request.stage # "none"
    BY <1>5 DEF ReadBlockHash, ReadBlockSymbol, LookUpAddress, ReadList, ReadRecord, ReadTxHash,
                Requesting, vars
  <2>2. SameQuestion(request, request')
    BY <1>1, <1>5, ReadsSameQuestion
  <2>3. Pinned(request, b, during)
    BY <2>1, <2>2, PinnedBefore
  <2>4. /\ b \in Chain[db.best] /\ request.address \in Addresses /\ request.kind = "balance"
        /\ Owned(b, request.address) # {} /\ Follows(request, b, db, during, best)
    BY <1>2, <2>3
  <2>5. CASE ReadBlockHash \/ ReadBlockSymbol
    BY <1>1, <2>1, <2>4, <2>5, BlockFollows
  <2>6. CASE LookUpAddress
    BY <1>1, <2>1, <2>4, <2>6, AddressFollows
  <2>7. CASE ReadList
    BY <1>1, <2>1, <2>4, <2>7, ListFollows
  <2>8. CASE ReadRecord
    BY <1>1, <2>1, <2>4, <2>8, RecordFollows
  <2>9. CASE ReadTxHash
    BY <2>4, <2>9 DEF ReadTxHash, Requesting, Follows
  <2> QED
    BY <1>5, <2>5, <2>6, <2>7, <2>8, <2>9
<1>6. CASE Answer
  BY <1>6 DEF Answer, Pinned, NoRequest
<1>7. CASE IndexerSteps
  <2>1. [Next]_vars
    BY RequestStep
  <2> QED
    BY <1>1, <1>7, <2>1, IndexerFollows
<1>8. CASE UNCHANGED accountVars
  BY <1>2, <1>8 DEF accountVars
<1> QED
  BY <1>3, <1>4, <1>5, <1>6, <1>7, <1>8, EarlySteps DEF AccountNext, Request

\* The invariant that all this makes.
AnsweredInv ==
    /\ AllInv /\ RecordInv /\ TypedInv /\ RequestInv /\ HasReadInv
    /\ Plain /\ NoEarly => TableInv /\ ListInv /\ StayInv /\ DuringInv /\ HistInv

LEMMA AnsweredInvInit == AccountInit => AnsweredInv
<1> SUFFICES ASSUME AccountInit PROVE AnsweredInv
  OBVIOUS
<1>1. Init /\ request = NoRequest /\ during = <<>>
  BY DEF AccountInit
<1>2. AllInv /\ RecordInv /\ TypedInv /\ StayInv /\ (Plain => TableInv /\ ListInv)
  BY <1>1, FlushInvInit, SafeInvInit, BudgetInvInit, SymbolInvInit, EarlyInvInit, RecordInvInit,
     TypedInvInit, TableInvInit, ListInvInit, StayInvInit DEF AllInv, Plain
<1>3. RequestInv /\ HasReadInv
  BY <1>1, RequestInvInit, NoRequestHasRead DEF HasReadInv
<1>4. DuringInv /\ HistInv
  BY <1>1 DEF DuringInv, HistInv, Pinned, NoRequest
<1> QED
  BY <1>2, <1>3, <1>4 DEF AnsweredInv

LEMMA AnsweredInvNext == AnsweredInv /\ [AccountNext]_accountVars => AnsweredInv'
<1> SUFFICES ASSUME AnsweredInv, [AccountNext]_accountVars PROVE AnsweredInv'
  OBVIOUS
<1>1. AllInv /\ RecordInv /\ TypedInv /\ RequestInv /\ HasReadInv
  BY DEF AnsweredInv
<1>2. [Next]_vars
  BY <1>1, RequestStep
<1>3. AllInv' /\ RecordInv' /\ TypedInv'
  BY <1>1, <1>2, FlushInvNext, SafeInvNext, BudgetInvNext, SymbolInvNext, EarlyInvNext,
     RecordInvNext, TypedInvNext DEF AllInv
<1>4. RequestInv' /\ HasReadInv'
  BY <1>1, <1>3, RequestInvStep, HasReadStep DEF AllInv
<1>5. Plain' <=> Plain
  BY DEF Plain, Ordinary, SpendsOlder, PaysOnce, OutputsOf, Addressed, Payee
<1>6. ASSUME Plain, NoEarly'
      PROVE  TableInv' /\ ListInv' /\ StayInv' /\ DuringInv' /\ HistInv'
  <2>6. NoEarly /\ ~Query
    BY <1>1, <1>2, <1>6, NoEarlyStep DEF AllInv
  <2>1. TableInv /\ ListInv /\ StayInv /\ DuringInv /\ HistInv
    BY <1>6, <2>6 DEF AnsweredInv
  <2>2. TableInv' /\ ListInv'
    BY <1>1, <1>2, <1>6, <2>1, <2>6, TableInvNext, ListInvNext DEF Plain
  <2>3. StayInv'
    BY <1>1, <1>2, <1>6, <2>1, <2>2, <2>6, StayInvNext
  <2>4. DuringInv'
    BY <1>1, <1>3, <2>1, <2>6, DuringInvNext DEF AllInv
  <2>5. HistInv'
    BY <1>1, <1>3, <2>1, <2>6, HistInvNext
  <2> QED
    BY <2>2, <2>3, <2>4, <2>5
<1> QED
  BY <1>1, <1>3, <1>4, <1>5, <1>6 DEF AnsweredInv

\* An answer is what was found out about its block.
LEMMA AnsweredAtBlock ==
    AllInv /\ RequestInv /\ HasReadInv /\ DuringInv /\ HistInv => HistoryAnswered
<1> SUFFICES ASSUME AllInv, HistInv, Done, request.kind = "balance",
                    NEW b \in Blocks, AsksFor(b), Stays(b), Owned(b, request.address) # {}
             PROVE  \/ /\ request.stage = "answered"
                       /\ request.height = Height[b]
                       /\ request.hash = b
                       /\ request.balance = Ledger(b, request.address)
                    \/ request.stage = "failed" /\ ~OnlyGrew
  BY DEF HistoryAnswered
<1>1. request.stage \in {"answered", "failed"}
  BY DEF Done
<1>2. Pinned(request, b, during)
  BY <1>1 DEF Pinned, AsksFor, Stays
<1>3. Follows(request, b, db, during, best)
  BY <1>2 DEF HistInv
<1>4. OnlyGrew <=> Grew(during)
  BY DEF OnlyGrew, Grew
<1> QED
  BY <1>1, <1>3, <1>4 DEF Follows, Stays

\* As long as no client has asked for an address before the indexer knew it, and no block is
\* taken back or none spends what it makes and none pays an address twice: a balance asked for
\* at a block that stays indexed is the one the chain gives there (HistoryAnswered). The list is
\* read once, each record from whatever state the tables are in by then, with blocks added,
\* flushed and taken back in between, and symbols used again; only where a block leaves can the
\* request fail instead (Indexer.js:1126-1204).
THEOREM RequestsSeeHistory == AccountSpec => [](Plain => HistoryAnswered)
<1>1. AnsweredInv => (Plain => HistoryAnswered)
  <2>1. CASE NoEarly
    BY <2>1, AnsweredAtBlock DEF AnsweredInv
  <2>2. CASE ~NoEarly
    BY <2>2 DEF HistoryAnswered
  <2> QED
    BY <2>1, <2>2
<1> QED
  BY <1>1, AnsweredInvInit, AnsweredInvNext, PTL DEF AccountSpec

------------------------------------------------------------------------------
(* Answers that name no block that stays *)

\* No other address has symbol s, on disk, in the batch in flight or waiting, and none will
\* get it.
OnlyFor(s, a) ==
    /\ s \in Nat
    /\ \A x \in DOMAIN db.address : db.address[x] = s => x = a
    /\ Flushing => \A x \in DOMAIN inflight.ops.address : inflight.ops.address[x] = s => x = a
    /\ pc # "aborted" =>
          /\ s <= mem.lastAddress
          /\ \A x \in DOMAIN mem.ops.address : mem.ops.address[x] = s => x = a

\* The symbols in the cache of addresses are in the batch in flight or wait for the next one.
CachedInv ==
    Flushing => \A x \in DOMAIN mem.seenAddress :
       \/ x \in DOMAIN mem.ops.address /\ mem.ops.address[x] = mem.seenAddress[x]
       \/ x \in DOMAIN inflight.ops.address /\ inflight.ops.address[x] = mem.seenAddress[x]

\* One of the blocks is on the chain of the other.
OnOneChain(b, c) == b \in Chain[c] \cup {NoBlock} \/ c \in Chain[b] \cup {NoBlock}

\* A request that asks for no block, about tables that only grew.
Latest == request.stage # "none" /\ request.by = "latest" /\ Grew(during)

\* The tip a latest balance names stays on one chain with what is on disk, and on that of the
\* tip until a block is taken back, which the next write then shows.
TipInv ==
    Latest /\ request.kind = "balance" =>
       /\ request.height = HeightOf(request.hash)
       /\ OnOneChain(request.hash, db.best)
       /\ \/ request.hash \in Chain[best] \cup {NoBlock}
          \/ pc = "flush" /\ db.best \in Blocks /\ best = Parent[db.best]
          \/ pc = "aborted"

\* An output with its amount, as a coin and as what the loop found.
Paid(ref) == <<ref[1], ref[2], Outs[ref[1]][ref[2]].sats>>
Entry(tx, ref) == <<tx[ref[1]], ref[2], Outs[ref[1]][ref[2]].sats>>

\* The blocks whose states an answer may be made of.
Sources(r, blocks) == Range(blocks) \cup (IF r.kind = "coins" THEN {} ELSE {r.hash})

\* The outputs C are those a request has taken of the entries of its list so far.
Picked(C, r, d, sources) ==
    /\ C \subseteq Owned(d.best, r.address) \cap InSome(sources, r.address)
    /\ IsFiniteSet(C)
    /\ \A ref \in C : \E i \in 1 .. r.next - 1 : r.outs[i] = Key(d.tx, ref)
    /\ \A ref \in InAll(sources, r.address) : \E i \in 1 .. Len(r.outs) :
          r.outs[i] = Key(d.tx, ref) /\ (i < r.next => ref \in C)

\* What waits for its hash is what was picked, but for the coins that have got theirs.
Waiting(r, d, sources) ==
    /\ r.coins \subseteq Coins(InSome(sources, r.address))
    /\ \A e \in ToSet(r.unspent) : \E ref \in Owned(d.best, r.address) \cap InSome(sources, r.address) :
          e = Entry(d.tx, ref)
    /\ \A ref \in InAll(sources, r.address) :
          Paid(ref) \in r.coins \/ Entry(d.tx, ref) \in ToSet(r.unspent)

\* What it has found out while it walks its list.
Walking(r, d, sources) ==
    /\ IsInjective(r.outs)
    /\ \A e \in ToSet(r.outs) : \E ref \in Owned(d.best, r.address) : e = Key(d.tx, ref)
    /\ \E C \in SUBSET OutputRefs :
          /\ Picked(C, r, d, sources)
          /\ r.kind = "coins" => ToSet(r.unspent) = {Entry(d.tx, ref) : ref \in C}
          /\ r.kind = "balance" => r.balance = Sats(C)

\* What a request that asks for no block has found out, stage by stage.
Between(r, d, sources) ==
    /\ r.stage \in {"symbol", "list", "record", "txHash", "answered", "failed"}
    /\ r.stage \in {"symbol", "list"} => r.balance = 0 /\ r.unspent = <<>>
    /\ r.stage \in {"symbol", "list", "record"} => r.coins = {}
    /\ r.stage = "list" /\ InAll(sources, r.address) # {} =>
          r.address \in DOMAIN d.address /\ d.address[r.address] = r.symbol
    /\ r.stage = "record" => Walking(r, d, sources)
    /\ r.stage = "txHash" => r.kind = "coins" /\ Waiting(r, d, sources)
    /\ r.stage = "answered" /\ r.kind = "coins" =>
          /\ Coins(InAll(sources, r.address)) \subseteq r.coins
          /\ r.coins \subseteq Coins(InSome(sources, r.address))
    /\ r.stage = "answered" /\ r.kind = "balance" =>
          \E C \in SUBSET InSome(sources, r.address) :
             /\ IsFiniteSet(C) /\ InAll(sources, r.address) \subseteq C
             /\ r.balance = Sats(C)

\* Only balances are asked for at a block.
CoinsInv == request.kind = "coins" => request.by = "latest"

LatestInv ==
    /\ CachedInv /\ TipInv /\ CoinsInv
    /\ Latest => /\ request.stage = "list" => OnlyFor(request.symbol, request.address)
                 /\ Between(request, db, Sources(request, during))

\* While the indexer runs, what waits, what is in flight and what is on disk are of different
\* addresses, and no symbol is given twice or beyond the counter.
LEMMA SymbolTables ==
    ASSUME SymbolInv, TableInv, StayInv, pc # "aborted"
    PROVE  LET T == Apply(mem.ops.address, Apply(inflight.ops.address, db.address))
           IN  /\ IsMem(mem) /\ mem.lastAddress \in Nat /\ IsInjective(T)
               /\ \A x \in DOMAIN T : T[x] \in Nat /\ T[x] <= mem.lastAddress
               /\ \A x \in DOMAIN db.address : x \in DOMAIN T /\ T[x] = db.address[x]
               /\ \A x \in DOMAIN mem.ops.address : x \in DOMAIN T /\ T[x] = mem.ops.address[x]
               /\ Flushing => \A x \in DOMAIN inflight.ops.address :
                     inflight.ops.address[x] \in Nat =>
                        x \in DOMAIN T /\ T[x] = inflight.ops.address[x]
<1> DEFINE G == Apply(inflight.ops.address, db.address)
           T == Apply(mem.ops.address, G)
<1>1. Sound(mem, G)
  BY DEF SymbolInv, SoundInv
<1>2. /\ IsMem(mem) /\ mem.lastAddress \in Nat /\ IsInjective(T)
      /\ \A x \in DOMAIN T : T[x] \in Nat /\ T[x] <= mem.lastAddress
      /\ \A x \in DOMAIN mem.ops.address : mem.ops.address[x] \in Nat
  <2> HIDE DEF G
  <2> QED
    BY <1>1 DEF Sound, Symbols
<1>3. Deleted \notin Nat
  BY UtxoIndexerAssumption DEF UtxoIndexerAssumption
<1>4. DOMAIN mem.ops.address \cap DOMAIN db.address = {}
  <2>1. CASE Flushing
    BY <2>1 DEF TableInv
  <2>2. CASE ~Flushing
    <3>1. pc = "idle" \/ pc = "removing"
      BY <2>2 DEF SymbolInv, SoundInv, Flushing
    <3> QED
      BY <3>1 DEF TableInv, Writing, Linked
  <2> QED
    BY <2>1, <2>2
<1>5. \A x \in DOMAIN mem.ops.address : x \in DOMAIN T /\ T[x] = mem.ops.address[x]
  <2> HIDE DEF G
  <2> QED
    BY <1>2, <1>3, ApplyTable
<1>6. \A x \in DOMAIN db.address : x \in DOMAIN G /\ G[x] = db.address[x]
  <2>1. CASE Flushing
    <3>1. DOMAIN inflight.ops.address \cap DOMAIN db.address = {}
      BY <2>1 DEF StayInv
    <3> QED
      BY <3>1, ApplyTable
  <2>2. CASE ~Flushing
    BY <2>2, RestingTable
  <2> QED
    BY <2>1, <2>2
<1>7. \A x \in DOMAIN db.address : x \in DOMAIN T /\ T[x] = db.address[x]
  <2> HIDE DEF G
  <2> QED
    BY <1>4, <1>6, ApplyTable
<1>8. ASSUME Flushing, NEW x \in DOMAIN inflight.ops.address, inflight.ops.address[x] \in Nat
      PROVE  x \in DOMAIN T /\ T[x] = inflight.ops.address[x]
  <2>1. x \in DOMAIN G /\ G[x] = inflight.ops.address[x]
    BY <1>3, <1>8, ApplyTable
  <2>2. x \notin DOMAIN mem.ops.address
    BY <1>8 DEF TableInv
  <2> HIDE DEF G
  <2> QED
    BY <2>1, <2>2, ApplyTable
<1> HIDE DEF T
<1> QED
  BY <1>2, <1>5, <1>7, <1>8 DEF T, G

\* Looked up, an address has a symbol of its own.
LEMMA OnlyForAsked ==
    ASSUME SymbolInv, RecordInv, TableInv, StayInv, CachedInv, HasRead(request), LookUpAddress
    PROVE  OnlyFor(request.symbol, request.address)'
<1> DEFINE a == request.address
           s == AddressSymbol(mem, db, a)
           T == Apply(mem.ops.address, Apply(inflight.ops.address, db.address))
<1>1. /\ pc # "aborted" /\ pc' = pc /\ inflight' = inflight /\ db' = db
      /\ mem' = mem /\ HasSymbol(mem, db, a)
      /\ request' = [request EXCEPT !.symbol = s, !.stage = "list"]
  BY DEF LookUpAddress, Requesting, vars
<1>2. request'.symbol = s /\ request'.address = a
  BY <1>1 DEF HasRead, NoRequest
<1>3. /\ IsMem(mem) /\ mem.lastAddress \in Nat /\ IsInjective(T)
      /\ \A x \in DOMAIN T : T[x] \in Nat /\ T[x] <= mem.lastAddress
      /\ \A x \in DOMAIN db.address : x \in DOMAIN T /\ T[x] = db.address[x]
      /\ \A x \in DOMAIN mem.ops.address : x \in DOMAIN T /\ T[x] = mem.ops.address[x]
      /\ Flushing => \A x \in DOMAIN inflight.ops.address :
            inflight.ops.address[x] \in Nat => x \in DOMAIN T /\ T[x] = inflight.ops.address[x]
  BY <1>1, SymbolTables
<1>12. a \in DOMAIN T /\ T[a] = s
  <2>1. CASE a \in DOMAIN mem.seenAddress
    <3>1. s = mem.seenAddress[a]
      BY <2>1 DEF AddressSymbol
    <3>2. mem.seenAddress[a] \in Nat
      BY <1>1, <2>1 DEF RecordInv, Kept
    <3>3. CASE Flushing
      <4>1. \/ a \in DOMAIN mem.ops.address /\ mem.ops.address[a] = s
            \/ a \in DOMAIN inflight.ops.address /\ inflight.ops.address[a] = s
        BY <2>1, <3>1, <3>3 DEF CachedInv
      <4> HIDE DEF T, s, a
      <4> QED
        BY <1>3, <3>1, <3>2, <3>3, <4>1
    <3>4. CASE ~Flushing
      <4>1. pc = "idle" \/ pc = "removing"
        BY <1>1, <3>4 DEF SymbolInv, SoundInv, Flushing
      <4>2. a \in DOMAIN mem.ops.address /\ mem.ops.address[a] = mem.seenAddress[a]
        BY <2>1, <4>1 DEF TableInv, Writing, Linked
      <4> HIDE DEF T, s
      <4> QED
        BY <1>3, <3>1, <4>2
    <3> QED
      BY <3>3, <3>4
  <2>2. CASE a \notin DOMAIN mem.seenAddress
    BY <1>1, <1>3, <2>2 DEF AddressSymbol, HasSymbol
  <2> QED
    BY <2>1, <2>2
<1>13. s \in Nat /\ s <= mem.lastAddress /\ \A x \in DOMAIN T : T[x] = s => x = a
  <2> HIDE DEF T, s, a
  <2> QED
    BY <1>3, <1>12 DEF IsInjective
<1> HIDE DEF T, s, a
<1>14. OnlyFor(s, a)
  BY <1>3, <1>13 DEF OnlyFor
<1> QED
  BY <1>1, <1>2, <1>14 DEF OnlyFor, Flushing

\* It keeps it as long as the process runs.
LEMMA OnlyForStays ==
    ASSUME Plain, FlushInv, BudgetInv, SymbolInv, RecordInv, TableInv, [Next]_vars, ~Restart, ~Query,
           NEW s, NEW a, OnlyFor(s, a)
    PROVE  OnlyFor(s, a)'
<1>1. CASE AddBlock
  <2>1. Keeps(mem, mem')
    BY <1>1, AddBlockKeeps
  <2>2. /\ pc = "idle" /\ ~Flushing' /\ db' = db
    BY <1>1 DEF AddBlock, Flushing
  <2>3. /\ s \in Nat /\ s <= mem.lastAddress
        /\ \A x \in DOMAIN mem.ops.address : mem.ops.address[x] = s => x = a
    BY <2>2 DEF OnlyFor
  <2>4. /\ s <= mem'.lastAddress
        /\ \A x \in DOMAIN mem'.ops.address : mem'.ops.address[x] = s => x = a
    BY <2>1, <2>3 DEF Keeps
  <2> QED
    BY <2>2, <2>4 DEF OnlyFor
<1>2. CASE Flush \/ StartRemoval
  <2>1. /\ pc = "idle" /\ db' = db /\ inflight' = Gather(best, mem, db)
        /\ mem' = [mem EXCEPT !.ops = EmptyOps]
    BY <1>2 DEF Flush, StartRemoval, BeginFlush
  <2>2. IsMem(mem)
    BY <2>1 DEF SymbolInv, SoundInv, Sound
  <2>3. inflight'.ops.address = mem.ops.address
    BY <2>1, <2>2, GatherParts
  <2>4. mem'.lastAddress = mem.lastAddress /\ mem'.ops.address = EmptyTable
    BY <2>1, <2>2 DEF IsMem, EmptyOps
  <2> QED
    BY <2>1, <2>3, <2>4, EmptyTableIsEmpty DEF OnlyFor
<1>3. CASE FlushEnds
  <2>1. /\ Flushing /\ ~Flushing' /\ pc # "aborted"
        /\ db'.address = Apply(inflight.ops.address, db.address)
    BY <1>3 DEF FlushEnds, Written, Flushing
  <2>2. IsMem(mem)
    BY <2>1 DEF SymbolInv, SoundInv, Sound
  <2>3. mem'.lastAddress = mem.lastAddress /\ mem'.ops.address = mem.ops.address
    BY <1>3, <2>2 DEF FlushEnds, IsMem
  <2>4. \A x \in DOMAIN db'.address : db'.address[x] = s => x = a
    BY <2>1, ApplyTable DEF OnlyFor
  <2> QED
    BY <2>1, <2>3, <2>4 DEF OnlyFor
<1>4. CASE RemoveBest
  <2> DEFINE m == RemoveBlock(mem, db, best)
  <2>1. Quiet(mem, m) /\ pc = "removing" /\ db' = db
    BY <1>4, RemoveBestQuiet DEF RemoveBest
  <2> HIDE DEF m
  <2>2. \/ pc' = "aborted"
        \/ /\ inflight' = Gather(best', m, db)
           /\ mem' = [m EXCEPT !.ops = EmptyOps]
    BY <1>4 DEF RemoveBest, BeginFlush, m
  <2>3. CASE pc' = "aborted"
    BY <2>1, <2>3 DEF OnlyFor, Flushing
  <2>4. CASE inflight' = Gather(best', m, db) /\ mem' = [m EXCEPT !.ops = EmptyOps]
    <3>1. IsMem(m) /\ m.ops.address = mem.ops.address /\ m.lastAddress = mem.lastAddress
      BY <2>1 DEF Quiet
    <3>2. inflight'.ops.address = mem.ops.address
      BY <2>4, <3>1, GatherParts
    <3>3. mem'.lastAddress = mem.lastAddress /\ mem'.ops.address = EmptyTable
      BY <2>4, <3>1 DEF IsMem, EmptyOps
    <3> QED
      BY <2>1, <3>2, <3>3, EmptyTableIsEmpty DEF OnlyFor
  <2> QED
    BY <2>2, <2>3, <2>4
<1>6. CASE UNCHANGED vars
  BY <1>6 DEF vars, OnlyFor, Flushing
<1> QED
  BY <1>1, <1>2, <1>3, <1>4, <1>6 DEF Next

\* What is looked up while a batch is written is in the batch, or waits.
LEMMA CachedInvNext ==
    Plain /\ AllInv /\ RecordInv /\ TableInv /\ CachedInv /\ [Next]_vars /\ ~Query => CachedInv'
<1> SUFFICES ASSUME Plain, AllInv, RecordInv, TableInv, CachedInv, [Next]_vars, ~Query
             PROVE  CachedInv'
  OBVIOUS
<1>1. FlushInv /\ BudgetInv /\ SymbolInv
  BY DEF AllInv
<1>2. CASE AddBlock \/ FlushEnds \/ Restart
  BY <1>2 DEF AddBlock, FlushEnds, Restart, CachedInv, Flushing
<1>3. CASE Flush \/ StartRemoval
  <2>1. /\ pc = "idle" /\ inflight' = Gather(best, mem, db) /\ mem' = [mem EXCEPT !.ops = EmptyOps]
    BY <1>3 DEF Flush, StartRemoval, BeginFlush
  <2>2. IsMem(mem)
    BY <1>1, <2>1 DEF SymbolInv, SoundInv, Sound
  <2>3. inflight'.ops.address = mem.ops.address /\ mem'.seenAddress = mem.seenAddress
    BY <2>1, <2>2, GatherParts DEF IsMem
  <2>4. Linked(mem, db)
    BY <2>1 DEF TableInv, Writing
  <2> QED
    BY <2>3, <2>4 DEF CachedInv, Linked
<1>4. CASE RemoveBest
  <2> DEFINE m == RemoveBlock(mem, db, best)
  <2>1. Quiet(mem, m) /\ Linked(mem, db)
    BY <1>1, <1>4, RemoveBestQuiet DEF RemoveBest, TableInv
  <2> HIDE DEF m
  <2>2. \/ pc' = "aborted"
        \/ /\ inflight' = Gather(best', m, db)
           /\ mem' = [m EXCEPT !.ops = EmptyOps]
    BY <1>4 DEF RemoveBest, BeginFlush, m
  <2>3. CASE pc' = "aborted"
    BY <2>3 DEF CachedInv, Flushing
  <2>4. CASE inflight' = Gather(best', m, db) /\ mem' = [m EXCEPT !.ops = EmptyOps]
    <3>1. IsMem(m) /\ m.ops.address = mem.ops.address /\ m.seenAddress = mem.seenAddress
      BY <2>1 DEF Quiet
    <3>2. inflight'.ops.address = mem.ops.address /\ mem'.seenAddress = mem.seenAddress
      BY <2>4, <3>1, GatherParts DEF IsMem
    <3> QED
      BY <2>1, <3>2 DEF CachedInv, Linked
  <2> QED
    BY <2>2, <2>3, <2>4
<1>6. CASE UNCHANGED vars
  BY <1>6 DEF vars, CachedInv, Flushing
<1> QED
  BY <1>2, <1>3, <1>4, <1>6 DEF Next

\* Reads of symbols, lists and records leave the height and hash as they are, but for coins.
LEMMA SameTip ==
    ASSUME HasRead(request), request.kind # "coins",
           LookUpAddress \/ ReadList \/ ReadRecord \/ ReadTxHash
    PROVE  request'.height = request.height /\ request'.hash = request.hash
<1>1. DOMAIN request = DOMAIN NoRequest
  BY DEF HasRead
<1>2. CASE LookUpAddress \/ ReadTxHash
  BY <1>1, <1>2 DEF LookUpAddress, ReadTxHash, Failed, NoRequest
<1>3. CASE ReadList \/ ReadRecord
  <2> DEFINE out == request.outs[request.next]
             n == [WithRecord(request, db.utxo[out], out) EXCEPT !.next = @ + 1]
             r == [request EXCEPT !.outs = ListOf(db, request.symbol).outs, !.stage = "record"]
             Same(x) == /\ DOMAIN x = DOMAIN NoRequest /\ x.kind # "coins"
                        /\ x.height = request.height /\ x.hash = request.hash
  <2>1. request' \in {LoopThrows(request), LoopedOver(n), LoopedOver(r)}
    BY <1>3 DEF ReadList, ReadRecord
  <2>2. Same(n) /\ Same(r) /\ Same(request)
    BY <1>1 DEF WithRecord, NoRequest
  <2>3. ASSUME NEW y, Same(y)
        PROVE  Same(LoopThrows(y)) /\ Same(LoopedOver(y))
    BY <2>3 DEF LoopThrows, LoopedOver, Failed, NoRequest
  <2> HIDE DEF n, r, Same
  <2>4. Same(request')
    BY <2>1, <2>2, <2>3
  <2> QED
    BY <2>4 DEF Same
<1> QED
  BY <1>2, <1>3

\* The tip of an indexer that is at work is on one chain with what is on disk.
LEMMA TipAhead ==
    ASSUME FlushInv, AheadInv, SymbolInv, pc # "aborted"
    PROVE  OnOneChain(best, db.best) /\ best \in Chain[best] \cup {NoBlock}
<1>1. /\ best \in BlockOrNone /\ db.best \in BlockOrNone
      /\ \A b \in BlockOrNone : b \in Chain[b] \cup {NoBlock}
  BY ChainEnds DEF FlushInv, BlockOrNone
<1>2. pc \in {"idle", "flush", "removalFlush", "removing"}
  BY DEF SymbolInv, SoundInv
<1>3. CASE db.best \in Blocks /\ best = Parent[db.best]
  <2>1. best \in Chain[db.best] \cup {NoBlock}
    BY <1>1, <1>3, ChainEnds
  <2> QED
    BY <1>1, <2>1 DEF OnOneChain
<1>4. CASE db.best \in Chain[best] \cup {NoBlock}
  BY <1>1, <1>4 DEF OnOneChain
<1>5. CASE pc = "removing"
  BY <1>1, <1>5 DEF FlushInv, OnOneChain
<1> QED
  BY <1>2, <1>3, <1>4, <1>5 DEF AheadInv

\* The tip a balance names.
LEMMA TipInvNext ==
    AllInv /\ AllInv' /\ AheadInv /\ RequestInv /\ HasReadInv /\ DuringInv /\ LatestInv
        /\ [AccountNext]_accountVars /\ ~Query => TipInv'
<1> SUFFICES ASSUME AllInv, AllInv', AheadInv, RequestInv, HasReadInv, DuringInv, LatestInv,
                    [AccountNext]_accountVars, ~Query, Latest', request'.kind = "balance"
             PROVE  /\ request'.height = HeightOf(request'.hash)
                    /\ OnOneChain(request'.hash, db'.best)
                    /\ \/ request'.hash \in Chain[best'] \cup {NoBlock}
                       \/ pc' = "flush" /\ db'.best \in Blocks /\ best' = Parent[db'.best]
                       \/ pc' = "aborted"
  BY DEF TipInv
<1>1. /\ FlushInv /\ FlushInv' /\ SymbolInv /\ HasRead(request) /\ during \in Seq(BlockOrNone)
      /\ request'.stage # "none" /\ request'.by = "latest" /\ Grew(during')
  BY DEF AllInv, HasReadInv, Latest
<1>2. CASE AskBalance
  <2>1. PICK q \in Questions :
           \/ q.by # "latest" /\ request'.by = q.by
           \/ request' = [Asked(q, "symbol") EXCEPT !.height = HeightOf(best), !.hash = best]
    <3>1. PICK q \in Questions :
              \/ /\ q.by = "height" /\ Height[q.block] > HeightOf(best)
                 /\ request' = Asked(q, "failed")
              \/ /\ q.by = "height" /\ Height[q.block] <= HeightOf(best)
                 /\ request' = [Asked(q, "blockHash") EXCEPT !.height = Height[q.block]]
              \/ /\ q.by = "hash" /\ q.block \in DOMAIN mem.seenBlock
                 /\ request' = [Asked(q, "symbol") EXCEPT !.height = mem.seenBlock[q.block],
                                                          !.hash = q.block]
              \/ /\ q.by = "hash"
                 /\ request' = [Asked(q, "blockSymbol") EXCEPT !.hash = q.block]
              \/ /\ q.by = "latest"
                 /\ request' = [Asked(q, "symbol") EXCEPT !.height = HeightOf(best), !.hash = best]
      BY <1>1, <1>2, BalanceAsked
    <3> QED
      BY <3>1 DEF Asked, NoRequest
  <2>2. request'.height = HeightOf(best) /\ request'.hash = best
    BY <1>1, <2>1 DEF Asked, NoRequest
  <2>3. db' = db /\ best' = best /\ pc # "aborted"
    BY <1>2 DEF AskBalance, vars, Requesting
  <2> QED
    BY <1>1, <2>2, <2>3, TipAhead
<1>3. CASE AskCoins
  <2>1. PICK q \in Questions : q.kind = "coins" /\ request' = Asked(q, "symbol")
    BY <1>3 DEF AskCoins
  <2> QED
    BY <2>1 DEF Asked, NoRequest
<1>4. CASE ReadBlockHash \/ ReadBlockSymbol \/ LookUpAddress \/ ReadList \/ ReadRecord \/ ReadTxHash
  <2>1. /\ db' = db /\ best' = best /\ during' = during /\ request.stage # "none" /\ pc' = pc
    BY <1>4 DEF ReadBlockHash, ReadBlockSymbol, LookUpAddress, ReadList, ReadRecord, ReadTxHash,
                Requesting, vars
  <2>2. SameQuestion(request, request')
    BY <1>1, <1>4, ReadsSameQuestion
  <2>3. Latest /\ request.kind = "balance"
    BY <1>1, <2>1, <2>2 DEF Latest, SameQuestion
  <2>4. request.stage \notin {"blockHash", "blockSymbol"}
    BY <2>3 DEF LatestInv, Between
  <2>5. request'.height = request.height /\ request'.hash = request.hash
    <3>1. ~ReadBlockHash /\ ~ReadBlockSymbol
      BY <2>4 DEF ReadBlockHash, ReadBlockSymbol, Requesting
    <3> QED
      BY <1>1, <1>4, <2>3, <3>1, SameTip
  <2> QED
    BY <2>1, <2>3, <2>5 DEF LatestInv, TipInv
<1>5. CASE Answer
  BY <1>1, <1>5 DEF Answer, NoRequest
<1>6. CASE IndexerSteps
  <2>1. /\ request' = request
        /\ Grew(during) /\ (db'.best = db.best \/ db.best \in Chain[db'.best])
    BY <1>1, <1>6, DuringGoesOn
  <2>2. Latest /\ request.kind = "balance"
    BY <1>1, <2>1 DEF Latest
  <2> DEFINE h == request.hash
  <2>3. /\ request.height = HeightOf(h) /\ OnOneChain(h, db.best)
        /\ \/ h \in Chain[best] \cup {NoBlock}
           \/ pc = "flush" /\ db.best \in Blocks /\ best = Parent[db.best]
           \/ pc = "aborted"
    BY <2>2 DEF LatestInv, TipInv
  <2> HIDE DEF h
  <2> SUFFICES /\ OnOneChain(h, db'.best)
               /\ \/ h \in Chain[best'] \cup {NoBlock}
                  \/ pc' = "flush" /\ db'.best \in Blocks /\ best' = Parent[db'.best]
                  \/ pc' = "aborted"
    BY <2>1, <2>3 DEF h
  <2>4. CASE AddBlock
    <3>1. PICK b \in Blocks : Parent[b] = best /\ best' = b
      BY <2>4 DEF AddBlock
    <3>2. Chain[b] = Chain[best] \cup {b} /\ db' = db /\ pc = "idle"
      BY <2>4, <3>1, ChainEnds DEF AddBlock
    <3> QED
      BY <2>3, <3>1, <3>2
  <2>5. CASE Flush \/ StartRemoval
    BY <2>3, <2>5 DEF Flush, StartRemoval
  <2>6. CASE FlushEnds
    <3>1. db'.best = best /\ best' = best /\ pc # "aborted"
      BY <1>1, <2>6 DEF FlushEnds, FlushInv, Written
    <3>2. ~(db.best \in Blocks /\ best = Parent[db.best])
      <4> SUFFICES ASSUME db.best \in Blocks, best = Parent[db.best] PROVE FALSE
        OBVIOUS
      <4>1. db.best \in Chain[best]
        BY <2>1, <3>1, ChainEnds
      <4>2. Height[db.best] < Height[db.best]
        BY <4>1, ChainEnds
      <4>3. Height[db.best] \in Nat
        BY BlockTreeAssumption DEF BlockTreeAssumption
      <4> QED
        BY <4>2, <4>3
    <3> QED
      BY <2>3, <3>1, <3>2 DEF OnOneChain
  <2>7. CASE RemoveBest
    <3>1. db.best = best /\ best \in Blocks /\ db' = db
      BY <1>1, <2>7 DEF RemoveBest, FlushInv, BlockOrNone
    <3>2. pc' = "aborted" \/ (pc' = "flush" /\ best' = Parent[best])
      BY <2>7 DEF RemoveBest
    <3> QED
      BY <2>3, <3>1, <3>2
  <2>9. CASE Restart /\ request' = NoRequest
    BY <1>1, <2>9 DEF NoRequest
  <2> QED
    BY <1>6, <2>4, <2>5, <2>6, <2>7, <2>9, EarlySteps DEF IndexerSteps
<1>7. CASE UNCHANGED accountVars
  <2>1. Latest /\ request.kind = "balance"
    BY <1>1, <1>7 DEF Latest, accountVars
  <2> QED
    BY <1>7, <2>1 DEF LatestInv, TipInv, accountVars
<1> QED
  BY <1>2, <1>3, <1>4, <1>5, <1>6, <1>7, EarlySteps DEF AccountNext, Request

------------------------------------------------------------------------------
(* Answers between what the chains leave: the reads *)

\* More sources have less in common, and more between them.
LEMMA SourcesMove ==
    ASSUME NEW S, NEW S2, S \subseteq S2, NEW a
    PROVE  InAll(S2, a) \subseteq InAll(S, a) /\ InSome(S, a) \subseteq InSome(S2, a)
  BY DEF InAll, InSome

\* What all sources leave an address each does.
LEMMA SourceOne ==
    ASSUME NEW S, NEW b \in S, NEW a
    PROVE  /\ InAll(S, a) \subseteq Unspent(b, a) /\ Unspent(b, a) \subseteq InSome(S, a)
           /\ InAll(S, a) \subseteq Owned(b, a) /\ InAll(S, a) \subseteq InSome(S, a)
           /\ Owned(b, a) \subseteq OutputRefs
<1>1. Unspent(b, a) \subseteq Owned(b, a) /\ Owned(b, a) \subseteq OutputRefs
  BY DEF Unspent, Owned
<1>2. InAll(S, a) \subseteq Unspent(b, a)
  BY DEF InAll
<1>3. Unspent(b, a) \subseteq InSome(S, a)
  BY DEF InSome
<1> QED
  BY <1>1, <1>2, <1>3

\* An address the indexed chain has paid has a symbol on disk.
LEMMA OwnerKnown ==
    ASSUME TableInv, NEW a \in Addresses, Owned(db.best, a) # {}
    PROVE  a \in DOMAIN db.address
<1>1. PICK ref : ref \in Owned(db.best, a)
  OBVIOUS
<1>2. NoAddress \notin Addresses
  BY UtxoIndexerAssumption DEF UtxoIndexerAssumption
<1>3. ref \in OutputsOf(Mined(db.best)) /\ Addressed(ref) /\ Payee(ref) = a
  BY <1>1, <1>2 DEF Owned, OutputsOf, Addressed, Payee
<1> QED
  BY <1>3 DEF TableInv, ExactTable

\* The look-up.
LEMMA AddressBetween ==
    ASSUME TableInv, StayInv, HasRead(request), request.address \in Addresses,
           NEW S, db.best \in S, Between(request, db, S), LookUpAddress
    PROVE  Between(request', db, S)
<1> DEFINE a == request.address
           s == AddressSymbol(mem, db, a)
<1>1. request.stage = "symbol" /\ pc # "aborted"
  BY DEF LookUpAddress, Requesting
<1>2. request' = [request EXCEPT !.symbol = s, !.stage = "list"]
  BY DEF LookUpAddress
<1>3. request.balance = 0 /\ request.unspent = <<>> /\ request.coins = {}
  BY <1>1 DEF Between
<1>4. ASSUME InAll(S, a) # {} PROVE a \in DOMAIN db.address /\ db.address[a] = s
  <2>1. a \in DOMAIN db.address
    BY <1>4, SourceOne, OwnerKnown
  <2>2. a \notin DOMAIN mem.seenAddress
    BY <1>1, <2>1 DEF StayInv
  <2> QED
    BY <2>1, <2>2 DEF AddressSymbol
<1> HIDE DEF s
<1>5. /\ request'.stage = "list" /\ request'.balance = 0 /\ request'.unspent = <<>>
      /\ request'.coins = {} /\ request'.address = a /\ request'.symbol = s
  BY <1>2, <1>3 DEF NoRequest, HasRead
<1> HIDE DEF a
<1> QED
  BY <1>4, <1>5 DEF Between

\* Where the loop over a list ends, all of it has been read.
LEMMA LoopBetween ==
    ASSUME NEW r, HasRead(r), r.stage = "record", NEW d, NEW S, d.best \in S, Between(r, d, S)
    PROVE  Between(LoopedOver(r), d, S)
<1> DEFINE a == r.address
           n == LoopedOver(r)
           all == InAll(S, a)
           some == InSome(S, a)
<1>1. CASE r.next <= Len(r.outs)
  BY <1>1 DEF LoopedOver
<1>2. CASE ~(r.next <= Len(r.outs))
  <2>1. Walking(r, d, S) /\ r.coins = {}
    BY DEF Between
  <2>2. PICK C \in SUBSET OutputRefs :
           /\ Picked(C, r, d, S)
           /\ r.kind = "coins" => ToSet(r.unspent) = {Entry(d.tx, ref) : ref \in C}
           /\ r.kind = "balance" => r.balance = Sats(C)
    BY <2>1 DEF Walking
  <2>3. all \subseteq C
    <3>1. \A i \in 1 .. Len(r.outs) : i < r.next
      BY <1>2 DEF HasRead, Entries
    <3> QED
      BY <2>2, <3>1 DEF Picked
  <2>4. C \subseteq Owned(d.best, a) \cap some /\ IsFiniteSet(C)
    BY <2>2 DEF Picked
  <2>5. DOMAIN r = DOMAIN NoRequest
    BY DEF HasRead
  <2>6. CASE r.kind = "coins"
    <3>1. n = Labelled(r)
      BY <1>2, <2>6 DEF LoopedOver
    <3>2. CASE best = NoBlock
      <4>1. n.stage = "failed"
        BY <2>5, <3>1, <3>2 DEF Labelled, Failed, NoRequest
      <4> QED
        BY <4>1 DEF Between
    <3>3. CASE best # NoBlock /\ r.unspent = <<>>
      <4>1. n.stage = "answered" /\ n.coins = {} /\ n.address = a /\ n.kind = "coins"
        BY <2>1, <2>5, <2>6, <3>1, <3>3 DEF Labelled, NoRequest
      <4>2. C = {}
        <5>1. ToSet(r.unspent) = {}
          BY <3>3 DEF ToSet
        <5> QED
          BY <2>2, <2>6, <5>1
      <4>3. /\ Coins(InAll(S, n.address)) \subseteq n.coins
            /\ n.coins \subseteq Coins(InSome(S, n.address))
        BY <2>3, <4>1, <4>2 DEF Coins
      <4> HIDE DEF n
      <4> QED
        BY <4>1, <4>3 DEF Between, n
    <3>4. CASE best # NoBlock /\ r.unspent # <<>>
      <4>1. /\ n.stage = "txHash" /\ n.coins = {} /\ n.address = a /\ n.kind = "coins"
            /\ n.unspent = r.unspent
        BY <2>1, <2>5, <2>6, <3>1, <3>4 DEF Labelled, NoRequest
      <4> HIDE DEF n, a
      <4>2. Waiting(n, d, S)
        BY <2>2, <2>3, <2>4, <2>6, <4>1 DEF Waiting
      <4> QED
        BY <4>1, <4>2 DEF Between, n
    <3> QED
      BY <3>2, <3>3, <3>4
  <2>7. CASE r.kind # "coins"
    <3>1. n = [r EXCEPT !.stage = "answered"]
      BY <1>2, <2>7 DEF LoopedOver
    <3>2. n.stage = "answered" /\ n.address = a /\ n.kind = r.kind /\ n.balance = r.balance
      BY <2>5, <3>1 DEF NoRequest
    <3> HIDE DEF n, a
    <3>3. n.kind = "balance" =>
             \E D \in SUBSET InSome(S, n.address) :
                IsFiniteSet(D) /\ InAll(S, n.address) \subseteq D /\ n.balance = Sats(D)
      <4>1. InAll(S, n.address) = all /\ InSome(S, n.address) = some
        BY <3>2 DEF a
      <4>2. C \in SUBSET some
        BY <2>4
      <4> HIDE DEF all, some
      <4> QED
        BY <2>2, <2>3, <2>4, <3>2, <4>1, <4>2
    <3> QED
      BY <2>7, <3>2, <3>3 DEF Between, n
  <2> QED
    BY <2>6, <2>7
<1> QED
  BY <1>1, <1>2

\* The list that is found under the symbol is that of the address.
LEMMA ListBetween ==
    ASSUME AllInv, TableInv, ListInv, HasRead(request), CanGoOn(request),
           request.address \in Addresses, OnlyFor(request.symbol, request.address),
           NEW S, db.best \in S, Between(request, db, S), ReadList
    PROVE  Between(request', db, S)
<1> DEFINE a == request.address
           s == request.symbol
           top == db.best
           all == InAll(S, a)
<1>1. /\ request.stage = "list" /\ request.next = 1 /\ DOMAIN request = DOMAIN NoRequest
      /\ request.balance = 0 /\ request.unspent = <<>> /\ request.coins = {}
      /\ all # {} => a \in DOMAIN db.address /\ db.address[a] = s
  BY DEF ReadList, Requesting, CanGoOn, HasRead, Between
<1>2. all \subseteq Owned(top, a)
  BY SourceOne
<1>3. CASE s \notin DOMAIN db.list
  <2>1. all = {}
    <3> SUFFICES ASSUME all # {} PROVE FALSE
      OBVIOUS
    <3>1. Owned(top, a) # {} /\ db.address[a] = s
      BY <1>1, <1>2
    <3>2. Readable(db, db.address[a])
      BY <3>1, ListedOutputs
    <3> QED
      BY <1>3, <3>1, <3>2 DEF Readable
  <2>2. request' = LoopThrows(request)
    BY <1>3 DEF ReadList
  <2>4. Coins({}) = {}
    BY DEF Coins
  <2>3. \/ request'.stage = "failed"
        \/ /\ request'.stage = "answered" /\ request'.coins = {} /\ request'.kind = "coins"
           /\ request'.address = a
    BY <1>1, <2>2 DEF LoopThrows, Labelled, Failed, NoRequest
  <2> QED
    BY <2>1, <2>3, <2>4 DEF Between
<1>4. CASE s \in DOMAIN db.list
  <2> DEFINE outs == db.list[s].outs
             r == [request EXCEPT !.outs = outs, !.stage = "record"]
  <2>1. PICK x \in DOMAIN db.address : s = db.address[x]
    BY <1>4 DEF ListInv, ListsExact
  <2>2. a \in DOMAIN db.address /\ db.address[a] = s
    BY <2>1 DEF OnlyFor
  <2>3. HasEntries(outs, db.tx, OutputsOf(Mined(top)), a)
    BY <1>4, <2>2 DEF ListInv, ListsExact, ListAt, OutsAt
  <2>4. PaidTo(OutputsOf(Mined(top)), a) = Owned(top, a)
    BY DEF PaidTo, OutputsOf, Owned, Payee
  <2>5. /\ outs \in Entries /\ IsInjective(outs)
        /\ ToSet(outs) = {Key(db.tx, ref) : ref \in Owned(top, a)}
    BY <2>3, <2>4 DEF HasEntries
  <2> HIDE DEF outs
  <2>6. request' = LoopedOver(r)
    BY <1>4 DEF ReadList, ListOf, outs
  <2>7. /\ r.stage = "record" /\ r.outs = outs /\ r.next = 1 /\ r.balance = 0
        /\ r.unspent = <<>> /\ r.coins = {} /\ r.address = a /\ DOMAIN r = DOMAIN NoRequest
        /\ r.height = request.height /\ r.hash = request.hash
    BY <1>1 DEF NoRequest
  <2> HIDE DEF r
  <2>8. Len(outs) \in Nat /\ DOMAIN outs = 1..Len(outs)
    BY <2>5 DEF Entries
  <2>9. HasRead(r)
    BY <2>5, <2>7, <2>8 DEF HasRead, Entries, Findings
  <2>10. Picked({}, r, db, S)
    <3>1. \A ref \in all : \E i \in 1 .. Len(outs) : outs[i] = Key(db.tx, ref)
      BY <1>2, <2>5, <2>8 DEF ToSet
    <3>2. \A i \in 1 .. Len(outs) : ~(i < 1)
      BY <2>8
    <3>3. IsFiniteSet({})
      BY FS_EmptySet
    <3> QED
      BY <2>7, <3>1, <3>2, <3>3 DEF Picked
  <2>11. Sats({}) = 0 /\ ToSet(<<>>) = {} /\ {} \in SUBSET OutputRefs
    BY FS_EmptySet, SatsSplit DEF ToSet
  <2>12. Walking(r, db, S)
    <3>1. \A e \in ToSet(r.outs) : \E ref \in Owned(db.best, r.address) : e = Key(db.tx, ref)
      BY <2>5, <2>7
    <3>2. IsInjective(r.outs)
      BY <2>5, <2>7
    <3>3. ToSet(r.unspent) = {Entry(db.tx, ref) : ref \in {}} /\ r.balance = Sats({})
      BY <2>7, <2>11
    <3> QED
      BY <2>10, <2>11, <3>1, <3>2, <3>3 DEF Walking
  <2>13. Between(r, db, S)
    BY <2>7, <2>12 DEF Between
  <2> QED
    BY <2>6, <2>7, <2>9, <2>13, LoopBetween
<1> QED
  BY <1>3, <1>4

\* An output whose record is unspent, or counts at the height of a block on one chain with
\* what is on disk, is unspent there or at that block; and one unspent at both has such a
\* record.
LEMMA RecordSays ==
    ASSUME AllInv, TableInv, NEW a \in Addresses, NEW ref \in Owned(db.best, a),
           Key(db.tx, ref) \in DOMAIN db.utxo
    PROVE  LET record == db.utxo[Key(db.tx, ref)]
           IN  /\ record.sats = Outs[ref[1]][ref[2]].sats
               /\ record.spentOn = NoSymbol <=> ref \in Unspent(db.best, a)
               /\ \A h \in BlockOrNone : OnOneChain(h, db.best) =>
                     /\ Counts(record, HeightOf(h)) =>
                           ref \in Unspent(h, a) \/ ref \in Unspent(db.best, a)
                     /\ ref \in Unspent(h, a) /\ ref \in Unspent(db.best, a) =>
                           Counts(record, HeightOf(h))
<1> DEFINE top == db.best
           life == LifeOf(db.tx, top, Mined(top))
           s == db.address[a]
           record == db.utxo[Key(db.tx, ref)]
           S == Spenders(Mined(top), ref)
           last == CHOOSE t \in S : TRUE
<1>1. top \in BlockOrNone /\ NoAddress \notin Addresses
  BY UtxoIndexerAssumption DEF AllInv, FlushInv, UtxoIndexerAssumption
<1>2. ref \in OutputRefs /\ ref[1] \in Mined(top) /\ ref \in OutputsOf(Mined(top)) /\ Payee(ref) = a
      /\ Addressed(ref)
  BY <1>1 DEF Owned, OutputsOf, Payee, Addressed
<1>3. record = RecordIn(s, life, ref)
  BY <1>1, <1>2 DEF TableInv, ExactTable
<1>4. life[ref] = LifeWith(db.tx, top, ref, S)
  BY <1>2 DEF LifeOf
<1>5. /\ record.sats = Outs[ref[1]][ref[2]].sats
      /\ record.createdOn = life[ref].created /\ record.spentOn = life[ref].at
  <2>1. RecordIn(s, life, ref) = [sats |-> Outs[ref[1]][ref[2]].sats, address |-> s,
                                  createdOn |-> life[ref].created, spentIn |-> life[ref].by,
                                  spentOn |-> life[ref].at]
    BY DEF RecordIn
  <2> HIDE DEF life, record
  <2> QED
    BY <1>3, <2>1
<1> HIDE DEF record, life
<1>6. /\ record.createdOn = MinedOn(top, ref[1])
      /\ record.spentOn = IF S = {} THEN NoSymbol ELSE MinedOn(top, last)
  <2> HIDE DEF S
  <2> QED
    BY <1>4, <1>5 DEF LifeWith
<1> HIDE DEF last
<1>7. ASSUME NEW t \in Mined(top)
      PROVE  MinedOn(top, t) \in Nat /\ top \in Blocks /\ MinedOn(top, t) <= HeightOf(top)
  <2>1. PICK e \in Chain[top] : t \in ToSet(TxsOf[e])
    BY DEF Mined
  <2>2. MinedOn(top, t) = Height[e] /\ Height[e] \in Nat
    BY <1>1, <2>1, MinedOnIs
  <2>3. top # NoBlock
    BY <2>1, ChainEnds
  <2>4. Height[e] <= HeightOf(top)
    BY <1>1, ChainHeight
  <2> QED
    BY <1>1, <2>2, <2>3, <2>4 DEF BlockOrNone
<1>8. S # {} => last \in Mined(top)
  <2>1. S # {} => last \in S
    BY DEF last
  <2> QED
    BY <2>1 DEF Spenders
<1>9. S = {} <=> \A t \in Mined(top) : ref \notin ToSet(Ins[t])
  BY DEF Spenders
<1>10. S = {} <=> ref \in Unspent(top, a)
  BY <1>9 DEF Unspent, top
<1> HIDE DEF S
<1>11. record.spentOn = NoSymbol <=> ref \in Unspent(top, a)
  <2>1. S # {} => MinedOn(top, last) # NoSymbol
    BY <1>7, <1>8 DEF NoSymbol
  <2> QED
    BY <1>6, <1>10, <2>1
<1>12. top \in Blocks /\ top \in Chain[top] /\ HeightOf(top) = Height[top] /\ Height[top] \in Nat
  <2>1. top \in Blocks
    BY <1>2, <1>7
  <2> QED
    BY <2>1, ChainEnds, BlockTreeAssumption DEF HeightOf, BlockTreeAssumption
<1>13. ASSUME NEW h \in BlockOrNone, OnOneChain(h, top)
       PROVE  \/ Counts(record, HeightOf(h)) <=> ref \in Unspent(h, a)
              \/ Counts(record, HeightOf(h)) <=> ref \in Unspent(top, a)
  <2>1. CASE h = NoBlock
    <3>1. HeightOf(h) = -1 /\ Mined(h) = {}
      BY <2>1, ChainEnds DEF HeightOf, Mined
    <3>2. record.createdOn \in Nat
      BY <1>2, <1>6, <1>7
    <3>3. ~Counts(record, HeightOf(h))
      BY <3>1, <3>2 DEF Counts
    <3>4. ref \notin Unspent(h, a)
      BY <3>1 DEF Unspent, Owned
    <3> QED
      BY <3>3, <3>4
  <2>2. CASE h \in Chain[top]
    <3>1. HeightOf(h) = Height[h]
      <4>1. h \in Blocks
        BY <1>1, <2>2, ChainBefore
      <4> QED
        BY <4>1, BlockTreeAssumption DEF HeightOf, BlockTreeAssumption
    <3>2. Counts(RecordIn(s, life, ref), Height[h])
             <=> ref[1] \in Mined(h) /\ \A t \in Mined(h) : ref \notin ToSet(Ins[t])
      BY <1>1, <1>2, <2>2, CountsUnspent DEF life
    <3>3. ref \in Owned(top, a)
      OBVIOUS
    <3>4. ref \in Unspent(h, a) <=> ref[1] \in Mined(h) /\ \A t \in Mined(h) : ref \notin ToSet(Ins[t])
      BY <3>3 DEF Unspent, Owned
    <3> QED
      BY <1>3, <3>1, <3>2, <3>4 DEF record
  <2>3. CASE top \in Chain[h]
    <3>1. h \in Blocks
      BY <2>3, ChainEnds DEF BlockOrNone
    <3>2. HeightOf(h) = Height[h] /\ Height[h] \in Nat /\ Height[top] <= Height[h]
      BY <2>3, <3>1, ChainHeight, BlockTreeAssumption DEF HeightOf, BlockTreeAssumption
    <3>3. record.createdOn \in Nat /\ record.createdOn <= Height[top]
      BY <1>2, <1>6, <1>7, <1>12
    <3>4. record.spentOn = NoSymbol \/ (record.spentOn \in Nat /\ record.spentOn <= Height[top])
      BY <1>6, <1>7, <1>8, <1>12
    <3>5. Counts(record, Height[h]) <=> record.spentOn = NoSymbol
      BY <1>12, <3>2, <3>3, <3>4 DEF Counts, NoSymbol
    <3> QED
      BY <1>11, <3>2, <3>5
  <2> QED
    BY <1>12, <1>13, <2>1, <2>2, <2>3, BlockTreeAssumption DEF OnOneChain, BlockTreeAssumption
<1> QED
  BY <1>5, <1>11, <1>13 DEF record

\* Entries with one more behind them, and without the last.
LEMMA AppendSet ==
    ASSUME NEW s \in Findings, NEW e \in Nat \X Nat \X Nat
    PROVE  ToSet(Append(s, e)) = ToSet(s) \cup {e}
<1> DEFINE N == Len(s)
           l == Append(s, e)
<1>1. /\ N \in Nat /\ DOMAIN s = 1..N /\ DOMAIN l = 1..(N + 1) /\ l[N + 1] = e
      /\ \A i \in 1..N : l[i] = s[i]
  BY DEF Findings
<1> HIDE DEF N, l
<1>2. 1..(N + 1) = (1..N) \cup {N + 1}
  BY <1>1
<1>3. \A i \in DOMAIN l : l[i] \in ToSet(s) \cup {e}
  BY <1>1, <1>2 DEF ToSet
<1>4. \A i \in DOMAIN s : s[i] \in ToSet(l)
  BY <1>1, <1>2 DEF ToSet
<1>5. e \in ToSet(l)
  BY <1>1, <1>2 DEF ToSet
<1> QED
  BY <1>3, <1>4, <1>5 DEF ToSet, l

LEMMA FrontSet ==
    ASSUME NEW s \in Findings, s # <<>>
    PROVE  /\ ToSet(s) = ToSet(Front(s)) \cup {Last(s)}
           /\ Front(s) = <<>> <=> Len(s) = 1
<1> DEFINE N == Len(s)
           l == Front(s)
<1>1. N \in Nat \ {0} /\ DOMAIN s = 1..N /\ Last(s) = s[N]
  BY DEF Findings, Last
<1>2. s \in Seq(Nat \X Nat \X Nat) /\ l = SubSeq(s, 1, N - 1)
  BY DEF Findings, Front
<1>3. DOMAIN l = 1..(N - 1) /\ \A i \in 1..(N - 1) : l[i] = s[i]
  BY <1>1, <1>2
<1>4. l = <<>> <=> N = 1
  <2>1. l = <<>> => DOMAIN l = {}
    OBVIOUS
  <2>2. N # 1 => 1 \in 1..(N - 1)
    BY <1>1
  <2>3. N = 1 => l = <<>>
    <3>1. N = 1 => 1..(N - 1) = {}
      BY <1>1
    <3>2. l \in Seq(Nat \X Nat \X Nat)
      BY <1>1, <1>2
    <3>3. N = 1 => Len(l) = 0
      BY <1>3, <3>1, <3>2
    <3> QED
      BY <3>2, <3>3
  <2> QED
    BY <1>3, <2>1, <2>2, <2>3
<1> HIDE DEF N, l
<1>5. 1..N = (1..(N - 1)) \cup {N}
  BY <1>1
<1>6. \A i \in DOMAIN s : s[i] \in ToSet(l) \cup {s[N]}
  BY <1>1, <1>3, <1>5 DEF ToSet
<1>7. \A i \in DOMAIN l : l[i] \in ToSet(s)
  BY <1>1, <1>3, <1>5 DEF ToSet
<1>8. s[N] \in ToSet(s)
  BY <1>1, <1>5 DEF ToSet
<1>9. ToSet(l) \subseteq ToSet(s) /\ ToSet(s) \subseteq ToSet(l) \cup {s[N]}
  BY <1>6, <1>7 DEF ToSet
<1> QED
  BY <1>1, <1>4, <1>8, <1>9 DEF N, l

\* One more entry: its output is picked or not.
LEMMA OneMorePicked ==
    ASSUME NEW r, NEW d, NEW S, d.best \in S, NEW C, Picked(C, r, d, S),
           r.outs \in Entries, IsInjective(r.outs), r.next \in 1..Len(r.outs),
           OneKey(d.tx, Owned(d.best, r.address)),
           NEW o \in Owned(d.best, r.address), r.outs[r.next] = Key(d.tx, o),
           NEW D, D = C \/ (D = C \cup {o} /\ o \in InSome(S, r.address)),
           o \in InAll(S, r.address) => o \in D,
           NEW n, n.outs = r.outs, n.next = r.next + 1, n.address = r.address
    PROVE  Picked(D, n, d, S) /\ o \notin C
<1> DEFINE a == r.address
           k == r.next
           outs == r.outs
<1>1. Len(outs) \in Nat /\ DOMAIN outs = 1..Len(outs) /\ k \in Nat
  BY DEF Entries
<1>2. /\ C \subseteq Owned(d.best, a) \cap InSome(S, a) /\ IsFiniteSet(C)
      /\ \A ref \in C : \E i \in 1 .. k - 1 : outs[i] = Key(d.tx, ref)
      /\ \A ref \in InAll(S, a) : \E i \in 1 .. Len(outs) :
            outs[i] = Key(d.tx, ref) /\ (i < k => ref \in C)
  BY DEF Picked
<1>3. InAll(S, a) \subseteq Owned(d.best, a)
  BY SourceOne
<1> HIDE DEF a
<1>4. o \notin C
  <2> SUFFICES ASSUME o \in C PROVE FALSE
    OBVIOUS
  <2>1. PICK i \in 1 .. k - 1 : outs[i] = Key(d.tx, o)
    BY <1>2
  <2>2. i \in DOMAIN outs /\ k \in DOMAIN outs /\ i # k
    BY <1>1, <2>1
  <2> QED
    BY <2>1, <2>2 DEF IsInjective
<1>5. D \subseteq Owned(d.best, a) \cap InSome(S, a)
  BY <1>2 DEF a
<1>6. IsFiniteSet(D)
  BY <1>2, FS_AddElement
<1>7. ASSUME NEW ref \in D PROVE \E i \in 1 .. (k + 1) - 1 : outs[i] = Key(d.tx, ref)
  <2>1. CASE ref = o
    BY <1>1, <2>1
  <2>2. CASE ref # o
    <3>1. PICK i \in 1 .. k - 1 : outs[i] = Key(d.tx, ref)
      BY <1>2, <2>2
    <3> QED
      BY <1>1, <3>1
  <2> QED
    BY <2>1, <2>2
<1>8. ASSUME NEW ref \in InAll(S, a)
      PROVE  \E i \in 1 .. Len(outs) : outs[i] = Key(d.tx, ref) /\ (i < k + 1 => ref \in D)
  <2>1. PICK i \in 1 .. Len(outs) : outs[i] = Key(d.tx, ref) /\ (i < k => ref \in C)
    BY <1>2
  <2>2. ASSUME i = k PROVE ref \in D
    <3>1. Key(d.tx, ref) = Key(d.tx, o)
      BY <2>1, <2>2
    <3>2. ref = o
      BY <1>3, <3>1 DEF OneKey, a
    <3> QED
      BY <3>2 DEF a
  <2>3. i < k + 1 => i < k \/ i = k
    BY <1>1
  <2> QED
    BY <2>1, <2>2, <2>3
<1> QED
  BY <1>4, <1>5, <1>6, <1>7, <1>8 DEF Picked, a

\* The balance a request asks for, at a tip that is among the sources and on one chain with
\* what is on disk.
TipAmong(r, d, sources) ==
    r.kind = "balance" =>
       r.hash \in sources /\ r.height = HeightOf(r.hash) /\ OnOneChain(r.hash, d.best)

\* A record is taken if its output is there in all sources, and not if it is there in none.
LEMMA RecordBetween ==
    ASSUME AllInv, TableInv, ListInv, RecordInv, HasRead(request), CanGoOn(request),
           request.address \in Addresses,
           NEW S, db.best \in S, TipAmong(request, db, S), Between(request, db, S), ReadRecord
    PROVE  Between(request', db, S)
<1> DEFINE a == request.address
           top == db.best
           outs == request.outs
           k == request.next
           out == outs[k]
           record == db.utxo[out]
           coin == <<out[1], out[2], record.sats>>
           w == WithRecord(request, record, out)
           n == [w EXCEPT !.next = @ + 1]
<1>1. /\ request.stage = "record" /\ Walking(request, db, S) /\ request.coins = {}
      /\ DOMAIN request = DOMAIN NoRequest
  BY DEF ReadRecord, Requesting, Between, HasRead
<1>2. /\ outs \in Entries /\ k \in 1..Len(outs) /\ Len(outs) \in Nat /\ out \in ToSet(outs)
      /\ request.balance \in Nat /\ request.unspent \in Findings
  <2>1. outs \in Entries /\ k \in 1 .. Len(outs) + 1 /\ k <= Len(outs) /\ request.balance \in Nat
        /\ request.unspent \in Findings
    BY <1>1 DEF HasRead, CanGoOn
  <2>2. DOMAIN outs = 1..Len(outs) /\ Len(outs) \in Nat
    BY <2>1 DEF Entries
  <2>3. k \in 1..Len(outs)
    BY <2>1, <2>2
  <2> QED
    BY <2>1, <2>2, <2>3 DEF ToSet
<1>3. PICK o \in Owned(top, a) : out = Key(db.tx, o)
  BY <1>1, <1>2 DEF Walking
<1>4. out \in DOMAIN db.utxo
  BY <1>3, ListedOutputs DEF Readable
<1>5. request' = LoopedOver(n)
  BY <1>4 DEF ReadRecord
<1>6. record \in Records /\ out \in Nat \X Nat
  <2>1. DOMAIN outs = 1..Len(outs)
    BY <1>2 DEF Entries
  <2>2. out \in Nat \X Nat
    BY <1>2, <2>1 DEF Entries
  <2> QED
    BY <1>4, <2>2 DEF RecordInv, Readies
<1>7. /\ record.sats = Outs[o[1]][o[2]].sats /\ record.sats \in Nat
      /\ record.spentOn = NoSymbol <=> o \in Unspent(top, a)
      /\ \A h \in BlockOrNone : OnOneChain(h, top) =>
            /\ Counts(record, HeightOf(h)) => o \in Unspent(h, a) \/ o \in Unspent(top, a)
            /\ o \in Unspent(h, a) /\ o \in Unspent(top, a) => Counts(record, HeightOf(h))
  <2>1. record.sats \in Nat
    BY <1>6 DEF Records
  <2> QED
    BY <1>3, <1>4, <2>1, RecordSays
<1>23. coin = Entry(db.tx, o) /\ coin \in Nat \X Nat \X Nat
  <2>1. out = <<db.tx[o[1]], o[2]>>
    BY <1>3 DEF Key
  <2>2. coin = <<db.tx[o[1]], o[2], record.sats>>
    BY <2>1
  <2>3. out[1] \in Nat /\ out[2] \in Nat
    BY <1>6
  <2> HIDE DEF out, record
  <2> QED
    BY <1>7, <2>2, <2>3 DEF Entry
<1> HIDE DEF record, coin
<1> DEFINE takes == \/ request.kind = "coins" /\ record.spentOn = NoSymbol
                    \/ request.kind = "balance" /\ Counts(record, request.height)
<1>8. /\ request.kind \in {"coins", "balance"} /\ o \in InAll(S, a) => takes
      /\ takes => o \in InSome(S, a)
  <2>1. InAll(S, a) \subseteq Unspent(top, a) /\ Unspent(top, a) \subseteq InSome(S, a)
    BY SourceOne
  <2>2. CASE request.kind = "coins"
    BY <1>7, <2>1, <2>2
  <2>3. CASE request.kind = "balance"
    <3> DEFINE h == request.hash
    <3>1. h \in S /\ request.height = HeightOf(h) /\ OnOneChain(h, top) /\ h \in BlockOrNone
      BY <2>3 DEF TipAmong, HasRead
    <3> HIDE DEF h
    <3>2. InAll(S, a) \subseteq Unspent(h, a) /\ Unspent(h, a) \subseteq InSome(S, a)
      BY <3>1, SourceOne
    <3> QED
      BY <1>7, <2>1, <2>3, <3>1, <3>2
  <2> QED
    BY <2>2, <2>3
<1>9. PICK C \in SUBSET OutputRefs :
         /\ Picked(C, request, db, S)
         /\ request.kind = "coins" => ToSet(request.unspent) = {Entry(db.tx, ref) : ref \in C}
         /\ request.kind = "balance" => request.balance = Sats(C)
  BY <1>1 DEF Walking
<1> DEFINE known == request.kind \in {"coins", "balance"}
           D == IF (known /\ takes) \/ (~known /\ o \in InAll(S, a)) THEN C \cup {o} ELSE C
<1>10. /\ D = C \/ (D = C \cup {o} /\ o \in InSome(S, a))
       /\ o \in InAll(S, a) => o \in D
       /\ o \in OutputRefs /\ D \in SUBSET OutputRefs
  <2>1. InAll(S, a) \subseteq InSome(S, a) /\ Owned(top, a) \subseteq OutputRefs
    BY SourceOne
  <2> HIDE DEF takes
  <2> QED
    BY <1>8, <2>1
<1>11. /\ w.stage = "record" /\ w.outs = outs /\ w.next = k /\ w.coins = {} /\ w.address = a
       /\ w.kind = request.kind /\ w.height = request.height /\ w.hash = request.hash
       /\ DOMAIN w = DOMAIN NoRequest
       /\ w.unspent = IF request.kind = "coins" /\ takes THEN Append(request.unspent, coin)
                      ELSE request.unspent
       /\ w.balance = IF request.kind = "balance" /\ takes THEN request.balance + record.sats
                      ELSE request.balance
  BY <1>1 DEF WithRecord, NoRequest, coin
<1> HIDE DEF w
<1>12. /\ n.stage = "record" /\ n.outs = outs /\ n.next = k + 1 /\ n.coins = {} /\ n.address = a
       /\ n.kind = w.kind /\ n.height = w.height /\ n.hash = w.hash
       /\ DOMAIN n = DOMAIN NoRequest /\ n.unspent = w.unspent /\ n.balance = w.balance
  BY <1>11 DEF NoRequest
<1> HIDE DEF n, takes
<1>21. ASSUME takes, request.kind \in {"coins", "balance"} PROVE D = C \cup {o}
  BY <1>21
<1>22. ASSUME ~takes, request.kind \in {"coins", "balance"} PROVE D = C
  BY <1>22
<1> HIDE DEF D
<1>13. IsInjective(outs) /\ \A e \in ToSet(outs) : \E ref \in Owned(top, a) : e = Key(db.tx, ref)
  BY <1>1 DEF Walking
<1>14. OneKey(db.tx, Owned(top, a))
  <2>1. o[1] \in Mined(top)
    BY DEF Owned
  <2>2. PICK c : c \in Chain[top]
    BY <2>1 DEF Mined
  <2>3. OneKey(db.tx, OutputsOf(Mined(top)))
    BY <2>2, ChainKeys
  <2>4. Owned(top, a) \subseteq OutputsOf(Mined(top))
    BY DEF Owned, OutputsOf
  <2> QED
    BY <2>3, <2>4 DEF OneKey
<1>15. Picked(D, n, db, S) /\ o \notin C
  <2>1. /\ Picked(C, request, db, S) /\ request.outs \in Entries /\ IsInjective(request.outs)
        /\ request.next \in 1..Len(request.outs) /\ request.outs[request.next] = Key(db.tx, o)
        /\ OneKey(db.tx, Owned(db.best, request.address)) /\ o \in Owned(db.best, request.address)
    BY <1>2, <1>3, <1>9, <1>13, <1>14
  <2>2. /\ D = C \/ (D = C \cup {o} /\ o \in InSome(S, request.address))
        /\ o \in InAll(S, request.address) => o \in D
        /\ n.outs = request.outs /\ n.next = request.next + 1 /\ n.address = request.address
    BY <1>10, <1>12
  <2> HIDE DEF a, top, outs, k, out
  <2> QED
    BY <2>1, <2>2, OneMorePicked
<1>16. ASSUME n.kind = "coins" PROVE ToSet(n.unspent) = {Entry(db.tx, ref) : ref \in D}
  <2>1. ToSet(request.unspent) = {Entry(db.tx, ref) : ref \in C} /\ request.kind = "coins"
    BY <1>9, <1>11, <1>12, <1>16
  <2>2. CASE takes
    <3>1. n.unspent = Append(request.unspent, coin) /\ D = C \cup {o}
      BY <1>11, <1>12, <1>21, <2>1, <2>2
    <3>2. ToSet(n.unspent) = ToSet(request.unspent) \cup {coin}
      BY <1>2, <1>23, <3>1, AppendSet
    <3> QED
      BY <1>23, <2>1, <3>1, <3>2
  <2>3. CASE ~takes
    BY <1>11, <1>12, <1>22, <2>1, <2>3
  <2> QED
    BY <2>2, <2>3
<1>17. ASSUME n.kind = "balance" PROVE n.balance = Sats(D)
  <2>1. request.balance = Sats(C) /\ request.kind = "balance"
    BY <1>9, <1>11, <1>12, <1>17
  <2>2. CASE takes
    <3>1. n.balance = Sats(C) + record.sats /\ D = C \cup {o}
      BY <1>11, <1>12, <1>21, <2>1, <2>2
    <3>2. IsFiniteSet(D) /\ D \ {o} = C /\ o \in D
      BY <1>15, <3>1 DEF Picked
    <3>3. Sats(D) = Outs[o[1]][o[2]].sats + Sats(C)
      BY <1>10, <3>2, SatsSplit
    <3> QED
      BY <1>2, <1>7, <2>1, <3>1, <3>3
  <2>3. CASE ~takes
    BY <1>11, <1>12, <1>22, <2>1, <2>3
  <2> QED
    BY <2>2, <2>3
<1>18. Walking(n, db, S)
  BY <1>10, <1>12, <1>13, <1>15, <1>16, <1>17 DEF Walking
<1>19. Between(n, db, S)
  BY <1>12, <1>18 DEF Between
<1>20. HasRead(n)
  <2>1. n.unspent \in Findings
    BY <1>2, <1>23, <1>11, <1>12 DEF Findings
  <2>2. n.balance \in Nat
    BY <1>2, <1>7, <1>11, <1>12
  <2>3. n.next \in 1 .. Len(n.outs) + 1
    BY <1>2, <1>12
  <2>4. n.height \in Nat \cup {NoSymbol} /\ n.hash \in BlockOrNone
    BY <1>11, <1>12 DEF HasRead
  <2> QED
    BY <1>2, <1>12, <2>1, <2>2, <2>3, <2>4 DEF HasRead
<1> QED
  BY <1>5, <1>12, <1>19, <1>20, LoopBetween

\* The hash of a coin is that of the transaction that made it.
LEMMA TxHashBetween ==
    ASSUME AllInv, TableInv, ListInv, HasRead(request), CanGoOn(request),
           request.address \in Addresses,
           NEW S, db.best \in S, Between(request, db, S), ReadTxHash
    PROVE  Between(request', db, S)
<1> DEFINE a == request.address
           top == db.best
           e == Last(request.unspent)
           coin == <<db.txid[e[1]], e[2], e[3]>>
           rest == Front(request.unspent)
           n == request'
<1>1. /\ request.stage = "txHash" /\ request.unspent # <<>> /\ request.unspent \in Findings
      /\ request.kind = "coins" /\ Waiting(request, db, S) /\ DOMAIN request = DOMAIN NoRequest
  BY DEF ReadTxHash, Requesting, Between, HasRead, CanGoOn
<1>2. CASE e[1] \notin DOMAIN db.txid
  <2>1. n = Failed(request)
    BY <1>2 DEF ReadTxHash
  <2>2. n.stage = "failed"
    BY <1>1, <2>1 DEF Failed, NoRequest
  <2> QED
    BY <2>2 DEF Between
<1>3. CASE e[1] \in DOMAIN db.txid
  <2>1. n = [request EXCEPT !.coins = @ \cup {coin}, !.unspent = rest,
                !.stage = IF Len(request.unspent) = 1 THEN "answered" ELSE @]
    BY <1>3 DEF ReadTxHash
  <2>2. ToSet(request.unspent) = ToSet(rest) \cup {e} /\ (rest = <<>> <=> Len(request.unspent) = 1)
    BY <1>1, FrontSet
  <2>3. PICK o \in Owned(top, a) \cap InSome(S, a) : e = Entry(db.tx, o)
    BY <1>1, <2>2 DEF Waiting
  <2>4. coin = Paid(o)
    <3>1. <<db.txid[Key(db.tx, o)[1]], Key(db.tx, o)[2]>> = o
      BY <2>3, ListedOutputs
    <3>2. <<db.txid[db.tx[o[1]]], o[2]>> = o
      BY <3>1 DEF Key
    <3>3. e[1] = db.tx[o[1]] /\ e[2] = o[2] /\ e[3] = Outs[o[1]][o[2]].sats
      BY <2>3 DEF Entry
    <3>4. db.txid[db.tx[o[1]]] = o[1]
      BY <3>2
    <3> HIDE DEF e
    <3> QED
      BY <3>3, <3>4 DEF Paid
  <2>5. OneKey(db.tx, Owned(top, a))
    <3>1. PICK c : c \in Chain[top]
      BY <2>3 DEF Owned, Mined
    <3>2. OneKey(db.tx, OutputsOf(Mined(top)))
      BY <3>1, ChainKeys
    <3>3. Owned(top, a) \subseteq OutputsOf(Mined(top))
      BY DEF Owned, OutputsOf
    <3> QED
      BY <3>2, <3>3 DEF OneKey
  <2> HIDE DEF coin, rest, e
  <2>6. /\ n.coins = request.coins \cup {Paid(o)} /\ n.unspent = rest /\ n.kind = "coins"
        /\ n.address = a
        /\ n.stage = IF Len(request.unspent) = 1 THEN "answered" ELSE "txHash"
    BY <1>1, <2>1, <2>4 DEF NoRequest
  <2>7. /\ request.coins \subseteq Coins(InSome(S, a))
        /\ \A f \in ToSet(request.unspent) : \E ref \in Owned(top, a) \cap InSome(S, a) :
              f = Entry(db.tx, ref)
        /\ \A ref \in InAll(S, a) : Paid(ref) \in request.coins \/ Entry(db.tx, ref) \in ToSet(request.unspent)
    BY <1>1 DEF Waiting
  <2>8. InAll(S, a) \subseteq Owned(top, a)
    BY SourceOne
  <2>9. n.coins \subseteq Coins(InSome(S, a))
    BY <2>3, <2>6, <2>7 DEF Coins, Paid
  <2>10. ASSUME NEW ref \in InAll(S, a)
         PROVE  Paid(ref) \in n.coins \/ Entry(db.tx, ref) \in ToSet(rest)
    <3>1. CASE Paid(ref) \in request.coins \/ Entry(db.tx, ref) \in ToSet(rest)
      BY <2>6, <3>1
    <3>2. CASE Entry(db.tx, ref) = e
      <4>2. Key(db.tx, ref) = Key(db.tx, o)
        BY <2>3, <3>2 DEF Entry, Key
      <4>1. ref = o
        BY <2>3, <2>5, <2>8, <4>2 DEF OneKey
      <4> QED
        BY <2>6, <4>1
    <3> QED
      BY <2>2, <2>7, <3>1, <3>2
  <2>11. ToSet(<<>>) = {}
    BY DEF ToSet
  <2>12. CASE Len(request.unspent) = 1
    <3>1. n.stage = "answered" /\ rest = <<>>
      BY <2>2, <2>6, <2>12
    <3>2. /\ Coins(InAll(S, n.address)) \subseteq n.coins
          /\ n.coins \subseteq Coins(InSome(S, n.address))
      BY <2>6, <2>9, <2>10, <2>11, <3>1 DEF Coins, Paid
    <3> QED
      BY <2>6, <3>1, <3>2 DEF Between
  <2>13. CASE Len(request.unspent) # 1
    <3>1. n.stage = "txHash"
      BY <2>6, <2>13
    <3>2. \A f \in ToSet(n.unspent) : \E ref \in Owned(top, n.address) \cap InSome(S, n.address) :
             f = Entry(db.tx, ref)
      BY <2>2, <2>6, <2>7
    <3>3. n.coins \subseteq Coins(InSome(S, n.address))
      BY <2>6, <2>9
    <3>4. \A ref \in InAll(S, n.address) : Paid(ref) \in n.coins \/ Entry(db.tx, ref) \in ToSet(n.unspent)
      BY <2>6, <2>10
    <3>5. Waiting(n, db, S)
      BY <3>2, <3>3, <3>4 DEF Waiting
    <3> QED
      BY <2>6, <3>1, <3>5 DEF Between
  <2> QED
    BY <2>12, <2>13
<1> QED
  BY <1>2, <1>3

\* What was found out stays so when the tables grow and more of their states are sources.
LEMMA GrownBetween ==
    ASSUME NEW r, NEW d, NEW d2, NEW S, NEW S2, d.best \in S, S \subseteq S2, Between(r, d, S),
           \A ref \in Owned(d.best, r.address) :
              ref \in Owned(d2.best, r.address) /\ Key(d2.tx, ref) = Key(d.tx, ref),
           \A x \in DOMAIN d.address : x \in DOMAIN d2.address /\ d2.address[x] = d.address[x],
           r.stage # "answered"
    PROVE  Between(r, d2, S2)
<1> DEFINE a == r.address
           W == Owned(d.best, a)
           W2 == Owned(d2.best, a)
<1>1. InAll(S2, a) \subseteq InAll(S, a) /\ InSome(S, a) \subseteq InSome(S2, a)
  BY SourcesMove
<1>2. InAll(S, a) \subseteq W
  BY SourceOne
<1>3. \A ref \in W : ref \in W2 /\ Key(d2.tx, ref) = Key(d.tx, ref)
  OBVIOUS
<1>7. \A ref \in W : Entry(d2.tx, ref) = Entry(d.tx, ref)
  BY <1>3 DEF Entry, Key
<1>8. Coins(InSome(S, a)) \subseteq Coins(InSome(S2, a))
  BY <1>1 DEF Coins
<1>4. ASSUME r.stage = "record" PROVE Walking(r, d2, S2)
  <2>1. /\ IsInjective(r.outs)
        /\ \A e \in ToSet(r.outs) : \E ref \in W : e = Key(d.tx, ref)
    BY <1>4 DEF Between, Walking
  <2>2. PICK C \in SUBSET OutputRefs :
           /\ Picked(C, r, d, S)
           /\ r.kind = "coins" => ToSet(r.unspent) = {Entry(d.tx, ref) : ref \in C}
           /\ r.kind = "balance" => r.balance = Sats(C)
    BY <1>4 DEF Between, Walking
  <2>3. /\ C \subseteq W \cap InSome(S, a) /\ IsFiniteSet(C)
        /\ \A ref \in C : \E i \in 1 .. r.next - 1 : r.outs[i] = Key(d.tx, ref)
        /\ \A ref \in InAll(S, a) : \E i \in 1 .. Len(r.outs) :
              r.outs[i] = Key(d.tx, ref) /\ (i < r.next => ref \in C)
    BY <2>2 DEF Picked
  <2>4. \A ref \in C : Key(d2.tx, ref) = Key(d.tx, ref)
    BY <1>3, <2>3
  <2>5. C \subseteq W2 \cap InSome(S2, a)
    BY <1>1, <1>3, <2>3
  <2>6. \A ref \in C : \E i \in 1 .. r.next - 1 : r.outs[i] = Key(d2.tx, ref)
    BY <2>3, <2>4
  <2>7. \A ref \in InAll(S2, a) : \E i \in 1 .. Len(r.outs) :
           r.outs[i] = Key(d2.tx, ref) /\ (i < r.next => ref \in C)
    BY <1>1, <1>2, <1>3, <2>3
  <2>8. Picked(C, r, d2, S2)
    BY <2>3, <2>5, <2>6, <2>7 DEF Picked
  <2>9. {Entry(d2.tx, ref) : ref \in C} = {Entry(d.tx, ref) : ref \in C}
    BY <1>7, <2>3
  <2>10. \A e \in ToSet(r.outs) : \E ref \in W2 : e = Key(d2.tx, ref)
    BY <1>3, <2>1
  <2> QED
    BY <2>1, <2>2, <2>8, <2>9, <2>10 DEF Walking
<1>5. ASSUME r.stage = "txHash" PROVE Waiting(r, d2, S2)
  <2>1. /\ r.coins \subseteq Coins(InSome(S, a))
        /\ \A e \in ToSet(r.unspent) : \E ref \in W \cap InSome(S, a) : e = Entry(d.tx, ref)
        /\ \A ref \in InAll(S, a) : Paid(ref) \in r.coins \/ Entry(d.tx, ref) \in ToSet(r.unspent)
    BY <1>5 DEF Between, Waiting
  <2>2. r.coins \subseteq Coins(InSome(S2, a))
    BY <1>8, <2>1
  <2>3. \A e \in ToSet(r.unspent) : \E ref \in W2 \cap InSome(S2, a) : e = Entry(d2.tx, ref)
    BY <1>1, <1>3, <1>7, <2>1
  <2>4. \A ref \in InAll(S2, a) : Paid(ref) \in r.coins \/ Entry(d2.tx, ref) \in ToSet(r.unspent)
    BY <1>1, <1>2, <1>7, <2>1
  <2> QED
    BY <2>2, <2>3, <2>4 DEF Waiting
<1>6. r.stage = "list" /\ InAll(S2, a) # {} => a \in DOMAIN d2.address /\ d2.address[a] = r.symbol
  BY <1>1 DEF Between
<1> QED
  BY <1>4, <1>5, <1>6 DEF Between

------------------------------------------------------------------------------
(* Answers between what the chains leave: every step *)

\* What is on disk is a source of the answer, and so is the tip of a balance.
LEMMA SourcesKnown ==
    ASSUME HasReadInv, DuringInv, TipInv, Latest
    PROVE  /\ db.best \in Sources(request, during) /\ request.address \in Addresses
           /\ TipAmong(request, db, Sources(request, during))
<1>1. during # <<>> /\ Last(during) = db.best /\ request.address \in Addresses
      /\ during \in Seq(BlockOrNone)
  BY DEF Latest, DuringInv, HasReadInv
<1>2. db.best \in Range(during)
  BY <1>1, LastIn
<1>3. request.kind = "balance" => request.hash \in Sources(request, during)
  BY DEF Sources
<1>4. db.best \in Sources(request, during)
  BY <1>2 DEF Sources
<1> QED
  BY <1>1, <1>3, <1>4 DEF TipAmong, TipInv

\* A latest request starts with its look-up, and has found out nothing.
LEMMA AskBetween ==
    ASSUME FlushInv, AskBalance \/ AskCoins, request'.by = "latest", NEW S
    PROVE  request'.stage = "symbol" /\ Between(request', db, S)
<1>1. CASE AskBalance
  <2>1. PICK q \in Questions :
           \/ q.by # "latest" /\ request'.by = q.by
           \/ request' = [Asked(q, "symbol") EXCEPT !.height = HeightOf(best), !.hash = best]
    <3>1. PICK q \in Questions :
              \/ /\ q.by = "height" /\ Height[q.block] > HeightOf(best)
                 /\ request' = Asked(q, "failed")
              \/ /\ q.by = "height" /\ Height[q.block] <= HeightOf(best)
                 /\ request' = [Asked(q, "blockHash") EXCEPT !.height = Height[q.block]]
              \/ /\ q.by = "hash" /\ q.block \in DOMAIN mem.seenBlock
                 /\ request' = [Asked(q, "symbol") EXCEPT !.height = mem.seenBlock[q.block],
                                                          !.hash = q.block]
              \/ /\ q.by = "hash"
                 /\ request' = [Asked(q, "blockSymbol") EXCEPT !.hash = q.block]
              \/ /\ q.by = "latest"
                 /\ request' = [Asked(q, "symbol") EXCEPT !.height = HeightOf(best), !.hash = best]
      BY <1>1, BalanceAsked
    <3> QED
      BY <3>1 DEF Asked, NoRequest
  <2>2. /\ request'.stage = "symbol" /\ request'.balance = 0 /\ request'.unspent = <<>>
        /\ request'.coins = {}
    BY <2>1 DEF Asked, NoRequest
  <2> QED
    BY <2>2 DEF Between
<1>2. CASE AskCoins
  <2>1. PICK q \in Questions : request' = Asked(q, "symbol")
    BY <1>2 DEF AskCoins
  <2>2. /\ request'.stage = "symbol" /\ request'.balance = 0 /\ request'.unspent = <<>>
        /\ request'.coins = {}
    BY <2>1 DEF Asked, NoRequest
  <2> QED
    BY <2>2 DEF Between
<1> QED
  BY <1>1, <1>2

\* Only a look-up leads to the reading of a list.
LEMMA ListNext ==
    ASSUME HasRead(request), ReadList \/ ReadRecord \/ ReadTxHash
    PROVE  request'.stage # "list"
<1>1. DOMAIN request = DOMAIN NoRequest
  BY DEF HasRead
<1>2. CASE ReadTxHash
  <2>1. request.stage = "txHash"
    BY <1>2 DEF ReadTxHash, Requesting
  <2> QED
    BY <1>1, <1>2, <2>1 DEF ReadTxHash, Failed, NoRequest
<1>3. CASE ReadList \/ ReadRecord
  <2> DEFINE out == request.outs[request.next]
             n == [WithRecord(request, db.utxo[out], out) EXCEPT !.next = @ + 1]
             r == [request EXCEPT !.outs = ListOf(db, request.symbol).outs, !.stage = "record"]
  <2>1. \/ request' = LoopThrows(request)
        \/ request' = LoopedOver(n) /\ request.stage = "record"
        \/ request' = LoopedOver(r)
    BY <1>3 DEF ReadList, ReadRecord, Requesting
  <2>2. /\ DOMAIN n = DOMAIN NoRequest /\ (request.stage = "record" => n.stage = "record")
        /\ DOMAIN r = DOMAIN NoRequest /\ r.stage = "record"
    BY <1>1 DEF WithRecord, NoRequest
  <2>3. ASSUME NEW x, DOMAIN x = DOMAIN NoRequest
        PROVE  LoopThrows(x).stage # "list" /\ (x.stage = "record" => LoopedOver(x).stage # "list")
    BY <2>3 DEF LoopThrows, LoopedOver, Labelled, Failed, NoRequest
  <2> HIDE DEF n, r
  <2> QED
    BY <1>1, <2>1, <2>2, <2>3
<1> QED
  BY <1>2, <1>3

\* A read keeps the sources.
LEMMA ReadsSameSources ==
    ASSUME HasRead(request), LookUpAddress \/ ReadList \/ ReadRecord \/ ReadTxHash
    PROVE  Sources(request', during) = Sources(request, during)
<1>1. request'.kind = request.kind
  BY ReadsSameQuestion DEF SameQuestion
<1>2. request.kind # "coins" => request'.hash = request.hash
  BY SameTip
<1> QED
  BY <1>1, <1>2 DEF Sources

\* Coins are asked for at no block.
LEMMA CoinsInvNext ==
    FlushInv /\ RequestInv /\ HasReadInv /\ CoinsInv /\ [AccountNext]_accountVars /\ ~Query
        => CoinsInv'
<1> SUFFICES ASSUME FlushInv, RequestInv, HasReadInv, CoinsInv, [AccountNext]_accountVars, ~Query
             PROVE  CoinsInv'
  OBVIOUS
<1>1. CASE AskBalance
  <2>1. PICK q \in Questions :
           /\ q.kind = "balance"
           /\ \/ request' = Asked(q, "failed")
              \/ request' = [Asked(q, "blockHash") EXCEPT !.height = Height[q.block]]
              \/ request' = [Asked(q, "symbol") EXCEPT !.height = mem.seenBlock[q.block],
                                                       !.hash = q.block]
              \/ request' = [Asked(q, "blockSymbol") EXCEPT !.hash = q.block]
              \/ request' = [Asked(q, "symbol") EXCEPT !.height = HeightOf(best), !.hash = best]
    BY <1>1, BalanceAsked
  <2>2. request'.kind = "balance"
    BY <2>1, ZenonT(30) DEF Asked, NoRequest
  <2> QED
    BY <2>2 DEF CoinsInv
<1>2. CASE AskCoins
  <2>1. PICK q \in Questions : q.kind = "coins" /\ request' = Asked(q, "symbol")
    BY <1>2 DEF AskCoins
  <2>2. q.by = "latest"
    BY <2>1, QuestionsAssumption
  <2> QED
    BY <2>1, <2>2 DEF Asked, NoRequest, CoinsInv
<1>3. CASE ReadBlockHash \/ ReadBlockSymbol \/ LookUpAddress \/ ReadList \/ ReadRecord \/ ReadTxHash
  <2>1. SameQuestion(request, request')
    BY <1>3, ReadsSameQuestion DEF HasReadInv
  <2> QED
    BY <2>1 DEF CoinsInv, SameQuestion
<1>4. CASE Answer
  BY <1>4 DEF Answer, NoRequest, CoinsInv
<1>5. CASE IndexerSteps
  <2>1. request' = request \/ request' = NoRequest
    BY <1>5 DEF IndexerSteps
  <2> QED
    BY <2>1 DEF NoRequest, CoinsInv
<1>6. CASE UNCHANGED accountVars
  BY <1>6 DEF accountVars, CoinsInv
<1> QED
  BY <1>1, <1>2, <1>3, <1>4, <1>5, <1>6, EarlySteps DEF AccountNext, Request

\* Steps of the indexer leave what was found out as it is, as long as no block leaves.
LEMMA IndexerBetween ==
    ASSUME FlushInv, FlushInv', SymbolInv, StayInv, HasReadInv, DuringInv, TipInv, [Next]_vars,
           IndexerSteps, Latest', Between(request, db, Sources(request, during))
    PROVE  request' = request /\ Latest /\ Between(request', db', Sources(request', during'))
<1> DEFINE a == request.address
           S == Sources(request, during)
           S2 == Sources(request, during')
<1>1. during \in Seq(BlockOrNone) /\ request'.stage # "none"
  BY DEF HasReadInv, Latest
<1>2. /\ request' = request /\ request.stage \notin {"answered", "failed"}
      /\ Range(during) \subseteq Range(during') /\ Grew(during)
      /\ db'.best = db.best \/ db.best \in Chain[db'.best]
  BY <1>1, DuringGoesOn DEF Latest
<1>3. Latest
  BY <1>2 DEF Latest
<1>4. db.best \in S /\ S \subseteq S2
  BY <1>2, <1>3, SourcesKnown DEF Sources
<1>5. /\ \A c \in Chain[db.best] \cap Chain[db'.best] :
            \A t \in Mined(c) : t \in DOMAIN db.tx /\ db'.tx[t] = db.tx[t]
      /\ \A x \in DOMAIN db.address : x \in DOMAIN db'.address /\ db'.address[x] = db.address[x]
  BY SymbolsPersist
<1>6. ASSUME NEW ref \in Owned(db.best, a)
      PROVE  ref \in Owned(db'.best, a) /\ Key(db'.tx, ref) = Key(db.tx, ref)
  <2>1. ref[1] \in Mined(db.best)
    BY DEF Owned
  <2>2. db.best \in Blocks
    BY <2>1, ChainEnds DEF Mined, FlushInv, BlockOrNone
  <2>3. db.best \in Chain[db.best] /\ db.best \in Chain[db'.best]
    BY <1>2, <2>2, ChainEnds
  <2>4. Key(db'.tx, ref) = Key(db.tx, ref)
    BY <1>5, <2>1, <2>3 DEF Key
  <2>5. Chain[db.best] \subseteq Chain[db'.best]
    BY <2>3, ChainBefore DEF FlushInv
  <2>6. ref \in Owned(db'.best, a)
    BY <2>5 DEF Owned, Mined
  <2> QED
    BY <2>4, <2>6
<1> HIDE DEF S, S2
<1>7. Between(request, db', S2)
  BY <1>2, <1>4, <1>5, <1>6, GrownBetween DEF S
<1> QED
  BY <1>2, <1>3, <1>7 DEF S2

\* The reads of a latest request.
LEMMA ReadBetween ==
    ASSUME AllInv, RecordInv, TableInv, ListInv, StayInv, HasReadInv, DuringInv, LatestInv, Latest,
           LookUpAddress \/ ReadList \/ ReadRecord \/ ReadTxHash
    PROVE  /\ Between(request', db, Sources(request', during))
           /\ request'.stage = "list" => OnlyFor(request.symbol, request.address)'
<1> DEFINE S == Sources(request, during)
<1>1. /\ db.best \in S /\ request.address \in Addresses /\ TipAmong(request, db, S)
      /\ HasRead(request) /\ CanGoOn(request) /\ SymbolInv
      /\ CachedInv /\ Between(request, db, S)
      /\ request.stage = "list" => OnlyFor(request.symbol, request.address)
  BY SourcesKnown DEF LatestInv, HasReadInv, AllInv
<1>2. Sources(request', during) = S
  BY <1>1, ReadsSameSources
<1> HIDE DEF S
<1>3. CASE LookUpAddress
  BY <1>1, <1>2, <1>3, AddressBetween, OnlyForAsked
<1>4. CASE ReadList
  <2>1. OnlyFor(request.symbol, request.address)
    BY <1>1, <1>4 DEF ReadList, Requesting
  <2>2. Between(request', db, S)
    BY <1>1, <1>4, <2>1, ListBetween
  <2> QED
    BY <1>1, <1>2, <1>4, <2>2, ListNext
<1>5. CASE ReadRecord
  BY <1>1, <1>2, <1>5, RecordBetween, ListNext
<1>6. CASE ReadTxHash
  BY <1>1, <1>2, <1>6, TxHashBetween, ListNext
<1> QED
  BY <1>3, <1>4, <1>5, <1>6

\* Every step keeps it.
LEMMA LatestInvNext ==
    Plain /\ AllInv /\ AllInv' /\ AheadInv /\ RecordInv /\ TableInv /\ ListInv /\ StayInv
        /\ RequestInv /\ HasReadInv /\ DuringInv /\ LatestInv /\ [AccountNext]_accountVars
        /\ ~Query => LatestInv'
<1> SUFFICES ASSUME Plain, AllInv, AllInv', AheadInv, RecordInv, TableInv, ListInv, StayInv,
                    RequestInv, HasReadInv, DuringInv, LatestInv, [AccountNext]_accountVars,
                    ~Query
             PROVE  LatestInv'
  OBVIOUS
<1>1. /\ FlushInv /\ FlushInv' /\ SymbolInv /\ BudgetInv /\ HasRead(request)
      /\ CachedInv /\ TipInv /\ CoinsInv
      /\ Latest => /\ request.stage = "list" => OnlyFor(request.symbol, request.address)
                   /\ Between(request, db, Sources(request, during))
  BY DEF AllInv, HasReadInv, LatestInv
<1>2. [Next]_vars
  BY RequestStep
<1>3. CachedInv' /\ TipInv' /\ CoinsInv'
  BY <1>1, <1>2, CachedInvNext, TipInvNext, CoinsInvNext
<1>4. ASSUME Latest'
      PROVE  /\ request'.stage = "list" => OnlyFor(request.symbol, request.address)'
             /\ Between(request', db', Sources(request', during'))
  <2>1. CASE AskBalance \/ AskCoins
    <3>1. db' = db /\ request'.by = "latest"
      BY <1>4, <2>1 DEF AskBalance, AskCoins, vars, Latest
    <3> QED
      BY <1>1, <2>1, <3>1, AskBetween
  <2>2. CASE ReadBlockHash \/ ReadBlockSymbol \/ LookUpAddress \/ ReadList \/ ReadRecord \/ ReadTxHash
    <3>1. db' = db /\ during' = during /\ request.stage # "none"
      BY <2>2 DEF ReadBlockHash, ReadBlockSymbol, LookUpAddress, ReadList, ReadRecord, ReadTxHash,
                  Requesting, vars
    <3>2. SameQuestion(request, request')
      BY <1>1, <2>2, ReadsSameQuestion
    <3>3. Latest
      BY <1>4, <3>1, <3>2 DEF Latest, SameQuestion
    <3>4. ~ReadBlockHash /\ ~ReadBlockSymbol
      BY <1>1, <3>3 DEF Between, ReadBlockHash, ReadBlockSymbol, Requesting
    <3> QED
      BY <2>2, <3>1, <3>3, <3>4, ReadBetween
  <2>3. CASE Answer
    BY <1>4, <2>3 DEF Answer, NoRequest, Latest
  <2>4. CASE IndexerSteps
    <3>1. request'.stage # "none"
      BY <1>4 DEF Latest
    <3>2. /\ request' = request /\ Grew(during)
      BY <1>1, <1>4, <2>4, <3>1, DuringGoesOn DEF Latest, HasReadInv
    <3>3. Latest
      BY <1>4, <3>2 DEF Latest
    <3>4. Between(request', db', Sources(request', during'))
      BY <1>1, <1>2, <1>4, <2>4, <3>3, IndexerBetween
    <3>5. ~Restart
      BY <1>1, <2>4, <3>1, StepsGoOn, EarlySteps DEF IndexerSteps, NoRequest
    <3>6. request.stage = "list" => OnlyFor(request.symbol, request.address)'
      <4> DEFINE s == request.symbol
                 a == request.address
      <4>1. \A x, y : OnlyFor(x, y) => OnlyFor(x, y)'
        BY <1>1, <1>2, <3>5, OnlyForStays
      <4>2. s' = s /\ a' = a
        BY <3>2
      <4> QED
        BY <1>1, <3>3, <4>1, <4>2 DEF OnlyFor
    <3> QED
      BY <3>2, <3>4, <3>6
  <2>5. CASE UNCHANGED accountVars
    <3>1. Latest
      BY <1>4, <2>5 DEF accountVars, Latest
    <3>2. request' = request /\ during' = during /\ db' = db /\ UNCHANGED vars
      BY <2>5 DEF accountVars, vars
    <3>3. request.stage = "list" => OnlyFor(request.symbol, request.address)'
      BY <1>1, <3>1, <3>2 DEF OnlyFor, Flushing, vars
    <3> QED
      BY <1>1, <3>1, <3>2, <3>3
  <2> QED
    BY <2>1, <2>2, <2>3, <2>4, <2>5, EarlySteps DEF AccountNext, Request
<1> QED
  BY <1>3, <1>4 DEF LatestInv

------------------------------------------------------------------------------
(* What a chain leaves an address is finite, and more outputs hold more *)

\* What a function has is finite if its domain is.
LEMMA ImageFinite ==
    ASSUME NEW f, IsFiniteSet(DOMAIN f)
    PROVE  IsFiniteSet({f[x] : x \in DOMAIN f})
<1> DEFINE S == DOMAIN f
           T == {f[x] : x \in S}
           g == [x \in S |-> f[x]]
<1>1. g \in Surjection(S, T)
  BY DEF Surjection
<1> HIDE DEF g, T
<1> QED
  BY <1>1, FS_Surjection DEF T

\* So is a chain.
LEMMA ChainFinite ==
    ASSUME NEW b \in BlockOrNone
    PROVE  IsFiniteSet(Chain[b])
<1> DEFINE N == Height[b]
           Short(n) == \A c \in Blocks : Height[c] = n => IsFiniteSet(Chain[c])
           S == {n \in 0..N : Short(n)}
<1>1. CASE b = NoBlock
  BY <1>1, ChainEnds, FS_EmptySet
<1>2. CASE b \in Blocks
  <2>1. N \in Nat
    BY <1>2, BlockTreeAssumption DEF BlockTreeAssumption
  <2>2. ASSUME NEW c \in Blocks, Parent[c] \in Blocks => IsFiniteSet(Chain[Parent[c]])
        PROVE  IsFiniteSet(Chain[c])
    <3>1. Chain[c] = Chain[Parent[c]] \cup {c} /\ (Parent[c] \in Blocks \/ Chain[Parent[c]] = {})
      BY ChainEnds DEF BlockOrNone
    <3>2. IsFiniteSet(Chain[Parent[c]])
      BY <2>2, <3>1, FS_EmptySet
    <3> QED
      BY <3>1, <3>2, FS_AddElement
  <2>3. \A c \in Blocks : Parent[c] \in Blocks => Height[c] = Height[Parent[c]] + 1 /\ Height[Parent[c]] \in Nat
    BY BlockTreeAssumption DEF BlockTreeAssumption
  <2>4. 0 \in S
    <3>1. \A c \in Blocks : Height[c] = 0 => Parent[c] \notin Blocks
      BY <2>3
    <3>2. Short(0)
      BY <2>2, <3>1
    <3> HIDE DEF Short
    <3> QED
      BY <2>1, <3>2
  <2>5. ASSUME NEW n \in S, n < N PROVE n + 1 \in S
    <3>1. Short(n) /\ n \in 0..N
      OBVIOUS
    <3>2. ASSUME NEW c \in Blocks, Height[c] = n + 1 PROVE IsFiniteSet(Chain[c])
      <4>1. Parent[c] \in Blocks => Height[Parent[c]] = n
        BY <2>3, <3>1, <3>2
      <4> QED
        BY <2>2, <3>1, <4>1
    <3>3. n + 1 \in 0..N
      BY <2>1, <2>5, <3>1
    <3> QED
      BY <3>2, <3>3
  <2> HIDE DEF S
  <2>6. S \in SUBSET (0..N)
    BY DEF S
  <2> HIDE DEF N
  <2>7. S = 0..N
    BY <2>1, <2>4, <2>5, <2>6, UpTo
  <2>8. N \in S
    BY <2>1, <2>7
  <2> QED
    BY <1>2, <2>8 DEF S, N
<1> QED
  BY <1>1, <1>2 DEF BlockOrNone

\* So are the transactions of a chain and what they pay.
LEMMA UnspentFinite ==
    ASSUME NEW b \in BlockOrNone, NEW a
    PROVE  IsFiniteSet(Unspent(b, a))
<1> DEFINE txs == [c \in Chain[b] |-> ToSet(TxsOf[c])]
           refs == [t \in Mined(b) |-> {<<t, n>> : n \in DOMAIN Outs[t]}]
<1>1. Chain[b] \subseteq Blocks /\ IsFiniteSet(Chain[b])
  BY ChainFinite, ChainBefore
<1>2. \A c \in Chain[b] : IsFiniteSet(ToSet(TxsOf[c])) /\ ToSet(TxsOf[c]) \subseteq Txs
  <2> SUFFICES ASSUME NEW c \in Chain[b]
               PROVE  IsFiniteSet(ToSet(TxsOf[c])) /\ ToSet(TxsOf[c]) \subseteq Txs
    OBVIOUS
  <2>1. TxsOf[c] \in Seq(Txs)
    BY <1>1, UtxoIndexerAssumption DEF UtxoIndexerAssumption
  <2>2. DOMAIN TxsOf[c] = 1..Len(TxsOf[c]) /\ Len(TxsOf[c]) \in Nat
    BY <2>1
  <2>3. IsFiniteSet(DOMAIN TxsOf[c])
    BY <2>2, FS_Interval
  <2> QED
    BY <2>1, <2>3, ImageFinite DEF ToSet
<1>3. IsFiniteSet(Mined(b)) /\ Mined(b) \subseteq Txs
  <2>1. IsFiniteSet({txs[c] : c \in DOMAIN txs})
    BY <1>1, ImageFinite
  <2>2. \A T \in {txs[c] : c \in DOMAIN txs} : IsFiniteSet(T)
    BY <1>2
  <2>3. Mined(b) = UNION {txs[c] : c \in DOMAIN txs}
    BY DEF Mined
  <2> HIDE DEF txs
  <2>4. IsFiniteSet(Mined(b))
    BY <2>1, <2>2, <2>3, FS_UNION
  <2> QED
    BY <1>2, <2>4 DEF Mined
<1>4. \A t \in Mined(b) : IsFiniteSet({<<t, n>> : n \in DOMAIN Outs[t]})
  <2> SUFFICES ASSUME NEW t \in Mined(b) PROVE IsFiniteSet({<<t, n>> : n \in DOMAIN Outs[t]})
    OBVIOUS
  <2> DEFINE f == [n \in DOMAIN Outs[t] |-> <<t, n>>]
  <2>1. Outs[t] \in Seq([address : Addresses \cup {NoAddress}, sats : Nat])
    BY <1>3, UtxoIndexerAssumption DEF UtxoIndexerAssumption
  <2>2. DOMAIN Outs[t] = 1..Len(Outs[t]) /\ Len(Outs[t]) \in Nat
    BY <2>1
  <2>3. IsFiniteSet(DOMAIN f)
    <3>1. IsFiniteSet(DOMAIN Outs[t])
      BY <2>2, FS_Interval
    <3> QED
      BY <3>1
  <2>4. IsFiniteSet({f[n] : n \in DOMAIN f})
    <3> HIDE DEF f
    <3> QED
      BY <2>3, ImageFinite
  <2>5. {f[n] : n \in DOMAIN f} = {<<t, n>> : n \in DOMAIN Outs[t]}
    OBVIOUS
  <2> QED
    BY <2>4, <2>5
<1>5. IsFiniteSet(UNION {refs[t] : t \in DOMAIN refs})
  <2>1. IsFiniteSet({refs[t] : t \in DOMAIN refs})
    <3>1. IsFiniteSet(DOMAIN refs)
      BY <1>3
    <3> HIDE DEF refs
    <3> QED
      BY <3>1, ImageFinite
  <2>2. \A T \in {refs[t] : t \in DOMAIN refs} : IsFiniteSet(T)
    BY <1>4
  <2> HIDE DEF refs
  <2> QED
    BY <2>1, <2>2, FS_UNION
<1>6. Unspent(b, a) \subseteq UNION {refs[t] : t \in DOMAIN refs}
  <2> SUFFICES ASSUME NEW ref \in Unspent(b, a) PROVE ref \in UNION {refs[t] : t \in DOMAIN refs}
    OBVIOUS
  <2>1. ref \in OutputRefs /\ ref[1] \in Mined(b)
    BY DEF Unspent, Owned
  <2>2. PICK t \in Txs : \E n \in DOMAIN Outs[t] : ref = <<t, n>>
    BY <2>1 DEF OutputRefs
  <2>3. t \in Mined(b) /\ ref \in {<<t, n>> : n \in DOMAIN Outs[t]}
    BY <2>1, <2>2
  <2>4. t \in DOMAIN refs /\ ref \in refs[t]
    BY <2>3
  <2> HIDE DEF refs
  <2> QED
    BY <2>4
<1> HIDE DEF refs
<1> QED
  BY <1>5, <1>6, FS_Subset

\* So are the outputs that finitely many blocks leave it.
LEMMA SomeFinite ==
    ASSUME NEW S, IsFiniteSet(S), S \subseteq BlockOrNone, NEW a
    PROVE  IsFiniteSet(InSome(S, a)) /\ InSome(S, a) \subseteq OutputRefs
<1> DEFINE f == [b \in S |-> Unspent(b, a)]
<1>1. InSome(S, a) = UNION {f[b] : b \in DOMAIN f}
  BY DEF InSome
<1>2. \A T \in {f[b] : b \in DOMAIN f} : IsFiniteSet(T) /\ T \subseteq OutputRefs
  <2>1. \A b \in S : IsFiniteSet(f[b])
    BY UnspentFinite
  <2>2. \A b \in S : f[b] \subseteq OutputRefs
    BY DEF Unspent, Owned
  <2> QED
    BY <2>1, <2>2
<1>3. DOMAIN f = S
  OBVIOUS
<1> HIDE DEF f
<1>4. IsFiniteSet({f[b] : b \in DOMAIN f})
  BY <1>3, ImageFinite
<1> QED
  BY <1>1, <1>2, <1>4, FS_UNION

\* More outputs hold at least as much.
LEMMA SatsGrow ==
    ASSUME NEW U \in SUBSET OutputRefs, IsFiniteSet(U), NEW A \in SUBSET U
    PROVE  Sats(A) <= Sats(U)
<1> DEFINE R == U \ A
           N == Cardinality(R)
           Holds(n) == \A X \in SUBSET R : Cardinality(X) = n => Sats(A) <= Sats(A \cup X)
           S == {n \in 0..N : Holds(n)}
<1>1. IsFiniteSet(R) /\ N \in Nat
  BY FS_Subset, FS_CardinalityType
<1>2. \A X \in SUBSET R : IsFiniteSet(X) /\ Cardinality(X) \in Nat
  BY <1>1, FS_Subset, FS_CardinalityType
<1>3. \A X \in SUBSET R : IsFiniteSet(A \cup X) /\ A \cup X \in SUBSET OutputRefs
  <2>1. \A X \in SUBSET R : A \cup X \in SUBSET U
    OBVIOUS
  <2> QED
    BY <2>1, FS_Subset
<1>4. \A X \in SUBSET R : Sats(A \cup X) \in Nat
  BY <1>3, SatsSplit
<1>5. 0 \in S
  <2>1. ASSUME NEW X \in SUBSET R, Cardinality(X) = 0 PROVE Sats(A) <= Sats(A \cup X)
    <3>1. X = {}
      BY <1>2, <2>1, FS_EmptySet
    <3>2. A \cup X = A /\ Sats(A) \in Nat
      BY <1>4, <3>1
    <3> QED
      BY <3>2
  <2> QED
    BY <1>1, <2>1
<1>6. ASSUME NEW n \in S, n < N PROVE n + 1 \in S
  <2>1. n \in 0..N /\ Holds(n)
    OBVIOUS
  <2>2. ASSUME NEW X \in SUBSET R, Cardinality(X) = n + 1 PROVE Sats(A) <= Sats(A \cup X)
    <3>1. X # {}
      BY <2>1, <2>2, FS_EmptySet
    <3>2. PICK x : x \in X
      BY <3>1
    <3> DEFINE Y == X \ {x}
    <3>3. Y \in SUBSET R /\ Cardinality(Y) = n
      <4>1. Cardinality(Y) = Cardinality(X) - 1
        BY <1>2, <3>2, FS_RemoveElement
      <4> QED
        BY <2>1, <2>2, <4>1
    <3>4. (A \cup X) \ {x} = A \cup Y /\ x \in A \cup X /\ x \in OutputRefs
      BY <1>3, <3>2
    <3>5. Sats(A \cup X) = Outs[x[1]][x[2]].sats + Sats(A \cup Y)
      <4> DEFINE Z == A \cup X
      <4>1. Z \in SUBSET OutputRefs /\ IsFiniteSet(Z) /\ x \in Z /\ Z \ {x} = A \cup Y
        BY <1>3, <3>4
      <4> HIDE DEF Z, Y
      <4>2. Sats(Z) = Outs[x[1]][x[2]].sats + Sats(Z \ {x})
        BY <4>1, SatsSplit
      <4> QED
        BY <4>1, <4>2 DEF Z
    <3>6. Outs[x[1]][x[2]].sats \in Nat
      BY <3>4, RefType
    <3>7. {} \in SUBSET R /\ A \cup {} = A
      OBVIOUS
    <3>8. Sats(A) \in Nat /\ Sats(A \cup Y) \in Nat
      BY <1>4, <3>3, <3>7
    <3>9. Sats(A) <= Sats(A \cup Y)
      BY <2>1, <3>3
    <3> HIDE DEF Y
    <3> QED
      BY <3>5, <3>6, <3>8, <3>9
  <2>3. n + 1 \in 0..N
    BY <1>1, <1>6, <2>1
  <2> QED
    BY <2>2, <2>3
<1>7. S = 0..N
  <2>1. S \in SUBSET (0..N)
    OBVIOUS
  <2> HIDE DEF S, N
  <2> QED
    BY <1>1, <1>5, <1>6, <2>1, UpTo
<1>8. Holds(N)
  <2>1. N \in S
    BY <1>1, <1>7
  <2> HIDE DEF Holds, N
  <2> QED
    BY <2>1
<1>9. A \cup R = U /\ R \in SUBSET R
  OBVIOUS
<1> HIDE DEF R
<1> QED
  BY <1>8, <1>9

------------------------------------------------------------------------------
(* What an answer that names no block lies between *)

\* The invariant of a run, and what it takes for the requests that name no block.
BetweenInv == AnsweredInv /\ AheadInv /\ (Plain /\ NoEarly => LatestInv)

LEMMA BetweenInvInit == AccountInit => BetweenInv
<1> SUFFICES ASSUME AccountInit PROVE BetweenInv
  OBVIOUS
<1>1. Init /\ request = NoRequest
  BY DEF AccountInit
<1>2. AnsweredInv /\ AheadInv
  BY <1>1, AnsweredInvInit, CacheInvInit DEF CacheInv
<1>3. CachedInv
  BY <1>1 DEF Init, CachedInv, Flushing
<1>4. TipInv /\ CoinsInv /\ ~Latest
  BY <1>1 DEF TipInv, CoinsInv, Latest, NoRequest
<1> QED
  BY <1>2, <1>3, <1>4 DEF BetweenInv, LatestInv

LEMMA BetweenInvNext == BetweenInv /\ [AccountNext]_accountVars => BetweenInv'
<1> SUFFICES ASSUME BetweenInv, [AccountNext]_accountVars PROVE BetweenInv'
  OBVIOUS
<1>1. AnsweredInv /\ AnsweredInv' /\ AheadInv
  BY AnsweredInvNext DEF BetweenInv
<1>2. AllInv /\ AllInv' /\ RecordInv /\ RequestInv /\ HasReadInv
  BY <1>1 DEF AnsweredInv
<1>3. AheadInv'
  BY <1>1, <1>2, RequestStep, AheadInvNext DEF AllInv
<1>4. Plain' <=> Plain
  BY DEF Plain, Ordinary, SpendsOlder, PaysOnce, OutputsOf, Addressed, Payee
<1>5. ASSUME Plain, NoEarly' PROVE LatestInv'
  <2>2. NoEarly /\ ~Query
    BY <1>2, <1>5, RequestStep, NoEarlyStep DEF AllInv
  <2>1. TableInv /\ ListInv /\ StayInv /\ DuringInv /\ LatestInv
    BY <1>1, <1>5, <2>2 DEF AnsweredInv, BetweenInv
  <2> QED
    BY <1>1, <1>2, <1>5, <2>1, <2>2, LatestInvNext
<1> QED
  BY <1>1, <1>3, <1>4, <1>5 DEF BetweenInv

\* A request for coins only reads what is on disk.
LEMMA CoinsAreBetween == LatestInv => CoinsBetween
<1> SUFFICES ASSUME LatestInv, request.stage = "answered", request.kind = "coins", OnlyGrew
             PROVE  /\ Coins(InAll(Range(during), request.address)) \subseteq request.coins
                    /\ request.coins \subseteq Coins(InSome(Range(during), request.address))
  BY DEF CoinsBetween
<1>1. Latest
  BY DEF LatestInv, CoinsInv, Latest, OnlyGrew, Grew
<1>2. Sources(request, during) = Range(during)
  BY DEF Sources
<1>3. Between(request, db, Range(during))
  BY <1>1, <1>2 DEF LatestInv
<1> QED
  BY <1>3 DEF Between

\* A balance is the sum of what it counted, which lies between the two sets.
LEMMA BalanceIsBetween == HasReadInv /\ LatestInv => LatestBetween
<1> SUFFICES ASSUME HasReadInv, LatestInv, request.stage = "answered",
                    request.kind = "balance", request.by = "latest", OnlyGrew
             PROVE  LET blocks == Range(during) \cup {request.hash}
                    IN  /\ Sats(InAll(blocks, request.address)) <= request.balance
                        /\ request.balance <= Sats(InSome(blocks, request.address))
  BY DEF LatestBetween
<1> DEFINE S == Range(during) \cup {request.hash}
           a == request.address
<1>1. Latest
  BY DEF Latest, OnlyGrew, Grew
<1>2. Sources(request, during) = S
  BY DEF Sources
<1>3. Between(request, db, S)
  BY <1>1, <1>2 DEF LatestInv
<1>4. PICK C \in SUBSET InSome(S, a) :
         IsFiniteSet(C) /\ InAll(S, a) \subseteq C /\ request.balance = Sats(C)
  BY <1>3 DEF Between
<1>5. during \in Seq(BlockOrNone) /\ request.hash \in BlockOrNone
  BY DEF HasReadInv, HasRead
<1>6. IsFiniteSet(S) /\ S \subseteq BlockOrNone
  <2>1. DOMAIN during = 1 .. Len(during) /\ Len(during) \in Nat
    BY <1>5
  <2>2. IsFiniteSet(DOMAIN during)
    BY <2>1, FS_Interval
  <2>3. IsFiniteSet(Range(during))
    BY <2>2, ImageFinite DEF Range
  <2>4. Range(during) \subseteq BlockOrNone
    BY <1>5 DEF Range
  <2> QED
    BY <1>5, <2>3, <2>4, FS_AddElement
<1> HIDE DEF S
<1>7. IsFiniteSet(InSome(S, a)) /\ InSome(S, a) \subseteq OutputRefs
  BY <1>6, SomeFinite
<1>8. Sats(InAll(S, a)) <= Sats(C)
  BY <1>4, <1>7, SatsGrow
<1>9. Sats(C) <= Sats(InSome(S, a))
  BY <1>4, <1>7, SatsGrow
<1> QED
  BY <1>4, <1>8, <1>9 DEF S

\* While the assumptions of RequestsSeeHistory hold and no block is taken back during the
\* request: the coins an address is said to have are all that every state of the database
\* during the request leaves it, and only such as some state leaves it, each with its amount
\* (CoinsBetween). The list is read once and each record later, when blocks may have been
\* flushed that spend what the list names or pay the address anew, and the hash of each
\* transaction last of all (Indexer.js:1088-1124, AccountService.js:120-131).
THEOREM CoinsStayBetween == AccountSpec => [](Plain => CoinsBetween)
<1>1. BetweenInv => (Plain => CoinsBetween)
  <2>1. CASE NoEarly
    BY <2>1, CoinsAreBetween DEF BetweenInv
  <2>2. CASE ~NoEarly
    BY <2>2 DEF CoinsBetween
  <2> QED
    BY <2>1, <2>2
<1> QED
  BY <1>1, BetweenInvInit, BetweenInvNext, PTL DEF AccountSpec

\* Under the same assumptions: a balance asked for without a block is the sum of outputs that
\* contain all that every state of the database during the request and the block it names
\* leave the address, and only such as one of these leaves it (LatestBetween). The block is
\* the tip in memory when the request came, which the tables reach only with a later flush
\* (Indexer.js:1157-1190).
THEOREM LatestStaysBetween == AccountSpec => [](Plain => LatestBetween)
<1>1. BetweenInv => (Plain => LatestBetween)
  <2>1. CASE NoEarly
    BY <2>1, BalanceIsBetween DEF BetweenInv, AnsweredInv
  <2>2. CASE ~NoEarly
    BY <2>2 DEF LatestBetween
  <2> QED
    BY <2>1, <2>2
<1> QED
  BY <1>1, BetweenInvInit, BetweenInvNext, PTL DEF AccountSpec
================================================================================
