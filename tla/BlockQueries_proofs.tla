-------------------------- MODULE BlockQueries_proofs --------------------------
(* Proofs about BlockQueries: requests leave the indexer alone, a block that     *)
(* memory and the database both have is never refused with NODE_SYNCING, what a  *)
(* translation reads is what it takes it for, and the operations it answers with *)
(* are those of the transaction.                                                 *)
EXTENDS BlockQueries, UtxoLists_proofs

\* Requests only read: all that holds of the tables in UtxoIndexer holds here.
LEMMA LookupStep == [BlockNext]_blockVars => [Next]_vars
<1>1. Lookup => UNCHANGED vars
  BY DEF Lookup, AskBlock, AskMempool, ReadTxSymbol, ReadUtxo, ReadOwner, Answer
<1>2. IndexerSteps => Next
  BY DEF IndexerSteps, Next
<1>3. UNCHANGED blockVars => UNCHANGED vars
  BY DEF blockVars, vars
<1> QED
  BY <1>1, <1>2, <1>3 DEF BlockNext

\* A refused block is higher than the safe height, also when its answer leaves.
RefusedInv ==
    /\ DOMAIN lookup = DOMAIN NoLookup
    /\ lookup.stage = "refused" => lookup.block \in Blocks /\ ~Available(lookup.block)

\* The steps of a translation do not refuse, and keep the shape of the request.
LEMMA AtInputStage ==
    ASSUME NEW l, DOMAIN l = DOMAIN NoLookup
    PROVE  DOMAIN AtInput(l) = DOMAIN NoLookup /\ AtInput(l).stage # "refused"
<1>1. DOMAIN WithOutputs(l) = DOMAIN NoLookup /\ WithOutputs(l).stage # "refused"
  BY DEF WithOutputs, NoLookup
<1>2. \A r : DOMAIN OwnerOf(l, r) = DOMAIN NoLookup /\ OwnerOf(l, r).stage # "refused"
  BY DEF OwnerOf, NoLookup
<1>3. \A s : /\ DOMAIN [l EXCEPT !.stage = "record", !.symbol = s] = DOMAIN NoLookup
             /\ [l EXCEPT !.stage = "record", !.symbol = s].stage # "refused"
  BY DEF NoLookup
<1>4. /\ DOMAIN [l EXCEPT !.stage = "txSymbol"] = DOMAIN NoLookup
      /\ [l EXCEPT !.stage = "txSymbol"].stage # "refused"
  BY DEF NoLookup
<1> QED
  BY <1>1, <1>2, <1>3, <1>4 DEF AtInput

LEMMA OnwardStage ==
    ASSUME NEW l, DOMAIN l = DOMAIN NoLookup
    PROVE  DOMAIN Onward(l) = DOMAIN NoLookup /\ Onward(l).stage # "refused"
<1> DEFINE n == [l EXCEPT !.next = @ + 1, !.symbol = NoSymbol, !.record = NoRecord]
<1>1. DOMAIN n = DOMAIN NoLookup
  OBVIOUS
<1> QED
  BY <1>1, AtInputStage DEF Onward

LEMMA AskedStage ==
    ASSUME NEW t, NEW b
    PROVE  DOMAIN Asked(t, b) = DOMAIN NoLookup /\ Asked(t, b).stage # "refused"
<1> DEFINE n == [NoLookup EXCEPT !.tx = t, !.block = b]
<1>1. DOMAIN n = DOMAIN NoLookup
  BY DEF NoLookup
<1> QED
  BY <1>1, AtInputStage DEF Asked

LEMMA RefusedInvInit == BlockInit => RefusedInv
  BY DEF BlockInit, RefusedInv, NoLookup

LEMMA RefusedInvStep == RefusedInv /\ [BlockNext]_blockVars => RefusedInv'
<1> SUFFICES ASSUME RefusedInv, [BlockNext]_blockVars PROVE RefusedInv'
  OBVIOUS
<1>1. CASE AskBlock
  <2>1. PICK b \in Blocks : \E t \in ToSet(TxsOf[b]) :
            lookup' = IF Available(b) THEN Asked(t, b)
                      ELSE [NoLookup EXCEPT !.stage = "refused", !.block = b]
    BY <1>1 DEF AskBlock
  <2>2. safe' = safe
    BY <1>1 DEF AskBlock, vars
  <2>3. CASE Available(b)
    BY <2>1, <2>3, AskedStage DEF RefusedInv
  <2>4. CASE ~Available(b)
    <3>1. lookup' = [NoLookup EXCEPT !.stage = "refused", !.block = b]
      BY <2>1, <2>4
    <3>2. DOMAIN lookup' = DOMAIN NoLookup /\ lookup'.block = b
      BY <3>1 DEF NoLookup
    <3> QED
      BY <2>2, <2>4, <3>2 DEF RefusedInv, Available
  <2> QED
    BY <2>3, <2>4
<1>2. CASE AskMempool
  BY <1>2, AskedStage DEF AskMempool, RefusedInv
<1>3. CASE ReadTxSymbol
  <2>1. \/ lookup' = Onward(lookup)
        \/ \E s : lookup' = [lookup EXCEPT !.stage = "record", !.symbol = s]
    BY <1>3 DEF ReadTxSymbol
  <2> QED
    BY <2>1, OnwardStage DEF RefusedInv, NoLookup
<1>4. CASE ReadUtxo
  <2>1. lookup' = Onward(lookup) \/ \E r : lookup' = OwnerOf(lookup, r)
    BY <1>4 DEF ReadUtxo
  <2> QED
    BY <2>1, OnwardStage DEF RefusedInv, NoLookup, OwnerOf
<1>5. CASE ReadOwner
  <2>1. \/ lookup' = Onward(lookup)
        \/ \E o : lookup' = Onward([lookup EXCEPT !.operations = o])
    BY <1>5 DEF ReadOwner
  <2>2. \A o : DOMAIN [lookup EXCEPT !.operations = o] = DOMAIN NoLookup
    BY DEF RefusedInv
  <2> QED
    BY <2>1, <2>2, OnwardStage DEF RefusedInv
<1>6. CASE Answer
  BY <1>6 DEF Answer, RefusedInv, NoLookup
<1>7. CASE IndexerSteps
  <2>1. \/ lookup' = lookup /\ lookup.stage # "refused"
        \/ lookup' = NoLookup
    BY <1>7 DEF IndexerSteps, Done
  <2> QED
    BY <2>1 DEF RefusedInv, NoLookup
<1>8. CASE UNCHANGED blockVars
  BY <1>8 DEF blockVars, RefusedInv, Available
<1> QED
  BY <1>1, <1>2, <1>3, <1>4, <1>5, <1>6, <1>7, <1>8 DEF BlockNext, Lookup

\* A block of both chains is not above the safe height.
LEMMA IndexedIsSafe == FlushInv /\ SafeInv /\ RefusedInv => IndexedNotRefused
<1> SUFFICES ASSUME FlushInv, SafeInv, RefusedInv, lookup.stage = "refused",
                    lookup.block \in Chain[best], lookup.block \in Chain[db.best]
             PROVE  FALSE
  BY DEF IndexedNotRefused
<1>1. best \in BlockOrNone /\ db.best \in BlockOrNone
  BY DEF FlushInv
<1>2. /\ Height[lookup.block] <= HeightOf(best)
      /\ Height[lookup.block] <= HeightOf(db.best)
  BY <1>1, ChainHeight
<1>3. ~(safe >= Height[lookup.block])
  BY DEF RefusedInv, Available
<1> QED
  BY <1>2, <1>3 DEF SafeInv

\* /block answers every block that memory and the database both have, whatever the
\* worker is doing.
THEOREM IndexedAnswered == BlockSpec => []IndexedNotRefused
<1>1. BlockInit => FlushInv /\ SafeInv /\ RefusedInv
  BY FlushInvInit, SafeInvInit, RefusedInvInit DEF BlockInit
<1>2. FlushInv /\ SafeInv /\ RefusedInv /\ [BlockNext]_blockVars
          => FlushInv' /\ SafeInv' /\ RefusedInv'
  BY LookupStep, FlushInvNext, SafeInvNext, RefusedInvStep
<1> QED
  BY <1>1, <1>2, IndexedIsSafe, PTL DEF BlockSpec

\* The database keeps following the abstract chain index under any requests.
THEOREM LookupsKeepIndex == BlockSpec => ImplementsIndex
<1>1. BlockInit => Init
  BY DEF BlockInit
<1>2. BlockSpec => Spec
  BY <1>1, LookupStep, PTL DEF BlockSpec, Spec
<1> QED
  BY <1>2, IndexRefined, PTL

------------------------------------------------------------------------------
(* The type of a request *)

Operations == [type : {"INPUT", "OUTPUT"}, account : Addresses, sats : Int]

\* A translation, up to any of its reads.
Translates(l) ==
    /\ DOMAIN l = DOMAIN NoLookup
    /\ l.tx \in Txs /\ l.block \in BlockOrNone
    /\ l.next \in 1 .. Len(Ins[l.tx]) + 1
    /\ l.symbol \in Nat \cup {NoSymbol}
    /\ l.record \in [sats : Nat, address : Nat]
    /\ l.operations \in Seq(Operations)

\* Where it waits for a read, there is an input at hand.
Waits(l) ==
    /\ l.stage \in {"txSymbol", "record", "owner", "answered", "unlisted"}
    /\ l.stage \in {"txSymbol", "record", "owner"} => l.next <= Len(Ins[l.tx])

\* Nothing is translated yet, or not at all.
Idles(l) ==
    /\ DOMAIN l = DOMAIN NoLookup
    /\ l.stage \in {"none", "refused"} /\ l.block \in BlockOrNone
    /\ l.symbol = NoSymbol /\ l.record = NoRecord /\ l.operations = <<>>

Looks(l) == Idles(l) \/ (Translates(l) /\ Waits(l))

LookedInv == Looks(lookup) /\ during \in Seq(BlockOrNone)

\* The outputs end a translation.
LEMMA OutputsListed ==
    ASSUME NEW l, Translates(l)
    PROVE  Translates(WithOutputs(l)) /\ Waits(WithOutputs(l))
<1> DEFINE out == OutputOperations(l.tx)
           e == [l EXCEPT !.stage = "unlisted", !.operations = <<>>]
           n == [l EXCEPT !.stage = "answered", !.operations = @ \o out]
<1>1. /\ DOMAIN l = DOMAIN NoLookup /\ l.tx \in Txs /\ l.block \in BlockOrNone
      /\ l.next \in 1 .. Len(Ins[l.tx]) + 1 /\ l.symbol \in Nat \cup {NoSymbol}
      /\ l.record \in [sats : Nat, address : Nat] /\ l.operations \in Seq(Operations)
  BY DEF Translates
<1>2. ASSUME NEW o \in Seq(Operations), NEW stage \in {"answered", "unlisted"}
      PROVE  LET r == [l EXCEPT !.stage = stage, !.operations = o]
             IN  Translates(r) /\ Waits(r)
  <2> DEFINE r == [l EXCEPT !.stage = stage, !.operations = o]
  <2>1. /\ DOMAIN r = DOMAIN NoLookup /\ r.tx = l.tx /\ r.block = l.block /\ r.next = l.next
        /\ r.symbol = l.symbol /\ r.record = l.record /\ r.operations = o /\ r.stage = stage
    BY <1>1 DEF NoLookup
  <2> HIDE DEF r
  <2>2. Translates(r)
    BY <1>1, <2>1 DEF Translates
  <2>3. Waits(r)
    BY <2>1 DEF Waits
  <2> QED
    BY <2>2, <2>3 DEF r
<1>3. CASE \E k \in DOMAIN Outs[l.tx] : Outs[l.tx][k].address = NoAddress
  <2>1. <<>> \in Seq(Operations)
    OBVIOUS
  <2>2. WithOutputs(l) = e
    BY <1>3 DEF WithOutputs
  <2> QED
    BY <1>2, <2>1, <2>2
<1>4. CASE ~\E k \in DOMAIN Outs[l.tx] : Outs[l.tx][k].address = NoAddress
  <2> DEFINE O == [address : Addresses \cup {NoAddress}, sats : Nat]
  <2>1. Outs[l.tx] \in Seq(O)
    BY <1>1, UtxoIndexerAssumption DEF UtxoIndexerAssumption
  <2>2. DOMAIN Outs[l.tx] = 1..Len(Outs[l.tx]) /\ Len(Outs[l.tx]) \in Nat
    BY <2>1
  <2>3. \A k \in 1..Len(Outs[l.tx]) : Outs[l.tx][k] \in O
    <3> HIDE DEF O
    <3> QED
      BY <2>1
  <2>4. \A k \in 1..Len(Outs[l.tx]) :
            Operation("OUTPUT", Outs[l.tx][k].address, Outs[l.tx][k].sats) \in Operations
    BY <1>4, <2>2, <2>3 DEF Operation, Operations
  <2>5. out \in Seq(Operations)
    <3>1. out = [k \in 1..Len(Outs[l.tx]) |->
                    Operation("OUTPUT", Outs[l.tx][k].address, Outs[l.tx][k].sats)]
      BY <2>2 DEF OutputOperations
    <3> HIDE DEF out
    <3>2. out \in [1..Len(Outs[l.tx]) -> Operations]
      BY <2>4, <3>1
    <3> QED
      BY <2>2, <3>2
  <2> HIDE DEF out
  <2>6. l.operations \o out \in Seq(Operations)
    BY <1>1, <2>5
  <2>7. WithOutputs(l) = n
    BY <1>4 DEF WithOutputs, out
  <2> QED
    BY <1>2, <2>6, <2>7
<1> QED
  BY <1>3, <1>4

\* A record that was found.
LEMMA OwnerAwaited ==
    ASSUME NEW l, Translates(l), l.next <= Len(Ins[l.tx]), NEW record \in Records
    PROVE  Translates(OwnerOf(l, record)) /\ Waits(OwnerOf(l, record))
<1> DEFINE r == [sats |-> record.sats, address |-> record.address]
           n == [l EXCEPT !.stage = "owner", !.record = r]
<1>1. r \in [sats : Nat, address : Nat]
  BY DEF Records
<1> HIDE DEF r
<1>2. /\ DOMAIN n = DOMAIN NoLookup /\ n.tx = l.tx /\ n.block = l.block /\ n.next = l.next
      /\ n.symbol = l.symbol /\ n.record = r /\ n.operations = l.operations
      /\ n.stage = "owner"
  BY DEF Translates, NoLookup
<1>3. OwnerOf(l, record) = n
  BY DEF OwnerOf, r
<1> HIDE DEF n
<1>4. Translates(n)
  BY <1>1, <1>2 DEF Translates
<1>5. Waits(n)
  BY <1>2 DEF Waits
<1> QED
  BY <1>3, <1>4, <1>5

\* A transaction symbol that was found, or is asked for.
LEMMA RecordAwaited ==
    ASSUME NEW l, Translates(l), l.next <= Len(Ins[l.tx])
    PROVE  /\ \A s \in Nat : LET n == [l EXCEPT !.stage = "record", !.symbol = s]
                             IN  Translates(n) /\ Waits(n)
           /\ LET n == [l EXCEPT !.stage = "txSymbol"] IN Translates(n) /\ Waits(n)
<1>1. ASSUME NEW s \in Nat
      PROVE  LET n == [l EXCEPT !.stage = "record", !.symbol = s] IN Translates(n) /\ Waits(n)
  <2> DEFINE n == [l EXCEPT !.stage = "record", !.symbol = s]
  <2>1. /\ DOMAIN n = DOMAIN NoLookup /\ n.tx = l.tx /\ n.block = l.block /\ n.next = l.next
        /\ n.symbol = s /\ n.record = l.record /\ n.operations = l.operations
        /\ n.stage = "record"
    BY DEF Translates, NoLookup
  <2> HIDE DEF n
  <2>2. Translates(n)
    BY <2>1 DEF Translates
  <2>3. Waits(n)
    BY <2>1 DEF Waits
  <2> QED
    BY <2>2, <2>3 DEF n
<1>2. LET n == [l EXCEPT !.stage = "txSymbol"] IN Translates(n) /\ Waits(n)
  <2> DEFINE n == [l EXCEPT !.stage = "txSymbol"]
  <2>1. /\ DOMAIN n = DOMAIN NoLookup /\ n.tx = l.tx /\ n.block = l.block /\ n.next = l.next
        /\ n.symbol = l.symbol /\ n.record = l.record /\ n.operations = l.operations
        /\ n.stage = "txSymbol"
    BY DEF Translates, NoLookup
  <2> HIDE DEF n
  <2>2. Translates(n)
    BY <2>1 DEF Translates
  <2>3. Waits(n)
    BY <2>1 DEF Waits
  <2> QED
    BY <2>2, <2>3 DEF n
<1> QED
  BY <1>1, <1>2

\* Whatever the caches hold, the step at an input waits for what it needs next.
LEMMA InputAwaited ==
    ASSUME Kept(mem), Typed(mem), NEW l, Translates(l)
    PROVE  Translates(AtInput(l)) /\ Waits(AtInput(l))
<1>1. CASE l.next > Len(Ins[l.tx])
  <2>1. AtInput(l) = WithOutputs(l)
    BY <1>1 DEF AtInput
  <2> QED
    BY <2>1, OutputsListed
<1>2. CASE ~(l.next > Len(Ins[l.tx]))
  <2> DEFINE ref == Ins[l.tx][l.next]
  <2>1. l.next <= Len(Ins[l.tx])
    <3>1. Ins[l.tx] \in Seq(OutputRefs) /\ l.next \in Nat
      BY UtxoIndexerAssumption DEF UtxoIndexerAssumption, Translates
    <3>2. Len(Ins[l.tx]) \in Nat
      BY <3>1
    <3> QED
      BY <1>2, <3>1, <3>2
  <2>2. \/ ref \in DOMAIN mem.seenUtxo /\ AtInput(l) = OwnerOf(l, mem.seenUtxo[ref].value)
        \/ /\ ref[1] \in DOMAIN mem.seenTx
           /\ AtInput(l) = [l EXCEPT !.stage = "record", !.symbol = mem.seenTx[ref[1]]]
        \/ AtInput(l) = [l EXCEPT !.stage = "txSymbol"]
    BY <1>2, Zenon DEF AtInput
  <2> HIDE DEF ref
  <2>3. ref \in DOMAIN mem.seenUtxo => mem.seenUtxo[ref].value \in Records
    BY DEF Kept
  <2>4. ref[1] \in DOMAIN mem.seenTx => mem.seenTx[ref[1]] \in Nat
    BY DEF Typed
  <2>5. CASE ref \in DOMAIN mem.seenUtxo /\ AtInput(l) = OwnerOf(l, mem.seenUtxo[ref].value)
    <3> DEFINE v == mem.seenUtxo[ref].value
    <3>1. v \in Records /\ AtInput(l) = OwnerOf(l, v)
      BY <2>3, <2>5
    <3> HIDE DEF v
    <3> QED
      BY <2>1, <3>1, OwnerAwaited
  <2>6. CASE /\ ref[1] \in DOMAIN mem.seenTx
             /\ AtInput(l) = [l EXCEPT !.stage = "record", !.symbol = mem.seenTx[ref[1]]]
    <3> DEFINE s == mem.seenTx[ref[1]]
    <3>1. s \in Nat /\ AtInput(l) = [l EXCEPT !.stage = "record", !.symbol = s]
      BY <2>4, <2>6
    <3> HIDE DEF s
    <3>2. \A x \in Nat : LET n == [l EXCEPT !.stage = "record", !.symbol = x]
                         IN  Translates(n) /\ Waits(n)
      BY <2>1, RecordAwaited
    <3> QED
      BY <3>1, <3>2
  <2>7. CASE AtInput(l) = [l EXCEPT !.stage = "txSymbol"]
    BY <2>1, <2>7, RecordAwaited
  <2> QED
    BY <2>2, <2>5, <2>6, <2>7
<1> QED
  BY <1>1, <1>2

LEMMA OnwardAwaited ==
    ASSUME Kept(mem), Typed(mem), NEW l, Translates(l), l.next <= Len(Ins[l.tx])
    PROVE  Translates(Onward(l)) /\ Waits(Onward(l))
<1> DEFINE n == [l EXCEPT !.next = @ + 1, !.symbol = NoSymbol, !.record = NoRecord]
<1>1. Len(Ins[l.tx]) \in Nat
  <2>1. Ins[l.tx] \in Seq(OutputRefs)
    BY UtxoIndexerAssumption DEF UtxoIndexerAssumption, Translates
  <2> QED
    BY <2>1
<1>2. l.next + 1 \in 1 .. Len(Ins[l.tx]) + 1
  BY <1>1 DEF Translates
<1>3. NoRecord \in [sats : Nat, address : Nat] /\ NoSymbol \in Nat \cup {NoSymbol}
  BY DEF NoRecord
<1>4. /\ DOMAIN n = DOMAIN NoLookup /\ n.tx = l.tx /\ n.block = l.block /\ n.next = l.next + 1
      /\ n.symbol = NoSymbol /\ n.record = NoRecord /\ n.operations = l.operations
  BY DEF Translates, NoLookup
<1> HIDE DEF n
<1>5. Translates(n)
  BY <1>2, <1>3, <1>4 DEF Translates
<1>6. Onward(l) = AtInput(n)
  BY DEF Onward, n
<1> QED
  BY <1>5, <1>6, InputAwaited

LEMMA AskedAwaited ==
    ASSUME Kept(mem), Typed(mem), NEW t \in Txs, NEW b \in BlockOrNone
    PROVE  Translates(Asked(t, b)) /\ Waits(Asked(t, b))
<1> DEFINE n == [NoLookup EXCEPT !.tx = t, !.block = b]
<1>1. 1 \in 1 .. Len(Ins[t]) + 1
  <2>1. Ins[t] \in Seq(OutputRefs)
    BY UtxoIndexerAssumption DEF UtxoIndexerAssumption
  <2>2. Len(Ins[t]) \in Nat
    BY <2>1
  <2> QED
    BY <2>2
<1>2. /\ NoRecord \in [sats : Nat, address : Nat] /\ NoSymbol \in Nat \cup {NoSymbol}
      /\ <<>> \in Seq(Operations)
  BY DEF NoRecord
<1>3. /\ DOMAIN n = DOMAIN NoLookup /\ n.tx = t /\ n.block = b /\ n.next = 1
      /\ n.symbol = NoSymbol /\ n.record = NoRecord /\ n.operations = <<>>
  BY DEF NoLookup
<1> HIDE DEF n
<1>4. Translates(n)
  BY <1>1, <1>2, <1>3 DEF Translates
<1>5. Asked(t, b) = AtInput(n)
  BY DEF Asked, n
<1> QED
  BY <1>4, <1>5, InputAwaited

LEMMA NothingLookedUp == Looks(NoLookup)
  BY DEF Looks, Idles, NoLookup, BlockOrNone

\* Every step keeps the type.
LEMMA LookedInvStep ==
    FlushInv /\ FlushInv' /\ SymbolInv /\ RecordInv /\ TypedInv /\ LookedInv
        /\ [BlockNext]_blockVars => LookedInv'
<1> SUFFICES ASSUME FlushInv, FlushInv', SymbolInv, RecordInv, TypedInv, LookedInv,
                    [BlockNext]_blockVars
             PROVE  LookedInv'
  OBVIOUS
<1>1. during \in Seq(BlockOrNone) /\ db.best \in BlockOrNone /\ db'.best \in BlockOrNone
  BY DEF LookedInv, FlushInv
<1>2. <<db.best>> \in Seq(BlockOrNone) /\ <<>> \in Seq(BlockOrNone)
  BY <1>1
<1>3. Typed(mem) /\ (pc # "aborted" => Kept(mem))
  BY DEF TypedInv, RecordInv
<1>4. ASSUME NEW stage \in {"txSymbol", "record", "owner"}, LookingUp(stage)
      PROVE  /\ Kept(mem) /\ Translates(lookup) /\ lookup.next <= Len(Ins[lookup.tx])
             /\ lookup.stage = stage
  <2>1. lookup.stage = stage /\ Kept(mem)
    BY <1>3, <1>4 DEF LookingUp
  <2>2. Translates(lookup) /\ Waits(lookup)
    BY <2>1 DEF LookedInv, Looks, Idles
  <2> QED
    BY <2>1, <2>2 DEF Waits
<1>5. CASE AskBlock
  <2>0. PICK b \in Blocks : \E t \in ToSet(TxsOf[b]) :
            lookup' = IF Available(b) THEN Asked(t, b)
                      ELSE [NoLookup EXCEPT !.stage = "refused", !.block = b]
    BY <1>5 DEF AskBlock
  <2>1. PICK t \in ToSet(TxsOf[b]) :
            lookup' = IF Available(b) THEN Asked(t, b)
                      ELSE [NoLookup EXCEPT !.stage = "refused", !.block = b]
    BY <2>0
  <2>2. t \in Txs
    <3>1. TxsOf[b] \in Seq(Txs)
      BY UtxoIndexerAssumption DEF UtxoIndexerAssumption
    <3> QED
      BY <2>1, <3>1 DEF ToSet
  <2>3. Kept(mem) /\ b \in BlockOrNone
    BY <1>3, <1>5 DEF AskBlock, LookingUp, BlockOrNone
  <2>4. CASE Available(b)
    <3>1. Translates(lookup') /\ Waits(lookup')
      BY <1>3, <2>1, <2>2, <2>3, <2>4, AskedAwaited
    <3>2. Looks(lookup')
      BY <3>1 DEF Looks
    <3> QED
      BY <1>2, <1>5, <3>2 DEF AskBlock, LookedInv
  <2>5. CASE ~Available(b)
    <3>1. lookup' = [NoLookup EXCEPT !.stage = "refused", !.block = b]
      BY <2>1, <2>5
    <3>2. Idles(lookup')
      BY <2>3, <3>1 DEF Idles, NoLookup
    <3>3. Looks(lookup')
      BY <3>2 DEF Looks
    <3> QED
      BY <1>2, <1>5, <3>3 DEF AskBlock, LookedInv
  <2> QED
    BY <2>4, <2>5
<1>6. CASE AskMempool
  <2>1. PICK t \in Pending : lookup' = Asked(t, NoBlock)
    BY <1>6 DEF AskMempool
  <2>2. t \in Txs /\ NoBlock \in BlockOrNone /\ Kept(mem)
    BY <1>3, <1>6, PendingAssumption DEF PendingAssumption, BlockOrNone, AskMempool, LookingUp
  <2>3. Translates(lookup') /\ Waits(lookup')
    BY <1>3, <2>1, <2>2, AskedAwaited
  <2>4. Looks(lookup')
    BY <2>3 DEF Looks
  <2> QED
    BY <1>2, <1>6, <2>4 DEF AskMempool, LookedInv
<1>7. CASE ReadTxSymbol
  <2> DEFINE t == Ins[lookup.tx][lookup.next][1]
  <2>1. /\ \/ lookup' = Onward(lookup)
           \/ t \in DOMAIN db.tx
              /\ lookup' = [lookup EXCEPT !.stage = "record", !.symbol = db.tx[t]]
        /\ LookingUp("txSymbol") /\ during' = during
    BY <1>7 DEF ReadTxSymbol
  <2>2. t \in DOMAIN db.tx => db.tx[t] \in Nat
    BY DEF SymbolInv, NameInv, TxNames
  <2> HIDE DEF t
  <2>3. Kept(mem) /\ Translates(lookup) /\ lookup.next <= Len(Ins[lookup.tx])
    BY <1>4, <2>1
  <2>4. Translates(Onward(lookup)) /\ Waits(Onward(lookup))
    BY <1>3, <2>3, OnwardAwaited
  <2>5. \A s \in Nat : LET n == [lookup EXCEPT !.stage = "record", !.symbol = s]
                       IN  Translates(n) /\ Waits(n)
    BY <2>3, RecordAwaited
  <2>6. Translates(lookup') /\ Waits(lookup')
    BY <2>1, <2>2, <2>4, <2>5
  <2>7. Looks(lookup')
    BY <2>6 DEF Looks
  <2> QED
    BY <1>1, <2>1, <2>7 DEF LookedInv
<1>8. CASE ReadUtxo
  <2> DEFINE key == <<lookup.symbol, Ins[lookup.tx][lookup.next][2]>>
  <2>1. /\ \/ lookup' = Onward(lookup)
           \/ key \in DOMAIN db.utxo /\ lookup' = OwnerOf(lookup, db.utxo[key])
        /\ LookingUp("record") /\ during' = during
    BY <1>8 DEF ReadUtxo
  <2>2. key \in DOMAIN db.utxo => db.utxo[key] \in Records
    BY DEF RecordInv, Readies
  <2> HIDE DEF key
  <2>3. Kept(mem) /\ Translates(lookup) /\ lookup.next <= Len(Ins[lookup.tx])
    BY <1>4, <2>1
  <2>4. Translates(Onward(lookup)) /\ Waits(Onward(lookup))
    BY <1>3, <2>3, OnwardAwaited
  <2>5. Translates(lookup') /\ Waits(lookup')
    BY <2>1, <2>2, <2>3, <2>4, OwnerAwaited
  <2>6. Looks(lookup')
    BY <2>5 DEF Looks
  <2> QED
    BY <1>1, <2>1, <2>6 DEF LookedInv
<1>9. CASE ReadOwner
  <2> DEFINE owner == ListOf(db, lookup.record.address).address
             op == Operation("INPUT", owner, -lookup.record.sats)
             n == [lookup EXCEPT !.operations = Append(@, op)]
  <2>1. /\ \/ lookup' = Onward(lookup)
           \/ owner # NoAddress /\ lookup' = Onward(n)
        /\ LookingUp("owner") /\ during' = during
    BY <1>9 DEF ReadOwner
  <2>2. Kept(mem) /\ Translates(lookup) /\ lookup.next <= Len(Ins[lookup.tx])
    BY <1>4, <2>1
  <2>3. owner \in Addresses \cup {NoAddress}
    BY ListOfType DEF TypedInv, Lists
  <2> HIDE DEF owner
  <2>4. -lookup.record.sats \in Int
    BY <2>2 DEF Translates
  <2>5. owner # NoAddress => op \in Operations
    BY <2>3, <2>4 DEF Operation, Operations
  <2> HIDE DEF op
  <2>6. op \in Operations => Append(lookup.operations, op) \in Seq(Operations)
    BY <2>2 DEF Translates
  <2>7. op \in Operations => Translates(n) /\ n.next <= Len(Ins[n.tx])
    <3>1. /\ DOMAIN n = DOMAIN NoLookup /\ n.tx = lookup.tx /\ n.block = lookup.block
          /\ n.next = lookup.next /\ n.symbol = lookup.symbol /\ n.record = lookup.record
          /\ n.operations = Append(lookup.operations, op)
      BY <2>2 DEF Translates, NoLookup
    <3> HIDE DEF n
    <3> QED
      BY <2>2, <2>6, <3>1 DEF Translates
  <2> HIDE DEF n
  <2>8. Translates(lookup') /\ Waits(lookup')
    BY <1>3, <2>1, <2>2, <2>5, <2>7, OnwardAwaited
  <2>9. Looks(lookup')
    BY <2>8 DEF Looks
  <2> QED
    BY <1>1, <2>1, <2>9 DEF LookedInv
<1>10. Looks(NoLookup)
  BY NothingLookedUp
<1>11. CASE Answer
  BY <1>2, <1>10, <1>11 DEF Answer, LookedInv
<1>12. CASE IndexerSteps
  <2>1. lookup' = lookup \/ lookup' = NoLookup
    BY <1>12 DEF IndexerSteps
  <2>2. during' \in {<<>>, during, Append(during, db'.best)}
    BY <1>12, Zenon DEF IndexerSteps
  <2>3. Append(during, db'.best) \in Seq(BlockOrNone)
    BY <1>1
  <2>4. during' \in Seq(BlockOrNone)
    BY <1>1, <1>2, <2>2, <2>3
  <2>5. Looks(lookup')
    BY <1>10, <2>1 DEF LookedInv
  <2> QED
    BY <2>4, <2>5 DEF LookedInv
<1>13. CASE UNCHANGED blockVars
  BY <1>13 DEF blockVars, LookedInv
<1> QED
  BY <1>5, <1>6, <1>7, <1>8, <1>9, <1>11, <1>12, <1>13 DEF BlockNext, Lookup

\* The type invariant.
LEMMA LookedIsTyped == LookedInv => LookupTypeOK
<1> SUFFICES ASSUME LookedInv PROVE LookupTypeOK
  OBVIOUS
<1>1. NoRecord \in [sats : Nat, address : Nat] /\ NoSymbol \in Nat \cup {NoSymbol}
  BY DEF NoRecord
<1>2. CASE Idles(lookup)
  BY <1>1, <1>2 DEF Idles, LookedInv, LookupTypeOK
<1>3. CASE Translates(lookup) /\ Waits(lookup)
  <2>1. \A i \in DOMAIN lookup.operations : lookup.operations[i] \in Operations
    BY <1>3 DEF Translates
  <2> QED
    BY <1>3, <2>1 DEF Translates, Waits, LookedInv, LookupTypeOK, Operations
<1> QED
  BY <1>2, <1>3 DEF LookedInv, Looks

\* A translation has its type in every state (LookupTypeOK): with blocks added, flushed and
\* removed between its reads, the tables and the last-seen caches give it symbols, records and
\* owners, and it answers with operations of addresses only.
THEOREM LookupsTyped == BlockSpec => []LookupTypeOK
<1>1. BlockInit => FlushInv /\ SymbolInv /\ RecordInv /\ TypedInv /\ LookedInv
  <2>1. BlockInit => FlushInv /\ SymbolInv /\ RecordInv /\ TypedInv
    BY FlushInvInit, SymbolInvInit, RecordInvInit, TypedInvInit DEF BlockInit
  <2>2. BlockInit => LookedInv
    BY NothingLookedUp DEF BlockInit, LookedInv
  <2> QED
    BY <2>1, <2>2
<1>2. FlushInv /\ SymbolInv /\ RecordInv /\ TypedInv /\ LookedInv /\ [BlockNext]_blockVars
        => (FlushInv /\ SymbolInv /\ RecordInv /\ TypedInv /\ LookedInv)'
  BY LookupStep, FlushInvNext, SymbolInvNext, RecordInvNext, TypedInvNext, LookedInvStep
<1> QED
  BY <1>1, <1>2, LookedIsTyped, PTL DEF BlockSpec

------------------------------------------------------------------------------
(* The operations of some inputs *)

\* What the input at position n gives, if its owner is found.
InputOperation(t, n) == Operation("INPUT", Paid(Ins[t][n]).address, -Paid(Ins[t][n]).sats)

\* f holds the operations of the inputs up to each position.
FoundRun(f, t, found) ==
    /\ f[0] = <<>>
    /\ \A n \in 0..Len(Ins[t]) : n < Len(Ins[t]) =>
          f[n + 1] = IF n + 1 \notin found THEN f[n]
                     ELSE Append(f[n], InputOperation(t, n + 1))

\* The recursion has a solution, whose last value it is.
LEMMA FoundUnfolds ==
    ASSUME NEW t, NEW found, Len(Ins[t]) \in Nat
    PROVE  \E f : FoundRun(f, t, found) /\ InputOperationsAt(t, found) = f[Len(Ins[t])]
<1> DEFINE N == Len(Ins[t])
           Next1(v, n) == IF n \notin found THEN v ELSE Append(v, InputOperation(t, n))
           Solves(f, k) == f = [n \in 0..k |-> IF n = 0 THEN <<>> ELSE Next1(f[n - 1], n)]
           S == {k \in 0..N : \E f : Solves(f, k)}
<1>1. 0 \in S
  <2>1. Solves([n \in 0..0 |-> <<>>], 0)
    <3>1. \A n \in 0..0 : n = 0
      OBVIOUS
    <3> HIDE DEF Next1
    <3> QED
      BY <3>1, Zenon
  <2>2. 0 \in 0..N
    OBVIOUS
  <2> HIDE DEF Solves, N
  <2> QED
    BY <2>1, <2>2
<1>2. ASSUME NEW k \in S, k < N PROVE k + 1 \in S
  <2>1. PICK f : Solves(f, k)
    OBVIOUS
  <2> DEFINE g == [n \in 0..(k + 1) |-> IF n = k + 1 THEN Next1(f[k], n) ELSE f[n]]
  <2> HIDE DEF Next1
  <2>2. k \in Nat /\ k + 1 \in 0..N
    BY <1>2
  <2>3. ASSUME NEW n \in 0..(k + 1)
        PROVE  g[n] = IF n = 0 THEN <<>> ELSE Next1(g[n - 1], n)
    BY <2>1, <2>2
  <2>4. Solves(g, k + 1)
    BY <2>3, Zenon
  <2> HIDE DEF Solves, N, g
  <2> QED
    BY <2>2, <2>4
<1>3. \E f : Solves(f, N)
  <2>1. S \in SUBSET (0..N)
    OBVIOUS
  <2>2. N \in Nat
    OBVIOUS
  <2> HIDE DEF S, N
  <2>3. N \in S
    BY <1>1, <1>2, <2>1, <2>2, UpTo
  <2> QED
    BY <2>3 DEF S
<1> DEFINE q == CHOOSE f : Solves(f, N)
<1>4. Solves(q, N)
  BY <1>3
<1>5. InputOperationsAt(t, found) = q[N]
  BY Zenon DEF InputOperationsAt, InputOperation
<1> HIDE DEF q, Next1
<1>6. q[0] = <<>>
  BY <1>4
<1>7. ASSUME NEW n \in 0..N, n < N PROVE q[n + 1] = Next1(q[n], n + 1)
  BY <1>4, <1>7
<1> QED
  BY <1>5, <1>6, <1>7 DEF Next1, FoundRun

\* Nothing found, no operations.
LEMMA NothingFound ==
    ASSUME NEW t, Len(Ins[t]) \in Nat
    PROVE  InputOperationsAt(t, {}) = <<>>
<1> DEFINE N == Len(Ins[t])
<1>1. PICK f : FoundRun(f, t, {}) /\ InputOperationsAt(t, {}) = f[N]
  BY FoundUnfolds
<1> DEFINE S == {n \in 0..N : f[n] = <<>>}
<1>2. 0 \in S /\ S \in SUBSET (0..N) /\ N \in Nat
  BY <1>1 DEF FoundRun
<1>3. ASSUME NEW n \in S, n < N PROVE n + 1 \in S
  BY <1>1, <1>3 DEF FoundRun
<1> HIDE DEF S, N
<1>4. N \in S
  BY <1>2, <1>3, UpTo
<1> QED
  BY <1>1, <1>4 DEF S

\* One more input found, after the others.
LEMMA OneMoreFound ==
    ASSUME NEW t, Len(Ins[t]) \in Nat, NEW k \in 1..Len(Ins[t]), NEW found \in SUBSET (1..(k - 1))
    PROVE  InputOperationsAt(t, found \cup {k}) =
               Append(InputOperationsAt(t, found), InputOperation(t, k))
<1> DEFINE N == Len(Ins[t])
           more == found \cup {k}
           op == InputOperation(t, k)
<1>1. PICK f : FoundRun(f, t, more) /\ InputOperationsAt(t, more) = f[N]
  BY FoundUnfolds
<1>2. PICK g : FoundRun(g, t, found) /\ InputOperationsAt(t, found) = g[N]
  BY FoundUnfolds
<1> DEFINE S == {n \in 0..N : f[n] = IF n < k THEN g[n] ELSE Append(g[n], op)}
<1>3. 0 \in S /\ S \in SUBSET (0..N) /\ N \in Nat
  BY <1>1, <1>2 DEF FoundRun
<1>4. ASSUME NEW n \in S, n < N PROVE n + 1 \in S
  <2>1. n \in 0..N /\ n \in Nat /\ k \in Nat /\ n + 1 \in 0..N
    BY <1>4
  <2>2. /\ f[n + 1] = IF n + 1 \notin more THEN f[n]
                      ELSE Append(f[n], InputOperation(t, n + 1))
        /\ g[n + 1] = IF n + 1 \notin found THEN g[n]
                      ELSE Append(g[n], InputOperation(t, n + 1))
    BY <1>1, <1>2, <1>4, <2>1 DEF FoundRun
  <2>3. f[n] = IF n < k THEN g[n] ELSE Append(g[n], op)
    OBVIOUS
  <2>4. CASE n + 1 < k
    <3>1. n + 1 \in more <=> n + 1 \in found
      BY <2>1, <2>4
    <3> QED
      BY <2>1, <2>2, <2>3, <2>4, <3>1
  <2>5. CASE n + 1 = k
    <3>1. n + 1 \in more /\ n + 1 \notin found /\ n < k /\ ~(n + 1 < k)
      BY <2>1, <2>5
    <3> QED
      BY <2>1, <2>2, <2>3, <2>5, <3>1
  <2>6. CASE n + 1 > k
    <3>1. n + 1 \notin more /\ n + 1 \notin found /\ ~(n < k) /\ ~(n + 1 < k)
      BY <2>1, <2>6
    <3> QED
      BY <2>1, <2>2, <2>3, <3>1
  <2> QED
    BY <2>1, <2>4, <2>5, <2>6
<1>5. ~(N < k)
  OBVIOUS
<1> HIDE DEF S, N, more, op
<1>6. N \in S
  BY <1>3, <1>4, UpTo
<1>7. f[N] = Append(g[N], op)
  BY <1>5, <1>6 DEF S
<1> QED
  BY <1>1, <1>2, <1>7 DEF more, op

------------------------------------------------------------------------------
(* What a translation finds, whatever happens between its reads *)

Grew(blocks) == \A i \in 1 .. Len(blocks) - 1 : blocks[i] \in Chain[blocks[i + 1]]

Indexed(t, blocks) == \A b \in Range(blocks) : \A ref \in Spends(t) : ref[1] \in Mined(b)

Listed(t) == \A ref \in Spends(t) : Addressed(ref)

\* The last block noted is the one the database is at.
NotedInv == lookup.stage # "none" => during # <<>> /\ Last(during) = db.best

\* The symbol a translation remembers is that of the transaction it looks for, the record
\* that of the output.
Sees(l) ==
    LET ref == Ins[l.tx][l.next]
    IN  /\ l.stage = "record" => l.symbol \in Nat /\ TxHere(l.symbol, ref[1])
        /\ l.stage = "owner" => SeenOutput(ref, l.record)

\* These are operations of some of the first n inputs, of all of them if what the transaction
\* spends stays and has an address.
Finds(operations, t, n, blocks) ==
    \E found \in SUBSET (1..n) :
        /\ operations = InputOperationsAt(t, found)
        /\ Indexed(t, blocks) /\ Listed(t) => found = 1..n

\* Nothing is made up, unless a block leaves and with it what the transaction spends.
Told(l, blocks) ==
    Grew(blocks) \/ Indexed(l.tx, blocks) =>
        /\ l.stage \in {"txSymbol", "record", "owner"} =>
              /\ pc # "aborted" => Sees(l)
              /\ Finds(l.operations, l.tx, l.next - 1, blocks)
        /\ l.stage = "answered" =>
              \E operations : /\ Finds(operations, l.tx, Len(Ins[l.tx]), blocks)
                              /\ l.operations = operations \o OutputOperations(l.tx)

OpsInv == Told(lookup, during)

\* What there is of inputs.
LEMMA InputsOf ==
    ASSUME NEW t \in Txs
    PROVE  /\ Len(Ins[t]) \in Nat /\ DOMAIN Ins[t] = 1..Len(Ins[t])
           /\ \A n \in 1..Len(Ins[t]) :
                 /\ Ins[t][n] \in OutputRefs /\ Ins[t][n] \in Spends(t)
                 /\ Ins[t][n] = <<Ins[t][n][1], Ins[t][n][2]>>
                 /\ Outs[Ins[t][n][1]][Ins[t][n][2]] = Paid(Ins[t][n])
                 /\ Paid(Ins[t][n]).address \in Addresses \cup {NoAddress}
<1>1. Ins[t] \in Seq(OutputRefs)
  BY UtxoIndexerAssumption DEF UtxoIndexerAssumption
<1>2. Len(Ins[t]) \in Nat /\ DOMAIN Ins[t] = 1..Len(Ins[t])
  BY <1>1
<1>3. ASSUME NEW n \in 1..Len(Ins[t])
      PROVE  Ins[t][n] \in OutputRefs /\ Ins[t][n] \in Spends(t)
  BY <1>1, <1>2 DEF Spends, ToSet
<1>4. ASSUME NEW ref \in OutputRefs
      PROVE  ref = <<ref[1], ref[2]>> /\ Paid(ref).address \in Addresses \cup {NoAddress}
  <2>1. PICK u \in Txs : \E n \in DOMAIN Outs[u] : ref = <<u, n>>
    BY <1>4 DEF OutputRefs
  <2>2. PICK n \in DOMAIN Outs[u] : ref = <<u, n>>
    BY <2>1
  <2> DEFINE O == [address : Addresses \cup {NoAddress}, sats : Nat]
  <2>3. Outs[u] \in Seq(O)
    BY UtxoIndexerAssumption DEF UtxoIndexerAssumption
  <2>4. O = [address : Addresses \cup {NoAddress}, sats : Nat]
    OBVIOUS
  <2> HIDE DEF O
  <2>5. Outs[u][n] \in O
    BY <2>3, <2>2
  <2> QED
    BY <2>2, <2>4, <2>5 DEF Paid
<1> QED
  BY <1>2, <1>3, <1>4 DEF Paid

\* The step at an input tells no more than was found, and sees what the caches have.
LEMMA InputTold ==
    ASSUME SymbolInv, RecordInv, TypedInv, TableInv, CacheInv, pc # "aborted",
           NEW l, Translates(l), NEW blocks,
           Grew(blocks) \/ Indexed(l.tx, blocks) => Finds(l.operations, l.tx, l.next - 1, blocks)
    PROVE  Told(AtInput(l), blocks)
<1> DEFINE N == Len(Ins[l.tx])
           ops == l.operations
           Steady == Grew(blocks) \/ Indexed(l.tx, blocks)
<1>1. /\ N \in Nat /\ l.next \in 1..N + 1 /\ DOMAIN l = DOMAIN NoLookup
      /\ Typed(mem) /\ Kept(mem)
  BY InputsOf DEF Translates, TypedInv, RecordInv
<1>2. CASE l.next > N
  <2>1. l.next - 1 = N /\ AtInput(l) = WithOutputs(l)
    BY <1>1, <1>2 DEF AtInput
  <2> DEFINE e == [l EXCEPT !.stage = "unlisted", !.operations = <<>>]
             a == [l EXCEPT !.stage = "answered", !.operations = @ \o OutputOperations(l.tx)]
  <2>2. WithOutputs(l) = e \/ WithOutputs(l) = a
    BY Zenon DEF WithOutputs
  <2>3. e.stage = "unlisted"
    BY <1>1 DEF NoLookup
  <2>4. a.stage = "answered" /\ a.tx = l.tx /\ a.operations = ops \o OutputOperations(l.tx)
    BY <1>1 DEF NoLookup
  <2> HIDE DEF e, a
  <2>5. Told(e, blocks)
    BY <2>3 DEF Told
  <2>6. Steady => Finds(ops, l.tx, N, blocks)
    BY <2>1
  <2>7. Told(a, blocks)
    BY <2>4, <2>6 DEF Told
  <2> QED
    BY <2>1, <2>2, <2>5, <2>7
<1>3. CASE l.next <= N
  <2> DEFINE ref == Ins[l.tx][l.next]
  <2>1. ASSUME NEW n, n.tx = l.tx, n.next = l.next, n.operations = ops, Sees(n),
               n.stage # "answered"
        PROVE  Told(n, blocks)
    BY <2>1 DEF Told
  <2>2. ~(l.next > N)
    BY <1>1, <1>3
  <2>3. \/ ref \in DOMAIN mem.seenUtxo /\ AtInput(l) = OwnerOf(l, mem.seenUtxo[ref].value)
        \/ /\ ref[1] \in DOMAIN mem.seenTx
           /\ AtInput(l) = [l EXCEPT !.stage = "record", !.symbol = mem.seenTx[ref[1]]]
        \/ AtInput(l) = [l EXCEPT !.stage = "txSymbol"]
    BY <2>2, Zenon DEF AtInput
  <2>4. CASE ref \in DOMAIN mem.seenUtxo /\ AtInput(l) = OwnerOf(l, mem.seenUtxo[ref].value)
    <3> DEFINE v == mem.seenUtxo[ref].value
               n == OwnerOf(l, v)
    <3>1. /\ n.tx = l.tx /\ n.next = l.next /\ n.operations = ops /\ n.stage = "owner"
          /\ n.record = [sats |-> v.sats, address |-> v.address]
      BY <1>1 DEF OwnerOf, NoLookup
    <3>2. SeenOutput(ref, v)
      BY <2>4, SeenHere
    <3> HIDE DEF n, v
    <3>3. SeenOutput(ref, n.record)
      <4>1. n.record.sats = v.sats /\ n.record.address = v.address
        BY <3>1
      <4> QED
        BY <3>2, <4>1 DEF SeenOutput
    <3>4. Sees(n)
      BY <3>1, <3>3 DEF Sees
    <3> QED
      BY <2>1, <2>4, <3>1, <3>4 DEF n, v
  <2>5. CASE /\ ref[1] \in DOMAIN mem.seenTx
             /\ AtInput(l) = [l EXCEPT !.stage = "record", !.symbol = mem.seenTx[ref[1]]]
    <3> DEFINE s == mem.seenTx[ref[1]]
               n == [l EXCEPT !.stage = "record", !.symbol = s]
    <3>1. /\ n.tx = l.tx /\ n.next = l.next /\ n.operations = ops /\ n.stage = "record"
          /\ n.symbol = s
      BY <1>1 DEF NoLookup
    <3>2. s \in Nat /\ TxHere(s, ref[1])
      BY <1>1, <2>5, SeenHere DEF Typed
    <3> HIDE DEF n, s
    <3>4. Sees(n)
      BY <3>1, <3>2 DEF Sees
    <3> QED
      BY <2>1, <2>5, <3>1, <3>4 DEF n, s
  <2>6. CASE AtInput(l) = [l EXCEPT !.stage = "txSymbol"]
    <3> DEFINE n == [l EXCEPT !.stage = "txSymbol"]
    <3>1. n.tx = l.tx /\ n.next = l.next /\ n.operations = ops /\ n.stage = "txSymbol"
      BY <1>1 DEF NoLookup
    <3> HIDE DEF n
    <3>4. Sees(n)
      BY <3>1 DEF Sees
    <3> QED
      BY <2>1, <2>6, <3>1, <3>4 DEF n
  <2> QED
    BY <2>3, <2>4, <2>5, <2>6
<1> QED
  BY <1>1, <1>2, <1>3

\* From one input to the next.
LEMMA OnwardTold ==
    ASSUME SymbolInv, RecordInv, TypedInv, TableInv, CacheInv, pc # "aborted",
           NEW l, Translates(l), l.next <= Len(Ins[l.tx]), NEW blocks,
           Grew(blocks) \/ Indexed(l.tx, blocks) => Finds(l.operations, l.tx, l.next, blocks)
    PROVE  Told(Onward(l), blocks)
<1> DEFINE n == [l EXCEPT !.next = @ + 1, !.symbol = NoSymbol, !.record = NoRecord]
<1>1. Len(Ins[l.tx]) \in Nat
  BY InputsOf DEF Translates
<1>2. l.next + 1 \in 1 .. Len(Ins[l.tx]) + 1 /\ (l.next + 1) - 1 = l.next
  BY <1>1 DEF Translates
<1>3. NoRecord \in [sats : Nat, address : Nat] /\ NoSymbol \in Nat \cup {NoSymbol}
  BY DEF NoRecord
<1>4. /\ DOMAIN n = DOMAIN NoLookup /\ n.tx = l.tx /\ n.block = l.block /\ n.next = l.next + 1
      /\ n.symbol = NoSymbol /\ n.record = NoRecord /\ n.operations = l.operations
  BY DEF Translates, NoLookup
<1> HIDE DEF n
<1>5. Translates(n)
  BY <1>2, <1>3, <1>4 DEF Translates
<1>6. Onward(l) = AtInput(n)
  BY DEF Onward, n
<1>7. Grew(blocks) \/ Indexed(n.tx, blocks) => Finds(n.operations, n.tx, n.next - 1, blocks)
  BY <1>2, <1>4
<1> QED
  BY <1>5, <1>6, <1>7, InputTold

\* An input is only skipped if what it spends does not stay or has no address.
LEMMA SkipFinds ==
    ASSUME NEW operations, NEW t, NEW n \in Nat \ {0}, NEW blocks,
           Finds(operations, t, n - 1, blocks), ~(Indexed(t, blocks) /\ Listed(t))
    PROVE  Finds(operations, t, n, blocks)
<1>1. PICK found \in SUBSET (1..(n - 1)) : operations = InputOperationsAt(t, found)
  BY DEF Finds
<1>2. found \in SUBSET (1..n)
  OBVIOUS
<1> QED
  BY <1>1, <1>2 DEF Finds

\* One whose owner is read gives its operation.
LEMMA OwnerFinds ==
    ASSUME NEW operations, NEW t \in Txs, NEW n \in 1..Len(Ins[t]), NEW blocks,
           Finds(operations, t, n - 1, blocks)
    PROVE  Finds(Append(operations, InputOperation(t, n)), t, n, blocks)
<1>1. Len(Ins[t]) \in Nat
  BY InputsOf
<1>2. PICK found \in SUBSET (1..(n - 1)) :
         /\ operations = InputOperationsAt(t, found)
         /\ Indexed(t, blocks) /\ Listed(t) => found = 1..(n - 1)
  BY DEF Finds
<1>3. InputOperationsAt(t, found \cup {n}) = Append(operations, InputOperation(t, n))
  BY <1>1, <1>2, OneMoreFound
<1>4. found \cup {n} \in SUBSET (1..n) /\ 1..(n - 1) \cup {n} = 1..n
  BY <1>1
<1> QED
  BY <1>2, <1>3, <1>4 DEF Finds

\* Nothing is found before the first input.
LEMMA AskedTold ==
    ASSUME SymbolInv, RecordInv, TypedInv, TableInv, CacheInv, pc # "aborted",
           NEW t \in Txs, NEW b \in BlockOrNone, NEW blocks
    PROVE  Told(Asked(t, b), blocks)
<1> DEFINE n == [NoLookup EXCEPT !.tx = t, !.block = b]
<1>1. Len(Ins[t]) \in Nat
  BY InputsOf
<1>2. 1 \in 1 .. Len(Ins[t]) + 1
  BY <1>1
<1>3. /\ NoRecord \in [sats : Nat, address : Nat] /\ NoSymbol \in Nat \cup {NoSymbol}
      /\ <<>> \in Seq(Operations)
  BY DEF NoRecord
<1>4. /\ DOMAIN n = DOMAIN NoLookup /\ n.tx = t /\ n.block = b /\ n.next = 1
      /\ n.symbol = NoSymbol /\ n.record = NoRecord /\ n.operations = <<>>
  BY DEF NoLookup
<1> HIDE DEF n
<1>5. Translates(n)
  BY <1>2, <1>3, <1>4 DEF Translates
<1>6. Asked(t, b) = AtInput(n)
  BY DEF Asked, n
<1>7. {} \in SUBSET (1..0) /\ {} = 1..0 /\ 1 - 1 = 0
  OBVIOUS
<1>8. Finds(<<>>, t, 0, blocks)
  BY <1>1, <1>7, NothingFound DEF Finds
<1>9. Grew(blocks) \/ Indexed(n.tx, blocks) => Finds(n.operations, n.tx, n.next - 1, blocks)
  BY <1>4, <1>7, <1>8
<1> QED
  BY <1>5, <1>6, <1>9, InputTold

\* The chain the database is at is among the blocks noted.
LEMMA DatabaseNoted ==
    ASSUME NotedInv, during \in Seq(BlockOrNone), lookup.stage # "none"
    PROVE  /\ during # <<>> /\ Last(during) = db.best /\ Len(during) \in Nat \ {0}
           /\ DOMAIN during = 1..Len(during) /\ during[Len(during)] = db.best
           /\ db.best \in Range(during)
<1>1. during # <<>> /\ Last(during) = db.best
  BY DEF NotedInv
<1>2. Len(during) \in Nat /\ DOMAIN during = 1..Len(during) /\ Len(during) # 0
  BY <1>1
<1>3. Last(during) = during[Len(during)]
  BY DEF Last
<1> QED
  BY <1>1, <1>2, <1>3 DEF Range

\* The blocks noted until the last one stay noted.
LEMMA NotedGoesOn ==
    ASSUME FlushInv', NotedInv, during \in Seq(BlockOrNone), IndexerSteps,
           lookup'.stage # "none"
    PROVE  /\ lookup' = lookup /\ lookup.stage \notin {"answered", "unlisted", "refused"}
           /\ during' # <<>> /\ Last(during') = db'.best
           /\ Range(during) \subseteq Range(during') /\ db'.best \in Range(during')
           /\ Grew(during') => Grew(during) /\ (db'.best = db.best \/ db.best \in Chain[db'.best])
<1>1. lookup' = lookup /\ lookup.stage \notin {"answered", "unlisted", "refused"}
  BY DEF IndexerSteps, NoLookup, Done
<1>2. /\ during # <<>> /\ Last(during) = db.best /\ db'.best \in BlockOrNone
      /\ \/ db'.best = Last(during) /\ during' = during
         \/ during' = Append(during, db'.best)
  BY <1>1, DatabaseNoted, Zenon DEF IndexerSteps, FlushInv
<1>3. /\ Len(during) \in Nat \ {0} /\ DOMAIN during = 1..Len(during)
      /\ during[Len(during)] = db.best /\ db.best \in Range(during)
  BY <1>1, DatabaseNoted
<1>4. CASE db'.best = Last(during) /\ during' = during
  BY <1>1, <1>2, <1>3, <1>4
<1>5. CASE during' = Append(during, db'.best)
  <2> DEFINE N == Len(during)
  <2>1. /\ during' \in Seq(BlockOrNone) /\ Len(during') = N + 1 /\ during'[N + 1] = db'.best
        /\ \A i \in 1..N : during'[i] = during[i]
        /\ DOMAIN during = 1..N /\ DOMAIN during' = 1..N + 1 /\ N \in Nat \ {0}
    BY <1>2, <1>3, <1>5
  <2>2. during[N] = db.best
    BY <1>3
  <2> HIDE DEF N
  <2>3. during' # <<>> /\ Last(during') = db'.best
    BY <2>1 DEF Last
  <2>4. Range(during) \subseteq Range(during') /\ db'.best \in Range(during')
    <3>1. \A i \in 1..N : i \in 1..N + 1
      BY <2>1
    <3>2. N + 1 \in 1..N + 1
      BY <2>1
    <3> QED
      BY <2>1, <3>1, <3>2 DEF Range
  <2>5. ASSUME Grew(during')
        PROVE  Grew(during) /\ db.best \in Chain[db'.best]
    <3>1. \A i \in 1..N : during'[i] \in Chain[during'[i + 1]]
      BY <2>1, <2>5 DEF Grew
    <3>2. \A i \in 1..N - 1 : i \in 1..N /\ i + 1 \in 1..N
      BY <2>1
    <3>3. Grew(during)
      BY <2>1, <3>1, <3>2 DEF Grew, N
    <3>4. N \in 1..N
      BY <2>1
    <3> QED
      BY <2>1, <2>2, <3>1, <3>3, <3>4
  <2> QED
    BY <1>1, <2>3, <2>4, <2>5
<1> QED
  BY <1>2, <1>4, <1>5

\* What is found stays found.
LEMMA FindsOn ==
    ASSUME NEW operations, NEW t, NEW n, NEW blocks, NEW more, Finds(operations, t, n, blocks),
           Indexed(t, more) => Indexed(t, blocks)
    PROVE  Finds(operations, t, n, more)
<1>1. PICK found \in SUBSET (1..n) :
         /\ operations = InputOperationsAt(t, found)
         /\ Indexed(t, blocks) /\ Listed(t) => found = 1..n
  BY DEF Finds
<1> QED
  BY <1>1 DEF Finds

\* What a step of the indexer leaves of it.
LEMMA IndexerTold ==
    ASSUME AllInv, FlushInv', RecordInv, TableInv, StayInv, CacheInv, LookedInv, NotedInv, OpsInv,
           IndexerSteps, ~Query
    PROVE  OpsInv'
<1>0. FlushInv /\ SymbolInv /\ BudgetInv
  BY DEF AllInv
<1>1. CASE lookup'.stage = "none"
  BY <1>1 DEF OpsInv, Told
<1>2. CASE lookup'.stage # "none"
  <2>1. /\ lookup' = lookup /\ lookup.stage \notin {"answered", "unlisted", "refused"}
        /\ Range(during) \subseteq Range(during') /\ db'.best \in Range(during')
        /\ Grew(during') => Grew(during) /\ (db'.best = db.best \/ db.best \in Chain[db'.best])
        /\ db.best \in Range(during)
    BY <1>2, NotedGoesOn, DatabaseNoted DEF LookedInv
  <2>2. Translates(lookup) /\ Waits(lookup) /\ lookup.stage \in {"txSymbol", "record", "owner"}
    BY <1>2, <2>1 DEF LookedInv, Looks, Idles, Waits
  <2> DEFINE t == lookup.tx
             ref == Ins[t][lookup.next]
  <2>3. SUFFICES ASSUME Grew(during') \/ Indexed(t, during')
                 PROVE  /\ pc' # "aborted" => Sees(lookup)'
                        /\ Finds(lookup.operations, t, lookup.next - 1, during')
    BY <2>1, <2>2 DEF OpsInv, Told
  <2>4. Indexed(t, during') => Indexed(t, during)
    BY <2>1 DEF Indexed
  <2>5. /\ pc # "aborted" => Sees(lookup)
        /\ Finds(lookup.operations, t, lookup.next - 1, during)
    BY <2>1, <2>2, <2>3, <2>4 DEF OpsInv, Told
  <2>6. Finds(lookup.operations, t, lookup.next - 1, during')
    <3> DEFINE more == during'
    <3>1. \A o, u, n : Finds(o, u, n, during) /\ (Indexed(u, more) => Indexed(u, during))
                          => Finds(o, u, n, more)
      <4> HIDE DEF more
      <4> QED
        BY FindsOn
    <3> QED
      BY <2>4, <2>5, <3>1
  <2>7. ASSUME pc' # "aborted" PROVE Sees(lookup)'
    <3>1. ~Restart
      BY <1>0, <1>2, StepsGoOn DEF IndexerSteps, NoLookup
    <3>2. pc # "aborted"
      BY <1>2, <3>1 DEF IndexerSteps, AddBlock, Flush, StartRemoval, FlushEnds, RemoveBest
    <3>3. Sees(lookup) /\ [Next]_vars /\ AheadInv
      BY <2>5, <3>2 DEF IndexerSteps, Next, CacheInv
    <3>4. ref \in Spends(t) /\ Ins[t][lookup.next] = ref
      BY <2>2, InputsOf DEF Translates, Waits
    <3>5. \/ db.best \in Chain[db'.best] \cup {db'.best}
          \/ ref[1] \in Mined(db.best) /\ ref[1] \in Mined(db'.best)
      BY <2>1, <2>3, <3>4 DEF Indexed
    <3> HIDE DEF ref
    <3>6. ASSUME lookup.stage = "record"
          PROVE  lookup.symbol \in Nat /\ TxHere(lookup.symbol, ref[1])'
      <4> DEFINE s == lookup.symbol
                 u == ref[1]
      <4>1. s \in Nat /\ TxHere(s, u)
        BY <3>3, <3>6 DEF Sees, ref
      <4>2. \/ db.best \in Chain[db'.best] \cup {db'.best}
            \/ u \in Mined(db.best) /\ u \in Mined(db'.best)
        BY <3>5
      <4>3. ASSUME NEW x \in Nat, NEW y, TxHere(x, y),
                   \/ db.best \in Chain[db'.best] \cup {db'.best}
                   \/ y \in Mined(db.best) /\ y \in Mined(db'.best)
            PROVE  TxHere(x, y)'
        BY <2>7, <3>1, <3>3, <4>3, <1>0, TxHereStays
      <4>4. \A x, y : TxHere(x, y)' <=>
                 \/ y \in DOMAIN db'.tx /\ db'.tx[y] = x
                 \/ pc' = "idle" /\ y \in DOMAIN mem'.ops.tx /\ mem'.ops.tx[y] = x
                 \/ Flushing' /\ y \in DOMAIN inflight'.ops.tx /\ inflight'.ops.tx[y] = x
        BY DEF TxHere
      <4>5. \/ u \in DOMAIN db'.tx /\ db'.tx[u] = s
            \/ pc' = "idle" /\ u \in DOMAIN mem'.ops.tx /\ mem'.ops.tx[u] = s
            \/ Flushing' /\ u \in DOMAIN inflight'.ops.tx /\ inflight'.ops.tx[u] = s
        <5> HIDE DEF s, u
        <5> QED
          BY <4>1, <4>2, <4>3, <4>4
      <4>6. s' = s /\ u' = u
        BY <2>1 DEF ref
      <4> QED
        BY <4>1, <4>5, <4>6 DEF TxHere
    <3>7. ASSUME lookup.stage = "owner"
          PROVE  SeenOutput(ref, lookup.record)'
      <4> DEFINE s == lookup.record.address
                 a == Payee(ref)
      <4>1. /\ Addressed(ref) /\ lookup.record.sats = Outs[ref[1]][ref[2]].sats
            /\ AddressHere(s, a) /\ s \in Nat
        BY <2>2, <3>3, <3>7 DEF Sees, ref, SeenOutput, Translates
      <4>3. ASSUME NEW x \in Nat, NEW y, AddressHere(x, y) PROVE AddressHere(x, y)'
        BY <2>7, <3>1, <3>3, <4>3, <1>0, AddressHereStays
      <4>4. \A x, y : AddressHere(x, y)' <=>
                 \/ y \in DOMAIN db'.address /\ db'.address[y] = x
                 \/ pc' = "idle" /\ y \in DOMAIN mem'.seenAddress /\ mem'.seenAddress[y] = x
                 \/ /\ Flushing' /\ y \in DOMAIN inflight'.ops.address
                    /\ inflight'.ops.address[y] = x
        BY DEF AddressHere
      <4>5. \/ a \in DOMAIN db'.address /\ db'.address[a] = s
            \/ pc' = "idle" /\ a \in DOMAIN mem'.seenAddress /\ mem'.seenAddress[a] = s
            \/ /\ Flushing' /\ a \in DOMAIN inflight'.ops.address
               /\ inflight'.ops.address[a] = s
        <5> HIDE DEF s, a
        <5> QED
          BY <4>1, <4>3, <4>4
      <4>6. s' = s /\ a' = a /\ lookup'.record = lookup.record /\ ref' = ref
        BY <2>1 DEF ref, Payee
      <4> QED
        BY <4>1, <4>5, <4>6 DEF AddressHere, SeenOutput, Addressed
    <3>8. ref' = Ins[lookup'.tx][lookup'.next]
      BY DEF ref
    <3> QED
      BY <2>1, <3>6, <3>7, <3>8 DEF Sees
  <2> QED
    BY <2>6, <2>7
<1> QED
  BY <1>1, <1>2

\* A read that is awaited has what it remembers, and what was found before it.
LEMMA ReadTold ==
    ASSUME LookedInv, NotedInv, OpsInv, NEW stage \in {"txSymbol", "record", "owner"},
           LookingUp(stage)
    PROVE  LET t == lookup.tx
               n == lookup.next
           IN  /\ Translates(lookup) /\ t \in Txs /\ n \in 1..Len(Ins[t])
               /\ Len(Ins[t]) \in Nat /\ n <= Len(Ins[t]) /\ n \in Nat \ {0}
               /\ pc # "aborted" /\ lookup.stage = stage
               /\ Indexed(t, during) => Ins[t][n][1] \in Mined(db.best)
               /\ Grew(during) \/ Indexed(t, during) =>
                     Sees(lookup) /\ Finds(lookup.operations, t, n - 1, during)
<1>1. pc # "aborted" /\ lookup.stage = stage
  BY DEF LookingUp
<1>2. Translates(lookup) /\ Waits(lookup) /\ db.best \in Range(during)
  BY <1>1, DatabaseNoted DEF LookedInv, Looks, Idles
<1>3. /\ lookup.tx \in Txs /\ Len(Ins[lookup.tx]) \in Nat /\ lookup.next <= Len(Ins[lookup.tx])
      /\ lookup.next \in Nat \ {0}
  BY <1>1, <1>2, InputsOf DEF Translates, Waits
<1>4. lookup.next \in 1..Len(Ins[lookup.tx])
  BY <1>3
<1>5. Indexed(lookup.tx, during) => Ins[lookup.tx][lookup.next][1] \in Mined(db.best)
  BY <1>2, <1>3, <1>4, InputsOf DEF Indexed
<1> QED
  BY <1>1, <1>2, <1>3, <1>4, <1>5 DEF OpsInv, Told

\* The symbol of a transaction is read as it is on disk; one that is indexed has one.
LEMMA SymbolTold ==
    ASSUME AllInv, RecordInv, TypedInv, TableInv, CacheInv, LookedInv, NotedInv, OpsInv,
           ReadTxSymbol
    PROVE  Told(lookup', during)
<1> DEFINE t == lookup.tx
           n == lookup.next
           u == Ins[t][n][1]
           s == db.tx[u]
           r == [lookup EXCEPT !.stage = "record", !.symbol = s]
<1>1. LookingUp("txSymbol") /\ lookup' = IF u \notin DOMAIN db.tx THEN Onward(lookup) ELSE r
  BY DEF ReadTxSymbol
<1>2. /\ Translates(lookup) /\ n \in Nat \ {0} /\ n <= Len(Ins[t]) /\ pc # "aborted"
      /\ Indexed(t, during) => u \in Mined(db.best)
      /\ Grew(during) \/ Indexed(t, during) => Finds(lookup.operations, t, n - 1, during)
  BY <1>1, ReadTold
<1>3. SymbolInv /\ db.tx \in [Mined(db.best) -> Nat]
  BY DEF AllInv, SymbolInv, NameInv, TxNames
<1>4. CASE u \notin DOMAIN db.tx
  <2>1. ~Indexed(t, during)
    BY <1>2, <1>3, <1>4
  <2>2. Grew(during) \/ Indexed(t, during) => Finds(lookup.operations, t, n, during)
    BY <1>2, <2>1, SkipFinds
  <2>3. Told(Onward(lookup), during)
    BY <1>2, <1>3, <2>2, OnwardTold
  <2> QED
    BY <1>1, <1>4, <2>3
<1>5. CASE u \in DOMAIN db.tx
  <2>1. s \in Nat /\ TxHere(s, u)
    BY <1>3, <1>5 DEF TxHere
  <2> HIDE DEF s
  <2>2. r.stage = "record" /\ r.symbol = s /\ r.tx = t /\ r.next = n
        /\ r.operations = lookup.operations
    BY <1>2 DEF Translates, NoLookup
  <2>3. lookup' = r
    BY <1>1, <1>5 DEF s
  <2> HIDE DEF r
  <2>4. Sees(r)
    BY <2>1, <2>2 DEF Sees
  <2>5. Told(r, during)
    BY <1>2, <2>2, <2>4 DEF Told
  <2> QED
    BY <2>3, <2>5
<1> QED
  BY <1>4, <1>5

\* The record under a symbol that is remembered is that of the output; one that is indexed
\* and has an address has one.
LEMMA RecordTold ==
    ASSUME AllInv, RecordInv, TypedInv, TableInv, StayInv, CacheInv, LookedInv, NotedInv, OpsInv,
           ReadUtxo
    PROVE  Told(lookup', during)
<1> DEFINE t == lookup.tx
           n == lookup.next
           ref == Ins[t][n]
           s == lookup.symbol
           key == <<s, ref[2]>>
           r == OwnerOf(lookup, db.utxo[key])
<1>1. LookingUp("record") /\ lookup' = IF key \notin DOMAIN db.utxo THEN Onward(lookup) ELSE r
  BY DEF ReadUtxo
<1>2. /\ Translates(lookup) /\ n \in Nat \ {0} /\ n <= Len(Ins[t]) /\ pc # "aborted"
      /\ n \in 1..Len(Ins[t]) /\ t \in Txs
      /\ Indexed(t, during) => ref[1] \in Mined(db.best)
      /\ Grew(during) \/ Indexed(t, during) =>
            Sees(lookup) /\ Finds(lookup.operations, t, n - 1, during)
      /\ lookup.stage = "record"
  BY <1>1, ReadTold
<1>3. SymbolInv /\ db.tx \in [Mined(db.best) -> Nat] /\ FlushInv /\ AheadInv
  BY DEF AllInv, SymbolInv, NameInv, TxNames, CacheInv
<1>4. ref \in OutputRefs /\ ref \in Spends(t) /\ ref = <<ref[1], ref[2]>>
  BY <1>2, InputsOf
<1>5. Sees(lookup) => s \in Nat /\ TxHere(s, ref[1])
  BY <1>2 DEF Sees
<1>6. CASE key \notin DOMAIN db.utxo
  <2>1. ASSUME Indexed(t, during), Listed(t) PROVE FALSE
    <3>1. /\ ref[1] \in Mined(db.best) /\ Addressed(ref) /\ s \in Nat /\ TxHere(s, ref[1])
      BY <1>2, <1>4, <1>5, <2>1 DEF Listed
    <3>2. db.tx[ref[1]] = s
      <4> HIDE DEF s, ref
      <4> QED
        BY <1>3, <3>1, SymbolRead
    <3>3. ref \in OutputsOf(Mined(db.best)) /\ Key(db.tx, ref) = key
      BY <1>4, <3>1, <3>2 DEF OutputsOf, Key
    <3>4. key \in DOMAIN db.utxo
      BY <3>1, <3>3 DEF TableInv, ExactTable, Keys
    <3> QED
      BY <1>6, <3>4
  <2>2. Grew(during) \/ Indexed(t, during) => Finds(lookup.operations, t, n, during)
    BY <1>2, <2>1, SkipFinds
  <2>3. Told(Onward(lookup), during)
    BY <1>2, <1>3, <2>2, OnwardTold
  <2> QED
    BY <1>1, <1>6, <2>3
<1>7. CASE key \in DOMAIN db.utxo
  <2> DEFINE v == db.utxo[key]
  <2>1. Sees(lookup) => SeenOutput(ref, v)
    <3>1. SUFFICES ASSUME Sees(lookup) PROVE SeenOutput(<<ref[1], ref[2]>>, v)
      BY <1>4
    <3>2. s \in Nat /\ TxHere(s, ref[1]) /\ <<s, ref[2]>> \in DOMAIN db.utxo
      BY <1>5, <1>7, <3>1
    <3> HIDE DEF s, ref
    <3> QED
      BY <1>3, <3>2, UtxoRead DEF CacheInv
  <2>2. r.stage = "owner" /\ r.record = [sats |-> v.sats, address |-> v.address] /\ r.tx = t
        /\ r.next = n /\ r.operations = lookup.operations
    BY <1>2 DEF Translates, NoLookup, OwnerOf
  <2>3. lookup' = r
    BY <1>1, <1>7
  <2> HIDE DEF r, v
  <2>4. Sees(lookup) => Sees(r)
    <3>1. r.record.sats = v.sats /\ r.record.address = v.address
      BY <2>2
    <3>2. SeenOutput(ref, v) => SeenOutput(ref, r.record)
      BY <3>1 DEF SeenOutput
    <3>3. SeenOutput(ref, r.record) => Sees(r)
      BY <2>2 DEF Sees
    <3> QED
      BY <2>1, <3>2, <3>3
  <2>5. Told(r, during)
    BY <1>2, <2>2, <2>4 DEF Told
  <2> QED
    BY <2>3, <2>5
<1> QED
  BY <1>6, <1>7

\* The list under a symbol that is remembered is that of the address; one that the chain has
\* paid has one.
LEMMA OwnerTold ==
    ASSUME AllInv, RecordInv, TypedInv, TableInv, ListInv, StayInv, CacheInv, LookedInv, NotedInv,
           OpsInv, ReadOwner
    PROVE  Told(lookup', during)
<1> DEFINE t == lookup.tx
           n == lookup.next
           ref == Ins[t][n]
           s == lookup.record.address
           a == Payee(ref)
           owner == ListOf(db, s).address
           op == Operation("INPUT", owner, -lookup.record.sats)
           r == [lookup EXCEPT !.operations = Append(@, op)]
<1>1. /\ LookingUp("owner")
      /\ lookup' = IF s \notin 1..mem.lastAddress \/ owner = NoAddress THEN Onward(lookup)
                   ELSE Onward(r)
  BY DEF ReadOwner
<1>2. /\ Translates(lookup) /\ n \in Nat \ {0} /\ n <= Len(Ins[t]) /\ pc # "aborted"
      /\ n \in 1..Len(Ins[t]) /\ t \in Txs
      /\ Indexed(t, during) => ref[1] \in Mined(db.best)
      /\ Grew(during) \/ Indexed(t, during) =>
            Sees(lookup) /\ Finds(lookup.operations, t, n - 1, during)
      /\ lookup.stage = "owner"
  BY <1>1, ReadTold
<1>3. SymbolInv
  BY DEF AllInv
<1>4. /\ ref \in OutputRefs /\ ref \in Spends(t) /\ Outs[ref[1]][ref[2]] = Paid(ref)
      /\ a \in Addresses \cup {NoAddress} /\ a = Paid(ref).address
  BY <1>2, InputsOf DEF Payee
<1>5. ASSUME Sees(lookup)
      PROVE  /\ a \in Addresses /\ lookup.record.sats = Paid(ref).sats
             /\ s \in DOMAIN db.list => db.list[s].address = a
             /\ Owned(db.best, a) # {} => s \in DOMAIN db.list /\ s \in 1..mem.lastAddress
  <2>1. Addressed(ref) /\ lookup.record.sats = Paid(ref).sats /\ AddressHere(s, a) /\ s \in Nat
    BY <1>2, <1>4, <1>5 DEF Sees, SeenOutput, Translates
  <2>2. a \in Addresses
    BY <1>4, <2>1 DEF Addressed, Payee
  <2> HIDE DEF s, a
  <2> QED
    BY <1>2, <2>1, <2>2, ListRead
<1>6. CASE s \notin 1..mem.lastAddress \/ owner = NoAddress
  <2>1. ASSUME Indexed(t, during), Listed(t) PROVE FALSE
    <3>1. ref \in Owned(db.best, a)
      BY <1>2, <1>4, <2>1 DEF Owned, Payee
    <3>2. s \in DOMAIN db.list /\ s \in 1..mem.lastAddress /\ db.list[s].address = a
          /\ a \in Addresses
      BY <1>2, <1>5, <2>1, <3>1
    <3>3. owner = a
      BY <3>2 DEF ListOf
    <3> QED
      BY <1>6, <3>2, <3>3, UtxoIndexerAssumption DEF UtxoIndexerAssumption
  <2>2. Grew(during) \/ Indexed(t, during) => Finds(lookup.operations, t, n, during)
    BY <1>2, <2>1, SkipFinds
  <2>3. Told(Onward(lookup), during)
    BY <1>2, <1>3, <2>2, OnwardTold
  <2> QED
    BY <1>1, <1>6, <2>3
<1>7. CASE ~(s \notin 1..mem.lastAddress \/ owner = NoAddress)
  <2>1. s \in DOMAIN db.list /\ owner = db.list[s].address
    BY <1>7 DEF ListOf
  <2>2. Sees(lookup) => op = InputOperation(t, n)
    BY <1>4, <1>5, <2>1 DEF InputOperation
  <2>3. owner \in Addresses /\ -lookup.record.sats \in Int
    <3>1. owner \in Addresses \cup {NoAddress}
      BY ListOfType DEF TypedInv, Lists
    <3> QED
      BY <1>2, <1>7, <3>1 DEF Translates
  <2> HIDE DEF owner
  <2>4. op \in Operations
    BY <2>3 DEF Operation, Operations
  <2>5. lookup' = Onward(r)
    BY <1>1, <1>7
  <2> HIDE DEF op
  <2>6. Append(lookup.operations, op) \in Seq(Operations)
    BY <1>2, <2>4 DEF Translates
  <2>7. /\ DOMAIN r = DOMAIN NoLookup /\ r.tx = t /\ r.block = lookup.block
        /\ r.next = n /\ r.symbol = lookup.symbol /\ r.record = lookup.record
        /\ r.operations = Append(lookup.operations, op)
    BY <1>2 DEF Translates, NoLookup
  <2> HIDE DEF r
  <2>8. Translates(r) /\ r.next <= Len(Ins[r.tx])
    BY <1>2, <2>6, <2>7 DEF Translates
  <2>9. Grew(during) \/ Indexed(r.tx, during) => Finds(r.operations, r.tx, r.next, during)
    BY <1>2, <2>2, <2>7, OwnerFinds
  <2>10. Told(Onward(r), during)
    BY <1>2, <1>3, <2>8, <2>9, OnwardTold
  <2> QED
    BY <2>5, <2>10
<1> QED
  BY <1>6, <1>7

LEMMA NotedInvNext == FlushInv' /\ LookedInv /\ NotedInv /\ [BlockNext]_blockVars => NotedInv'
<1> SUFFICES ASSUME FlushInv', LookedInv, NotedInv, [BlockNext]_blockVars PROVE NotedInv'
  OBVIOUS
<1>1. <<db.best>> # <<>> /\ Last(<<db.best>>) = db.best
  BY DEF Last
<1>2. CASE AskBlock \/ AskMempool
  BY <1>1, <1>2 DEF AskBlock, AskMempool, NotedInv, vars
<1>3. CASE ReadTxSymbol \/ ReadUtxo \/ ReadOwner
  BY <1>3 DEF ReadTxSymbol, ReadUtxo, ReadOwner, LookingUp, NotedInv, vars
<1>4. CASE Answer
  BY <1>4 DEF Answer, NotedInv, NoLookup
<1>5. CASE IndexerSteps
  BY <1>5, NotedGoesOn DEF NotedInv, LookedInv
<1>6. CASE UNCHANGED blockVars
  BY <1>6 DEF blockVars, NotedInv
<1> QED
  BY <1>2, <1>3, <1>4, <1>5, <1>6 DEF BlockNext, Lookup

\* Every step keeps what a translation has found.
LEMMA OpsInvNext ==
    AllInv /\ AllInv' /\ RecordInv /\ TypedInv /\ TableInv /\ ListInv /\ StayInv /\ CacheInv
        /\ LookedInv /\ NotedInv /\ OpsInv /\ [BlockNext]_blockVars /\ ~Query => OpsInv'
<1> SUFFICES ASSUME AllInv, AllInv', RecordInv, TypedInv, TableInv, ListInv, StayInv, CacheInv,
                    LookedInv, NotedInv, OpsInv, [BlockNext]_blockVars, ~Query
             PROVE  OpsInv'
  OBVIOUS
<1>1. FlushInv /\ FlushInv' /\ SymbolInv
  BY DEF AllInv
<1>2. ASSUME UNCHANGED vars, Told(lookup', during') PROVE OpsInv'
  <2>1. /\ Sees(lookup') => Sees(lookup)'
        /\ pc' = pc
        /\ \A o, n : Finds(o, lookup'.tx, n, during') <=> Finds(o, lookup.tx, n, during)'
    BY <1>2 DEF vars, Sees, TxHere, SeenOutput, Addressed, Payee, AddressHere, Flushing, Finds
  <2> QED
    BY <1>2, <2>1 DEF OpsInv, Told
<1>3. ASSUME NEW t \in Txs, NEW b \in BlockOrNone, pc # "aborted", NEW blocks
      PROVE  Told(Asked(t, b), blocks)
  BY <1>1, <1>3, AskedTold
<1>4. CASE AskBlock
  <2>0. PICK b \in Blocks : \E t \in ToSet(TxsOf[b]) :
            lookup' = IF Available(b) THEN Asked(t, b)
                      ELSE [NoLookup EXCEPT !.stage = "refused", !.block = b]
    BY <1>4 DEF AskBlock
  <2>1. PICK t \in ToSet(TxsOf[b]) :
            lookup' = IF Available(b) THEN Asked(t, b)
                      ELSE [NoLookup EXCEPT !.stage = "refused", !.block = b]
    BY <2>0
  <2>2. t \in Txs
    <3>1. TxsOf[b] \in Seq(Txs)
      BY UtxoIndexerAssumption DEF UtxoIndexerAssumption
    <3> QED
      BY <2>1, <3>1 DEF ToSet
  <2>3. pc # "aborted" /\ b \in BlockOrNone /\ UNCHANGED vars
    BY <1>4 DEF AskBlock, LookingUp, BlockOrNone
  <2>4. CASE Available(b)
    <3>1. Told(lookup', during')
      BY <1>3, <2>1, <2>2, <2>3, <2>4
    <3> QED
      BY <1>2, <2>3, <3>1
  <2>5. CASE ~Available(b)
    <3>1. lookup'.stage = "refused"
      BY <2>1, <2>5 DEF NoLookup
    <3> QED
      BY <3>1 DEF OpsInv, Told
  <2> QED
    BY <2>4, <2>5
<1>5. CASE AskMempool
  <2>1. PICK t \in Pending : lookup' = Asked(t, NoBlock)
    BY <1>5 DEF AskMempool
  <2>2. t \in Txs /\ NoBlock \in BlockOrNone /\ pc # "aborted" /\ UNCHANGED vars
    BY <1>5, PendingAssumption DEF PendingAssumption, BlockOrNone, AskMempool, LookingUp
  <2>3. Told(lookup', during')
    BY <1>3, <2>1, <2>2
  <2> QED
    BY <1>2, <2>2, <2>3
<1>6. CASE ReadTxSymbol \/ ReadUtxo \/ ReadOwner
  <2>1. UNCHANGED vars /\ during' = during
    BY <1>6 DEF ReadTxSymbol, ReadUtxo, ReadOwner
  <2>2. Told(lookup', during)
    BY <1>6, SymbolTold, RecordTold, OwnerTold
  <2> QED
    BY <1>2, <2>1, <2>2
<1>7. CASE Answer
  BY <1>7 DEF Answer, OpsInv, Told, NoLookup
<1>8. CASE IndexerSteps
  BY <1>1, <1>8, IndexerTold DEF AllInv
<1>9. CASE UNCHANGED blockVars
  <2>1. UNCHANGED vars /\ Told(lookup', during')
    BY <1>9 DEF blockVars, vars, OpsInv
  <2> QED
    BY <1>2, <2>1
<1> QED
  BY <1>4, <1>5, <1>6, <1>7, <1>8, <1>9 DEF BlockNext, Lookup

\* The invariant that all this makes.
TranslatedInv ==
    /\ AllInv /\ RecordInv /\ TypedInv /\ LookedInv /\ NotedInv
    /\ Plain /\ NoEarly => TableInv /\ ListInv /\ StayInv /\ CacheInv /\ OpsInv

LEMMA TranslatedInvInit == BlockInit => TranslatedInv
<1> SUFFICES ASSUME BlockInit PROVE TranslatedInv
  OBVIOUS
<1>1. Init /\ lookup = NoLookup /\ during = <<>>
  BY DEF BlockInit
<1>2. /\ AllInv /\ RecordInv /\ TypedInv /\ StayInv /\ CacheInv
      /\ Plain => TableInv /\ ListInv
  BY <1>1, FlushInvInit, SafeInvInit, BudgetInvInit, SymbolInvInit, EarlyInvInit, RecordInvInit,
     TypedInvInit, TableInvInit, ListInvInit, StayInvInit, CacheInvInit DEF AllInv, Plain
<1>3. LookedInv
  BY <1>1, NothingLookedUp DEF LookedInv
<1>4. NotedInv /\ OpsInv
  BY <1>1 DEF NotedInv, OpsInv, Told, NoLookup
<1> QED
  BY <1>2, <1>3, <1>4 DEF TranslatedInv

LEMMA TranslatedInvNext == TranslatedInv /\ [BlockNext]_blockVars => TranslatedInv'
<1> SUFFICES ASSUME TranslatedInv, [BlockNext]_blockVars PROVE TranslatedInv'
  OBVIOUS
<1>1. AllInv /\ RecordInv /\ TypedInv /\ LookedInv /\ NotedInv
  BY DEF TranslatedInv
<1>2. [Next]_vars
  BY LookupStep
<1>3. AllInv' /\ RecordInv' /\ TypedInv'
  BY <1>1, <1>2, FlushInvNext, SafeInvNext, BudgetInvNext, SymbolInvNext, EarlyInvNext,
     RecordInvNext, TypedInvNext DEF AllInv
<1>4. LookedInv' /\ NotedInv'
  BY <1>1, <1>3, LookedInvStep, NotedInvNext DEF AllInv
<1>5. Plain' <=> Plain
  BY DEF Plain, Ordinary, SpendsOlder, PaysOnce, OutputsOf, Addressed, Payee
<1>6. ASSUME Plain, NoEarly'
      PROVE  TableInv' /\ ListInv' /\ StayInv' /\ CacheInv' /\ OpsInv'
  <2>6. NoEarly /\ ~Query
    BY <1>1, <1>2, <1>6, NoEarlyStep DEF AllInv
  <2>1. TableInv /\ ListInv /\ StayInv /\ CacheInv /\ OpsInv
    BY <1>6, <2>6 DEF TranslatedInv
  <2>2. TableInv' /\ ListInv'
    BY <1>1, <1>2, <1>6, <2>1, <2>6, TableInvNext, ListInvNext DEF Plain
  <2>3. StayInv'
    BY <1>1, <1>2, <1>6, <2>1, <2>2, <2>6, StayInvNext
  <2>4. CacheInv'
    BY <1>1, <1>2, <1>6, <2>1, <2>6, CacheInvNext
  <2>5. OpsInv'
    BY <1>1, <1>3, <2>1, <2>6, OpsInvNext
  <2> QED
    BY <2>2, <2>3, <2>4, <2>5
<1> QED
  BY <1>1, <1>3, <1>4, <1>5, <1>6 DEF TranslatedInv

\* An answer is what was found.
LEMMA AnswerTold ==
    ASSUME LookedInv, OpsInv, lookup.stage = "answered", OnlyGrew \/ InputsStay
    PROVE  \E found \in SUBSET DOMAIN Ins[lookup.tx] :
              /\ lookup.operations =
                    InputOperationsAt(lookup.tx, found) \o OutputOperations(lookup.tx)
              /\ InputsStay /\ (\A ref \in Spends(lookup.tx) : Paid(ref).address # NoAddress)
                    => found = DOMAIN Ins[lookup.tx]
<1>1. /\ Grew(during) \/ Indexed(lookup.tx, during)
      /\ InputsStay => Indexed(lookup.tx, during)
  BY DEF OnlyGrew, InputsStay, Grew, Indexed
<1>2. (\A ref \in Spends(lookup.tx) : Paid(ref).address # NoAddress) => Listed(lookup.tx)
  BY DEF Paid, Listed, Addressed
<1>3. PICK operations : /\ Finds(operations, lookup.tx, Len(Ins[lookup.tx]), during)
                        /\ lookup.operations = operations \o OutputOperations(lookup.tx)
  BY <1>1 DEF OpsInv, Told
<1>4. PICK found \in SUBSET (1..Len(Ins[lookup.tx])) :
         /\ operations = InputOperationsAt(lookup.tx, found)
         /\ Indexed(lookup.tx, during) /\ Listed(lookup.tx) => found = 1..Len(Ins[lookup.tx])
  BY <1>3 DEF Finds
<1>5. DOMAIN Ins[lookup.tx] = 1..Len(Ins[lookup.tx])
  BY InputsOf DEF LookedInv, Looks, Idles, Translates
<1> QED
  BY <1>1, <1>2, <1>3, <1>4, <1>5

\* As long as no client has asked for an address before the indexer knew it, and no block is
\* taken back or none spends what it makes and none pays an address twice: if what a transaction spends stays
\* indexed and was paid to one address each, its operations are all its inputs with their
\* owners and amounts and then its outputs (OperationsExact). A symbol or a record that a
\* translation remembers from the last-seen caches stands for the same transaction and the
\* same address until its next read, whatever is added, flushed or removed in between
\* (utils.js:45-95, Indexer.js:1206-1235).
THEOREM OperationsStayExact == BlockSpec => [](Plain => OperationsExact)
<1>1. TranslatedInv => (Plain => OperationsExact)
  <2> SUFFICES ASSUME TranslatedInv, Plain, NoEarly, lookup.stage = "answered", InputsStay,
                      \A ref \in Spends(lookup.tx) : Paid(ref).address # NoAddress
               PROVE  lookup.operations = InputOperationsAt(lookup.tx, DOMAIN Ins[lookup.tx])
                                             \o OutputOperations(lookup.tx)
    BY DEF OperationsExact
  <2> QED
    BY AnswerTold DEF TranslatedInv
<1> QED
  BY <1>1, TranslatedInvInit, TranslatedInvNext, PTL DEF BlockSpec

\* Under the same conditions on the chain and on clients: as long as no block is removed, no
\* operation is made up, also for a transaction whose inputs are not indexed yet: only inputs
\* can be missing, and they are left out whole (OperationsSound, utils.js:50-54).
THEOREM OperationsStaySound == BlockSpec => [](Plain => OperationsSound)
<1>1. TranslatedInv => (Plain => OperationsSound)
  <2> SUFFICES ASSUME TranslatedInv, Plain, NoEarly, lookup.stage = "answered", OnlyGrew
               PROVE  \E found \in SUBSET DOMAIN Ins[lookup.tx] :
                         lookup.operations = InputOperationsAt(lookup.tx, found)
                                                \o OutputOperations(lookup.tx)
    BY DEF OperationsSound
  <2> QED
    BY AnswerTold DEF TranslatedInv
<1> QED
  BY <1>1, TranslatedInvInit, TranslatedInvNext, PTL DEF BlockSpec
================================================================================
