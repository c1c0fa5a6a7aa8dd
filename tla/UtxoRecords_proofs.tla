------------------------- MODULE UtxoRecords_proofs -------------------------
(***************************************************************************)
(* Proofs about the utxo records of UtxoIndexer: the output of each input  *)
(* is found (Saving, Undoing, RecordInv), and the table on disk is the one *)
(* the chain defines (Writing, Taken, TableInv).                           *)
(***************************************************************************)
EXTENDS UtxoIndexer_proofs

\* The outputs of a set of transactions, and whether one has exactly one address.
OutputsOf(T) == {ref \in OutputRefs : ref[1] \in T}
Addressed(ref) == Outs[ref[1]][ref[2]].address # NoAddress

\* The key of an output when transactions have the symbols of table tx.
Key(tx, ref) == <<tx[ref[1]], ref[2]>>

\* The table has a record of every output of the chain of b.
Covers(utxo, tx, b) ==
    \A ref \in OutputsOf(Mined(b)) : Addressed(ref) => Key(tx, ref) \in DOMAIN utxo

\* Memory holds records, under whatever keys, and symbols.
Kept(m) ==
    /\ \A k \in DOMAIN m.ops.utxo : m.ops.utxo[k] \in Records \cup {Deleted}
    /\ \A ref \in DOMAIN m.seenUtxo : m.seenUtxo[ref].value \in Records
    /\ \A a \in DOMAIN m.seenAddress : m.seenAddress[a] \in Nat

\* Memory while blocks are added: each output in R is found, and will be on disk.
Saving(m, d, tx, R) ==
    /\ Kept(m)
    /\ \A k \in DOMAIN m.ops.utxo : m.ops.utxo[k] \in Records
    /\ DOMAIN m.seenUtxo \subseteq R
    /\ \A ref \in R : Addressed(ref) =>
          /\ ref \in DOMAIN m.seenUtxo \/ Key(tx, ref) \in DOMAIN d.utxo
          /\ Key(tx, ref) \in DOMAIN m.ops.utxo \cup DOMAIN d.utxo

\* What is on disk.
Readies(d) ==
    /\ \A k \in DOMAIN d.utxo : d.utxo[k] \in Records
    /\ \A a \in DOMAIN d.address : d.address[a] \in Nat

------------------------------------------------------------------------------
(* One input or output *)

\* What saveBlock and removeBlock make of a record is one.
LEMMA RecordChanges ==
    ASSUME NEW r \in Records, NEW s \in Nat \cup {NoSymbol}, NEW h \in Nat \cup {NoSymbol}
    PROVE  /\ [r EXCEPT !.spentIn = s, !.spentOn = h] \in Records
           /\ [r EXCEPT !.spentIn = s, !.spentOn = h] # Deleted
<1>1. [r EXCEPT !.spentIn = s, !.spentOn = h] \in Records
  BY DEF Records
<1>2. Deleted \notin Records
  BY UtxoIndexerAssumption DEF UtxoIndexerAssumption
<1> QED
  BY <1>1, <1>2

\* An address that is named has a number, and nothing else changes about records.
LEMMA NewSymbolKeeps ==
    ASSUME NEW m, NEW table, Sound(m, table), NEW a \in Addresses, Kept(m)
    PROVE  LET n == NewSymbol(m, a)
           IN  /\ Kept(n) /\ n.failed = m.failed /\ n.added = m.added
               /\ n.seenUtxo = m.seenUtxo /\ n.ops.utxo = m.ops.utxo
               /\ a \in DOMAIN n.seenAddress /\ n.seenAddress[a] \in Nat
<1> DEFINE n == NewSymbol(m, a)
           s == m.lastAddress + 1
<1>1. IsMem(m) /\ s \in Nat
  BY DEF Sound, Symbols
<1>2. n = [m EXCEPT !.lastAddress = s, !.seenAddress = With(@, a, s),
                    !.ops.address = With(@, a, s)]
  BY Zenon DEF NewSymbol
<1> HIDE DEF n, s
<1>3. /\ n.failed = m.failed /\ n.added = m.added
      /\ n.seenUtxo = m.seenUtxo /\ n.ops.utxo = m.ops.utxo
      /\ n.seenAddress = With(m.seenAddress, a, s)
  BY <1>1, <1>2 DEF IsMem
<1>4. Kept(n) /\ a \in DOMAIN n.seenAddress /\ n.seenAddress[a] \in Nat
  BY <1>1, <1>3 DEF Kept, With
<1> QED
  BY <1>3, <1>4 DEF n

\* An address that is looked up has a symbol.
LEMMA WithSymbolKeeps ==
    ASSUME NEW m, NEW d, NEW table, Sound(m, table), NEW a \in Addresses, Kept(m), Readies(d)
    PROVE  LET n == WithSymbol(m, d, a)
           IN  /\ Kept(n) /\ n.failed = m.failed /\ n.added = m.added
               /\ n.seenUtxo = m.seenUtxo /\ n.ops.utxo = m.ops.utxo
               /\ AddressSymbol(n, d, a) \in Nat
<1>1. CASE HasSymbol(m, d, a)
  <2>1. WithSymbol(m, d, a) = m
    BY <1>1, Zenon DEF WithSymbol
  <2>2. AddressSymbol(m, d, a) \in Nat
    BY <1>1 DEF HasSymbol, AddressSymbol, Kept, Readies
  <2> QED
    BY <2>1, <2>2
<1>2. CASE ~HasSymbol(m, d, a)
  <2>1. WithSymbol(m, d, a) = NewSymbol(m, a)
    BY <1>2, Zenon DEF WithSymbol
  <2> QED
    BY <2>1, NewSymbolKeeps DEF AddressSymbol
<1> QED
  BY <1>1, <1>2

\* One input that is spent: it fails only if the output is not recorded.
LEMMA InvalidateSaves ==
    ASSUME NEW m, NEW d, NEW table, Sound(m, table), Readies(d), NEW tx, NEW R, Saving(m, d, tx, R),
           NEW ref \in R, GetTxSymbol(m, d, ref[1]) = tx[ref[1]],
           NEW symbol \in Nat, NEW height \in Nat
    PROVE  LET n == InvalidateUtxo(m, d, ref, symbol, height)
           IN  /\ Saving(n, d, tx, R)
               /\ n.failed => m.failed \/ ~Addressed(ref)
<1> DEFINE n == InvalidateUtxo(m, d, ref, symbol, height)
<1>0. IsMem(m)
  BY DEF Sound
<1>1. CASE ~Found(m, d, ref)
  <2>1. n = [m EXCEPT !.failed = TRUE]
    BY <1>1, Zenon DEF InvalidateUtxo
  <2> HIDE DEF n
  <2>2. n.ops = m.ops /\ n.seenUtxo = m.seenUtxo /\ n.seenAddress = m.seenAddress
    BY <1>0, <2>1 DEF IsMem
  <2>3. Saving(n, d, tx, R)
    BY <2>2 DEF Saving, Kept
  <2>4. ~Addressed(ref)
    BY <1>1 DEF Saving, Found, Key
  <2> QED
    BY <2>3, <2>4 DEF n
<1>2. CASE Found(m, d, ref)
  <2> DEFINE spent == [UtxoValue(m, d, ref) EXCEPT !.spentIn = symbol, !.spentOn = height]
             key == UtxoKey(m, d, ref)
             seen == [symbol |-> symbol, value |-> spent]
  <2>1. n = [m EXCEPT !.ops.utxo = With(@, key, spent), !.seenUtxo = With(@, ref, seen)]
    BY <1>2, Zenon DEF InvalidateUtxo
  <2>2. UtxoValue(m, d, ref) \in Records
    BY <1>2 DEF UtxoValue, UtxoKey, Found, Saving, Kept, Readies
  <2>3. spent \in Records
    BY <2>2, RecordChanges
  <2>4. seen.value = spent
    OBVIOUS
  <2> HIDE DEF n, spent, key, seen
  <2>5. /\ n.failed = m.failed /\ n.seenAddress = m.seenAddress
        /\ n.ops.utxo = With(m.ops.utxo, key, spent)
        /\ n.seenUtxo = With(m.seenUtxo, ref, seen)
    BY <1>0, <2>1 DEF IsMem
  <2>6. Kept(n) /\ \A k \in DOMAIN n.ops.utxo : n.ops.utxo[k] \in Records
    BY <2>3, <2>4, <2>5 DEF Saving, Kept, With
  <2>7. DOMAIN n.seenUtxo = DOMAIN m.seenUtxo \cup {ref}
        /\ DOMAIN n.ops.utxo = DOMAIN m.ops.utxo \cup {key}
    BY <2>5 DEF With
  <2>8. Saving(n, d, tx, R)
    BY <2>6, <2>7 DEF Saving
  <2> QED
    BY <2>5, <2>8 DEF n
<1> QED
  BY <1>1, <1>2

\* One output that is made.
LEMMA OutputSaves ==
    ASSUME NEW m, NEW d, NEW table, Sound(m, table), Readies(d), NEW tx, NEW R, Saving(m, d, tx, R),
           NEW ref \in OutputRefs, ref \notin R,
           NEW symbol \in Nat, symbol = tx[ref[1]], NEW height \in Nat
    PROVE  LET n == BatchOutput(m, d, ref, symbol, height)
           IN  Saving(n, d, tx, R \cup {ref}) /\ n.failed = m.failed
<1> DEFINE n     == BatchOutput(m, d, ref, symbol, height)
           out   == Outs[ref[1]][ref[2]]
           known == WithSymbol(m, d, out.address)
           record == [sats |-> out.sats, address |-> AddressSymbol(known, d, out.address),
                      createdOn |-> height, spentIn |-> NoSymbol, spentOn |-> NoSymbol]
           entry == <<symbol, ref[2]>>
           added == IF out.address \in DOMAIN m.added THEN m.added[out.address] ELSE <<>>
           seen  == [symbol |-> symbol, value |-> record]
<1>0. out \in [address : Addresses \cup {NoAddress}, sats : Nat]
  BY RefType
<1>1. CASE out.address = NoAddress
  <2>1. n = m
    BY <1>1, Zenon DEF BatchOutput
  <2>2. ~Addressed(ref)
    BY <1>1 DEF Addressed
  <2>3. Saving(m, d, tx, R \cup {ref})
    BY <2>2 DEF Saving
  <2> QED
    BY <2>1, <2>3
<1>2. CASE out.address # NoAddress
  <2>1. ref \notin DOMAIN m.seenUtxo
    BY DEF Saving
  <2>2. n = [known EXCEPT !.ops.utxo = With(@, entry, record),
                          !.seenUtxo = With(@, ref, seen),
                          !.added = With(@, out.address, Append(added, entry))]
    BY <1>2, <2>1, Zenon DEF BatchOutput
  <2>3. out.address \in Addresses /\ out.sats \in Nat
    BY <1>0, <1>2
  <2> HIDE DEF out
  <2>4. Kept(m)
    BY DEF Saving
  <2>5. /\ Kept(known) /\ known.failed = m.failed
        /\ known.seenUtxo = m.seenUtxo /\ known.ops.utxo = m.ops.utxo
        /\ AddressSymbol(known, d, out.address) \in Nat
    BY <2>3, <2>4, WithSymbolKeeps
  <2>6. IsMem(known)
    BY <2>3, WithSymbolSound DEF Sound
  <2>7. record \in Records
    BY <2>3, <2>5 DEF Records
  <2>8. seen.value = record /\ Key(tx, ref) = entry
    BY DEF Key
  <2> HIDE DEF known, record, entry, seen, n, added
  <2>9. /\ n.failed = known.failed /\ n.seenAddress = known.seenAddress
        /\ n.ops.utxo = With(known.ops.utxo, entry, record)
        /\ n.seenUtxo = With(known.seenUtxo, ref, seen)
    BY <2>2, <2>6 DEF IsMem
  <2>10. Kept(n) /\ \A k \in DOMAIN n.ops.utxo : n.ops.utxo[k] \in Records
    BY <2>5, <2>7, <2>8, <2>9 DEF Saving, Kept, With
  <2>11. DOMAIN n.seenUtxo = DOMAIN m.seenUtxo \cup {ref}
         /\ DOMAIN n.ops.utxo = DOMAIN m.ops.utxo \cup {entry}
    BY <2>5, <2>9 DEF With
  <2>12. Saving(n, d, tx, R \cup {ref})
    BY <2>8, <2>10, <2>11 DEF Saving
  <2> QED
    BY <2>5, <2>9, <2>12 DEF n
<1> QED
  BY <1>1, <1>2

------------------------------------------------------------------------------
(* What saveBlock does to the records *)

\* The inputs of a transaction.
LEMMA InputsSave ==
    ASSUME NEW m, NEW d, NEW table, Sound(m, table), DOMAIN d.utxo \subseteq Nat \X Nat, Readies(d),
           NEW tx, NEW R, Saving(m, d, tx, R), NEW t \in Txs,
           \A ref \in ToSet(Ins[t]) : ref \in R /\ GetTxSymbol(m, d, ref[1]) = tx[ref[1]],
           NEW symbol \in Nat, NEW height \in Nat
    PROVE  LET n == BatchTransactionInputs(m, d, t, symbol, height)
           IN  /\ Saving(n, d, tx, R)
               /\ n.failed => m.failed \/ \E ref \in ToSet(Ins[t]) : ~Addressed(ref)
<1> DEFINE N == Len(Ins[t])
<1>1. N \in Nat /\ \A n \in 1..N : Ins[t][n] \in OutputRefs /\ Ins[t][n] \in ToSet(Ins[t])
  BY UtxoIndexerAssumption DEF UtxoIndexerAssumption, ToSet
<1>2. PICK f : /\ InputsRun(f, m, d, t, symbol, height)
               /\ BatchTransactionInputs(m, d, t, symbol, height) = f[N]
  BY <1>1, InputsUnfolds
<1> DEFINE Good(k) == /\ Sound(f[k], table) /\ SameNames(m, f[k]) /\ Saving(f[k], d, tx, R)
                      /\ f[k].failed => m.failed \/ \E ref \in ToSet(Ins[t]) : ~Addressed(ref)
           S == {k \in 0..N : Good(k)}
<1>3. 0 \in S
  BY <1>1, <1>2 DEF SameNames, InputsRun
<1>4. ASSUME NEW k \in S, k < N PROVE k + 1 \in S
  <2> DEFINE ref == Ins[t][k + 1]
  <2>1. k \in 0..N /\ k + 1 \in 0..N /\ k + 1 \in 1..N
    BY <1>1, <1>4
  <2>2. Good(k)
    OBVIOUS
  <2>3. ref \in OutputRefs /\ ref \in ToSet(Ins[t]) /\ ref \in R
    BY <1>1, <2>1
  <2>4. f[k + 1] = InvalidateUtxo(f[k], d, ref, symbol, height)
    BY <1>2, <1>4, <2>1 DEF InputsRun
  <2> HIDE DEF ref, N
  <2>5. GetTxSymbol(f[k], d, ref[1]) = tx[ref[1]]
    BY <2>2, <2>3 DEF SameNames, GetTxSymbol
  <2>6. Sound(f[k + 1], table) /\ SameNames(f[k], f[k + 1])
    BY <2>2, <2>3, <2>4, InvalidateSound
  <2>7. /\ Saving(f[k + 1], d, tx, R)
        /\ f[k + 1].failed => f[k].failed \/ ~Addressed(ref)
    BY <2>2, <2>3, <2>4, <2>5, InvalidateSaves
  <2>8. SameNames(m, f[k + 1])
    BY <2>2, <2>6 DEF SameNames
  <2> QED
    BY <2>1, <2>2, <2>3, <2>6, <2>7, <2>8
<1>5. N \in S
  <2>1. S \in SUBSET (0..N)
    OBVIOUS
  <2> HIDE DEF S, N
  <2>3. \A k \in S : k < N => k + 1 \in S
    BY <1>4
  <2>4. S = 0..N
    BY <1>3, <1>1, <2>1, <2>3, UpTo
  <2> QED
    BY <1>1, <2>4
<1> QED
  BY <1>2, <1>5

\* The outputs of one more transaction.
LEMMA OutputsOfOne ==
    ASSUME NEW T, NEW t \in Txs
    PROVE  OutputsOf(T \cup {t}) = OutputsOf(T) \cup {<<t, n>> : n \in 1..Len(Outs[t])}
<1> DEFINE N == Len(Outs[t])
           R == OutputsOf(T) \cup {<<t, n>> : n \in 1..N}
<1>1. N \in Nat /\ \A n \in 1..N : <<t, n>> \in OutputRefs
  BY UtxoIndexerAssumption DEF UtxoIndexerAssumption, OutputRefs
<1>2. ASSUME NEW ref \in OutputRefs, ref[1] = t PROVE ref \in R
  <2>1. ref = <<ref[1], ref[2]>> /\ ref[2] \in 1..Len(Outs[ref[1]])
    BY RefType
  <2>2. ref = <<t, ref[2]>> /\ ref[2] \in 1..N
    BY <1>2, <2>1
  <2> HIDE DEF N
  <2> QED
    BY <2>2
<1>3. ASSUME NEW ref \in R PROVE ref \in OutputsOf(T \cup {t})
  BY <1>1 DEF OutputsOf
<1>4. OutputsOf(T \cup {t}) = R
  <2> HIDE DEF N
  <2> QED
    BY <1>2, <1>3 DEF OutputsOf
<1> QED
  BY <1>4

\* The outputs of a transaction.
LEMMA OutputsSave ==
    ASSUME NEW m, NEW d, NEW table, Sound(m, table), DOMAIN d.utxo \subseteq Nat \X Nat, Readies(d),
           NEW tx, NEW T, Saving(m, d, tx, OutputsOf(T)), NEW t \in Txs, t \notin T,
           NEW symbol \in Nat, symbol = tx[t], NEW height \in Nat
    PROVE  LET n == BatchTransactionOutputs(m, d, t, symbol, height)
           IN  Saving(n, d, tx, OutputsOf(T \cup {t})) /\ n.failed = m.failed
<1> DEFINE N == Len(Outs[t])
           R(k) == OutputsOf(T) \cup {<<t, n>> : n \in 1..k}
<1>1. N \in Nat /\ \A n \in 1..N : <<t, n>> \in OutputRefs
  BY UtxoIndexerAssumption DEF UtxoIndexerAssumption, OutputRefs
<1>2. PICK f : /\ OutputsRun(f, m, d, t, symbol, height)
               /\ BatchTransactionOutputs(m, d, t, symbol, height) = f[N]
  BY <1>1, OutputsUnfolds
<1> DEFINE Good(k) == /\ Sound(f[k], table) /\ Saving(f[k], d, tx, R(k))
                      /\ f[k].failed = m.failed
           S == {k \in 0..N : Good(k)}
<1>3. 0 \in S
  <2>1. R(0) = OutputsOf(T)
    OBVIOUS
  <2> HIDE DEF R
  <2> QED
    BY <1>1, <1>2, <2>1 DEF OutputsRun
<1>4. ASSUME NEW k \in S, k < N PROVE k + 1 \in S
  <2>1. k \in 0..N /\ k + 1 \in 0..N /\ k + 1 \in 1..N
    BY <1>1, <1>4
  <2>2. Good(k)
    OBVIOUS
  <2>3. <<t, k + 1>> \in OutputRefs /\ <<t, k + 1>> \notin R(k)
    BY <1>1, <2>1 DEF OutputsOf
  <2>4. R(k + 1) = R(k) \cup {<<t, k + 1>>}
    BY <2>1
  <2>5. f[k + 1] = BatchOutput(f[k], d, <<t, k + 1>>, symbol, height)
    BY <1>2, <1>4, <2>1 DEF OutputsRun
  <2> HIDE DEF N, R
  <2>6. Sound(f[k + 1], table)
    BY <2>2, <2>3, <2>5, OutputSound
  <2> DEFINE ref == <<t, k + 1>>
  <2>7. ref[1] = t
    OBVIOUS
  <2> HIDE DEF ref
  <2>8. Saving(f[k + 1], d, tx, R(k + 1)) /\ f[k + 1].failed = f[k].failed
    <3>1. ref \in OutputRefs /\ ref \notin R(k) /\ R(k + 1) = R(k) \cup {ref}
          /\ f[k + 1] = BatchOutput(f[k], d, ref, symbol, height)
      BY <2>3, <2>4, <2>5 DEF ref
    <3> QED
      BY <2>2, <2>7, <3>1, OutputSaves
  <2> QED
    BY <2>1, <2>2, <2>6, <2>8
<1>5. N \in S
  <2>1. S \in SUBSET (0..N)
    OBVIOUS
  <2>2. N \in Nat
    BY <1>1
  <2> HIDE DEF S, N, R, Good
  <2>3. \A k \in S : k < N => k + 1 \in S
    BY <1>4
  <2>4. S = 0..N
    BY <1>3, <2>1, <2>2, <2>3, UpTo
  <2> QED
    BY <2>2, <2>4
<1>6. R(N) = OutputsOf(T \cup {t})
  BY OutputsOfOne
<1>7. Good(N)
  <2> HIDE DEF N, Good
  <2> QED
    BY <1>5
<1> HIDE DEF N, R
<1> QED
  BY <1>2, <1>6, <1>7

\* One transaction of a block behind p, whose inputs are outputs made before.
LEMMA BatchTxSaves ==
    ASSUME NEW m, NEW d, NEW table, Sound(m, table), DOMAIN d.utxo \subseteq Nat \X Nat, Readies(d),
           NEW p \in BlockOrNone, NEW done, Adding(m, d, p, done),
           Saving(m, d, Apply(m.ops.tx, d.tx), OutputsOf(Mined(p) \cup done)),
           NEW t \in Txs, t \notin Mined(p), NEW height \in Nat,
           \A ref \in ToSet(Ins[t]) : ref[1] \in Mined(p) \cup done
    PROVE  LET n == BatchTx(m, d, t, height)
           IN  /\ Saving(n, d, Apply(n.ops.tx, d.tx), OutputsOf(Mined(p) \cup done \cup {t}))
               /\ n.failed => m.failed \/ \E ref \in ToSet(Ins[t]) : ~Addressed(ref)
<1> DEFINE tx == Apply(m.ops.tx, d.tx)
           T == Mined(p) \cup done
           n == BatchTx(m, d, t, height)
<1>1. GetTxSymbol(m, d, t) = IF t \in DOMAIN tx THEN tx[t] ELSE NoSymbol
  <2>1. m.seenTx = m.ops.tx /\ m.ops.tx \in [DOMAIN m.ops.tx -> Nat]
    BY DEF Adding
  <2> QED
    BY <2>1, TxSymbol
<1>2. CASE t \in done
  <2>1. t \in DOMAIN tx /\ tx[t] \in Nat
    BY <1>2 DEF Adding
  <2>2. GetTxSymbol(m, d, t) # NoSymbol
    BY <1>1, <2>1 DEF NoSymbol
  <2>3. n = m
    BY <2>2, Zenon DEF BatchTx
  <2>4. T \cup {t} = T
    BY <1>2
  <2> QED
    BY <2>3, <2>4
<1>3. CASE t \notin done
  <2> DEFINE s == m.lastTx + 1
             named == [m EXCEPT !.lastTx = s, !.seenTx = With(@, t, s),
                                !.ops.tx = With(@, t, s), !.ops.txid = With(@, s, t)]
             spent == BatchTransactionInputs(named, d, t, s, height)
             tx2 == Apply(named.ops.tx, d.tx)
  <2>1. GetTxSymbol(m, d, t) = NoSymbol
    BY <1>1, <1>3 DEF Adding
  <2>2. n = BatchTransactionOutputs(spent, d, t, s, height)
    BY <2>1, Zenon DEF BatchTx
  <2>3. s \in Nat
    BY DEF Adding, NoSymbol
  <2>4. IsMem(m)
    BY DEF Sound
  <2>5. \A u : u \in DOMAIN tx <=> u \in T
    BY DEF Adding
  <2> HIDE DEF n, tx, spent, s, tx2, T
  <2>6. /\ IsMem(named) /\ named.lastAddress = m.lastAddress /\ named.failed = m.failed
        /\ named.ops.address = m.ops.address /\ named.ops.utxo = m.ops.utxo
        /\ named.seenUtxo = m.seenUtxo /\ named.seenAddress = m.seenAddress
        /\ named.lastTx = s /\ named.seenTx = With(m.seenTx, t, s)
        /\ named.ops.tx = With(m.ops.tx, t, s) /\ named.ops.txid = With(m.ops.txid, s, t)
    BY <2>4 DEF IsMem
  <2> HIDE DEF named
  <2>7. Sound(named, table)
    BY <2>6, UtxoChangeSound
  <2>8. Adding(named, d, p, done \cup {t})
    BY <1>3, <2>6, AddingOne DEF s
  <2>9. tx2[t] = s /\ \A u \in T : u # t /\ tx2[u] = tx[u] /\ u \in DOMAIN tx2
    <3>1. s # Deleted
      BY <2>3, UtxoIndexerAssumption DEF UtxoIndexerAssumption
    <3>2. t \notin T
      BY <1>3 DEF T
    <3> QED
      BY <2>5, <2>6, <3>1, <3>2, ApplyWith DEF tx, tx2
  <2>10. Saving(named, d, tx2, OutputsOf(T))
    <3>1. \A ref \in OutputsOf(T) : Key(tx2, ref) = Key(tx, ref)
      BY <2>9 DEF OutputsOf, Key
    <3>2. Saving(m, d, tx, OutputsOf(T))
      BY DEF T, tx
    <3> QED
      BY <2>6, <3>1, <3>2 DEF Saving, Kept
  <2>11. ASSUME NEW ref \in ToSet(Ins[t])
         PROVE  ref \in OutputsOf(T) /\ GetTxSymbol(named, d, ref[1]) = tx2[ref[1]]
    <3>1. ref \in OutputRefs
      BY UtxoIndexerAssumption DEF UtxoIndexerAssumption, ToSet
    <3>2. ref[1] \in T
      BY DEF T
    <3>3. named.seenTx = named.ops.tx /\ named.ops.tx \in [DOMAIN named.ops.tx -> Nat]
      BY <2>8 DEF Adding
    <3>4. GetTxSymbol(named, d, ref[1]) = tx2[ref[1]]
      BY <2>9, <3>2, <3>3, TxSymbol DEF tx2
    <3> QED
      BY <3>1, <3>2, <3>4 DEF OutputsOf
  <2>12. Sound(spent, table) /\ SameNames(named, spent)
    BY <2>3, <2>7, InputsSound DEF spent
  <2>13. /\ Saving(spent, d, tx2, OutputsOf(T))
         /\ spent.failed => named.failed \/ \E ref \in ToSet(Ins[t]) : ~Addressed(ref)
    BY <2>3, <2>7, <2>10, <2>11, InputsSave DEF spent
  <2>14. Sound(n, table) /\ SameNames(spent, n)
    BY <2>2, <2>3, <2>12, OutputsSound
  <2>15. t \notin T
    BY <1>3 DEF T
  <2>16. Saving(n, d, tx2, OutputsOf(T \cup {t})) /\ n.failed = spent.failed
    <3>1. Sound(spent, table) /\ Saving(spent, d, tx2, OutputsOf(T)) /\ s = tx2[t]
      BY <2>9, <2>12, <2>13
    <3> QED
      BY <2>2, <2>3, <2>15, <3>1, OutputsSave
  <2>17. Apply(n.ops.tx, d.tx) = tx2
    BY <2>12, <2>14 DEF SameNames, tx2
  <2> QED
    BY <2>6, <2>13, <2>16, <2>17 DEF n, T
<1> QED
  BY <1>2, <1>3

\* A block spends an output that has not exactly one address.
SpendsUnlisted(b) ==
    \E t \in ToSet(TxsOf[b]), ref \in OutputRefs : ref \in ToSet(Ins[t]) /\ ~Addressed(ref)

\* The first k transactions of a block.
First(b, k) == {TxsOf[b][i] : i \in 1..k}

\* The first k of them all are the transactions of the block.
LEMMA FirstAll ==
    ASSUME NEW b \in Blocks
    PROVE  LET N == Len(TxsOf[b])
           IN  /\ N \in Nat /\ N \in 0..N /\ 0 \in 0..N
               /\ \A i \in 1..N : TxsOf[b][i] \in Txs
               /\ ToSet(TxsOf[b]) = First(b, N) /\ First(b, 0) = {}
<1> DEFINE N == Len(TxsOf[b])
<1>1. TxsOf[b] \in Seq(Txs)
  BY UtxoIndexerAssumption DEF UtxoIndexerAssumption
<1>2. N \in Nat /\ N \in 0..N /\ 0 \in 0..N /\ \A i \in 1..N : TxsOf[b][i] \in Txs
  BY <1>1
<1>3. ToSet(TxsOf[b]) = {TxsOf[b][i] : i \in 1..N}
  BY <1>1 DEF ToSet
<1>4. First(b, N) = {TxsOf[b][i] : i \in 1..N} /\ First(b, 0) = {}
  BY DEF First
<1> QED
  BY <1>2, <1>3, <1>4

\* saveBlock goes through its transactions, and after each of them memory has the outputs of
\* those before.
LEMMA SaveBlockRuns ==
    ASSUME NEW m, NEW d, NEW table, Sound(m, table), DOMAIN d.utxo \subseteq Nat \X Nat, Readies(d),
           NEW b \in Blocks, m.seenTx = m.ops.tx, m.ops.tx \in [DOMAIN m.ops.tx -> Nat],
           Names(m.ops, m.lastTx, d, Parent[b]), ~m.failed,
           Saving(m, d, Apply(m.ops.tx, d.tx), OutputsOf(Mined(Parent[b])))
    PROVE  \E f :
              /\ SavedRun(f, m, d, b) /\ SaveBlock(m, d, b) = f[Len(TxsOf[b])]
              /\ \A k \in 0..Len(TxsOf[b]) :
                    LET T == Mined(Parent[b]) \cup First(b, k)
                    IN  /\ Sound(f[k], table) /\ Adding(f[k], d, Parent[b], First(b, k))
                        /\ Saving(f[k], d, Apply(f[k].ops.tx, d.tx), OutputsOf(T))
                        /\ f[k].failed => SpendsUnlisted(b)
<1> DEFINE p == Parent[b]
           N == Len(TxsOf[b])
           done(k) == First(b, k)
           h == Height[b]
           n == SaveBlock(m, d, b)
<1>0. p \in BlockOrNone
  BY ChainEnds
<1>1. N \in Nat /\ (\A i \in 1..N : TxsOf[b][i] \in Txs) /\ ToSet(TxsOf[b]) = done(N)
  BY FirstAll
<1>2. Mined(b) = Mined(p) \cup ToSet(TxsOf[b]) /\ Mined(p) \cap ToSet(TxsOf[b]) = {}
  BY MinedSplit
<1>3. h \in Nat
  BY BlockTreeAssumption DEF BlockTreeAssumption
<1>4. IsMem(m)
  BY DEF Sound
<1>5. /\ IsMem(Begun(m, b)) /\ Begun(m, b).lastAddress = m.lastAddress
      /\ Begun(m, b).ops.address = m.ops.address /\ Begun(m, b).ops.utxo = m.ops.utxo
      /\ Begun(m, b).seenUtxo = m.seenUtxo /\ Begun(m, b).seenAddress = m.seenAddress
      /\ Begun(m, b).lastTx = m.lastTx /\ Begun(m, b).seenTx = m.seenTx
      /\ Begun(m, b).ops.tx = m.ops.tx /\ Begun(m, b).ops.txid = m.ops.txid
      /\ Begun(m, b).failed = m.failed
  BY <1>4 DEF IsMem, Begun
<1>6. Sound(Begun(m, b), table)
  BY <1>5, UtxoChangeSound
<1>7. Adding(Begun(m, b), d, p, done(0))
  <2>1. TxNames(Apply(m.ops.tx, d.tx), Apply(m.ops.txid, d.txid), m.lastTx, p)
    BY DEF Names
  <2>2. done(0) = {}
    BY DEF First
  <2> HIDE DEF done, p
  <2> QED
    BY <1>5, <2>1, <2>2 DEF Adding, TxNames
<1>8. PICK f : SavedRun(f, m, d, b) /\ n = f[N]
  BY <1>1, SavedUnfolds
<1> DEFINE Good(k) == /\ Sound(f[k], table) /\ Adding(f[k], d, p, done(k))
                      /\ Saving(f[k], d, Apply(f[k].ops.tx, d.tx), OutputsOf(Mined(p) \cup done(k)))
                      /\ f[k].failed => SpendsUnlisted(b)
           S == {k \in 0..N : Good(k)}
<1>9. 0 \in S
  <2>1. f[0] = Begun(m, b)
    BY <1>8 DEF SavedRun
  <2>2. 0 \in 0..N
    BY <1>1
  <2>3. Mined(p) \cup done(0) = Mined(p)
    BY DEF First
  <2>4. Saving(f[0], d, Apply(f[0].ops.tx, d.tx), OutputsOf(Mined(p)))
    BY <1>5, <2>1 DEF Saving, Kept
  <2> HIDE DEF done, p, h, N
  <2> QED
    BY <1>5, <1>6, <1>7, <2>1, <2>2, <2>3, <2>4
<1>10. ASSUME NEW k \in S, k < N PROVE k + 1 \in S
  <2> DEFINE t == TxsOf[b][k + 1]
  <2>1. k \in 0..N /\ k + 1 \in 0..N /\ k + 1 \in 1..N /\ Good(k)
    <3> HIDE DEF Good
    <3> QED
      BY <1>1, <1>10
  <2>2. f[k + 1] = BatchTx(f[k], d, t, h)
    BY <1>8, <1>10, <2>1 DEF SavedRun
  <2>3. t \in Txs /\ t \notin Mined(p) /\ t \in ToSet(TxsOf[b])
    BY <1>1, <1>2, <2>1 DEF ToSet
  <2>4. done(k + 1) = done(k) \cup {t}
    BY <2>1 DEF First
  <2>5. ASSUME NEW ref \in ToSet(Ins[t]) PROVE ref \in OutputRefs /\ ref[1] \in Mined(p) \cup done(k)
    <3>1. k + 1 \in DOMAIN TxsOf[b]
      BY <2>1, UtxoIndexerAssumption DEF UtxoIndexerAssumption
    <3>2. \/ \E c \in Chain[p] : ref[1] \in ToSet(TxsOf[c])
          \/ \E j \in 1 .. (k + 1) - 1 : TxsOf[b][j] = ref[1]
      BY <3>1, SpentInOrder
    <3>3. (k + 1) - 1 = k
      BY <2>1
    <3>4. ref \in OutputRefs
      BY <2>3, UtxoIndexerAssumption DEF UtxoIndexerAssumption, ToSet
    <3> QED
      BY <3>2, <3>3, <3>4 DEF Mined, First
  <2> HIDE DEF done, p, h, N, t
  <2>6. Sound(f[k + 1], table) /\ Adding(f[k + 1], d, p, done(k + 1))
    <3>1. Sound(f[k], table) /\ Adding(f[k], d, p, done(k))
      BY <2>1
    <3>2. /\ Sound(BatchTx(f[k], d, t, h), table)
          /\ Adding(BatchTx(f[k], d, t, h), d, p, done(k) \cup {t})
      <4> HIDE DEF Good, S
      <4> QED
        BY <1>0, <2>3, <3>1, BatchTxAdds
    <3> QED
      BY <2>2, <2>4, <3>2
  <2>7. /\ Saving(f[k + 1], d, Apply(f[k + 1].ops.tx, d.tx), OutputsOf(Mined(p) \cup done(k) \cup {t}))
        /\ f[k + 1].failed => f[k].failed \/ \E ref \in ToSet(Ins[t]) : ~Addressed(ref)
    BY <1>0, <1>3, <2>1, <2>2, <2>3, <2>5, BatchTxSaves
  <2>8. f[k + 1].failed => SpendsUnlisted(b)
    BY <2>1, <2>3, <2>5, <2>7 DEF SpendsUnlisted
  <2>9. Mined(p) \cup done(k) \cup {t} = Mined(p) \cup done(k + 1)
    BY <2>4
  <2> QED
    BY <2>1, <2>6, <2>7, <2>8, <2>9
<1>11. S = 0..N
  <2>1. S \in SUBSET (0..N)
    OBVIOUS
  <2>2. N \in Nat
    BY <1>1
  <2> HIDE DEF S, N, Good
  <2>3. \A k \in S : k < N => k + 1 \in S
    BY <1>10
  <2> QED
    BY <1>9, <2>1, <2>2, <2>3, UpTo
<1>12. \A k \in 0..N : Good(k)
  <2> HIDE DEF N, Good
  <2> QED
    BY <1>11
<1> QED
  BY <1>8, <1>12

\* saveBlock leaves memory with the outputs of the chain of the block it adds.
LEMMA SaveBlockSaves ==
    ASSUME NEW m, NEW d, NEW table, Sound(m, table), DOMAIN d.utxo \subseteq Nat \X Nat, Readies(d),
           NEW b \in Blocks, m.seenTx = m.ops.tx, m.ops.tx \in [DOMAIN m.ops.tx -> Nat],
           Names(m.ops, m.lastTx, d, Parent[b]), ~m.failed,
           Saving(m, d, Apply(m.ops.tx, d.tx), OutputsOf(Mined(Parent[b])))
    PROVE  LET n == SaveBlock(m, d, b)
           IN  /\ Saving(n, d, Apply(n.ops.tx, d.tx), OutputsOf(Mined(b)))
               /\ n.failed => SpendsUnlisted(b)
<1> DEFINE N == Len(TxsOf[b])
<1>1. N \in 0..N /\ ToSet(TxsOf[b]) = First(b, N)
  BY FirstAll
<1>2. Mined(b) = Mined(Parent[b]) \cup First(b, N)
  BY <1>1, MinedSplit
<1>3. PICK f :
         /\ SaveBlock(m, d, b) = f[N]
         /\ \A k \in 0..N :
               /\ Saving(f[k], d, Apply(f[k].ops.tx, d.tx), OutputsOf(Mined(Parent[b]) \cup First(b, k)))
               /\ f[k].failed => SpendsUnlisted(b)
  BY SaveBlockRuns
<1> HIDE DEF N
<1> QED
  BY <1>1, <1>2, <1>3

------------------------------------------------------------------------------
(* What removeBlock does to the records *)

\* Memory while a block is taken back: only records under symbols in D are deleted.
Undoing(m, D) ==
    /\ Kept(m)
    /\ m.seenUtxo = EmptyTable
    /\ \A k \in DOMAIN m.ops.utxo : m.ops.utxo[k] = Deleted => k[1] \in D

\* An input whose output is on disk is put back.
LEMMA RevalidateUndoes ==
    ASSUME NEW m, NEW d, NEW table, Sound(m, table), Readies(d), NEW D, Undoing(m, D),
           NEW ref \in OutputRefs,
           Addressed(ref) => <<GetTxSymbol(m, d, ref[1]), ref[2]>> \in DOMAIN d.utxo
    PROVE  LET n == RevalidateUtxo(m, d, ref)
           IN  Undoing(n, D) /\ (n.failed => m.failed \/ ~Addressed(ref))
<1> DEFINE n == RevalidateUtxo(m, d, ref)
           record == [UtxoValue(m, d, ref) EXCEPT !.spentIn = NoSymbol, !.spentOn = NoSymbol]
           key == UtxoKey(m, d, ref)
<1>0. IsMem(m)
  BY DEF Sound
<1>1. CASE ~Found(m, d, ref)
  <2>1. n = [m EXCEPT !.failed = TRUE]
    BY <1>1, Zenon DEF RevalidateUtxo
  <2> HIDE DEF n
  <2>2. n.ops = m.ops /\ n.seenUtxo = m.seenUtxo /\ n.seenAddress = m.seenAddress
    BY <1>0, <2>1 DEF IsMem
  <2>3. ~Addressed(ref)
    BY <1>1 DEF Found
  <2> QED
    BY <2>2, <2>3 DEF Undoing, Kept, n
<1>2. CASE Found(m, d, ref)
  <2>1. n = [m EXCEPT !.ops.utxo = With(@, key, record)]
    BY <1>2, Zenon DEF RevalidateUtxo
  <2>2. UtxoValue(m, d, ref) \in Records
    BY <1>2 DEF UtxoValue, UtxoKey, Found, Undoing, Kept, Readies
  <2>3. record \in Records /\ record # Deleted
    BY <2>2, RecordChanges
  <2> HIDE DEF n, record, key
  <2>4. /\ n.failed = m.failed /\ n.seenUtxo = m.seenUtxo /\ n.seenAddress = m.seenAddress
        /\ n.ops.utxo = With(m.ops.utxo, key, record)
    BY <1>0, <2>1 DEF IsMem
  <2> QED
    BY <2>3, <2>4 DEF Undoing, Kept, With, n
<1> QED
  BY <1>1, <1>2

\* An output is deleted.
LEMMA RemoveOutputUndoes ==
    ASSUME NEW m, NEW d, NEW table, Sound(m, table), Readies(d), NEW D, Undoing(m, D),
           NEW ref \in OutputRefs, NEW symbol \in D
    PROVE  LET n == RemoveOutput(m, d, ref, symbol)
           IN  Undoing(n, D) /\ n.failed = m.failed
<1> DEFINE n == RemoveOutput(m, d, ref, symbol)
           out   == Outs[ref[1]][ref[2]]
           entry == <<symbol, ref[2]>>
           known == WithSymbol(m, d, out.address)
           holder == AddressSymbol(known, d, out.address)
           deleted == With(m.ops.utxo, entry, Deleted)
           list == Without(ListOf(d, holder), entry)
<1>0. IsMem(m) /\ Kept(m) /\ out \in [address : Addresses \cup {NoAddress}, sats : Nat]
  BY RefType DEF Sound, Undoing
<1>1. n = IF out.address = NoAddress THEN [m EXCEPT !.ops.utxo = deleted]
          ELSE [known EXCEPT !.ops.utxo = deleted, !.ops.list = With(@, holder, list)]
  BY Zenon DEF RemoveOutput
<1>2. /\ \A k \in DOMAIN deleted : \/ k \in DOMAIN m.ops.utxo /\ deleted[k] = m.ops.utxo[k]
                                   \/ deleted[k] = Deleted /\ k[1] \in D
  BY DEF With
<1> HIDE DEF n, deleted, list, holder, known
<1>3. CASE out.address = NoAddress
  <2>1. /\ n.failed = m.failed /\ n.seenUtxo = m.seenUtxo /\ n.seenAddress = m.seenAddress
        /\ n.ops.utxo = deleted
    BY <1>0, <1>1, <1>3 DEF IsMem
  <2> QED
    BY <1>2, <2>1 DEF Undoing, Kept, n
<1>4. CASE out.address # NoAddress
  <2>1. out.address \in Addresses
    BY <1>0, <1>4
  <2> HIDE DEF out
  <2>2. Kept(known) /\ known.failed = m.failed /\ known.seenUtxo = m.seenUtxo
        /\ known.ops.utxo = m.ops.utxo
    BY <1>0, <2>1, WithSymbolKeeps DEF known
  <2>3. IsMem(known)
    BY <2>1, WithSymbolSound DEF Sound, known
  <2>4. /\ n.failed = known.failed /\ n.seenUtxo = known.seenUtxo
        /\ n.seenAddress = known.seenAddress /\ n.ops.utxo = deleted
    BY <1>1, <1>4, <2>3 DEF IsMem
  <2> QED
    BY <1>2, <2>2, <2>4 DEF Undoing, Kept, n
<1> QED
  BY <1>3, <1>4

\* The inputs of a transaction.
LEMMA RevalidatedUndoes ==
    ASSUME NEW m, NEW d, NEW table, Sound(m, table), DOMAIN d.utxo \subseteq Nat \X Nat, Readies(d),
           NEW D, Undoing(m, D), NEW t \in Txs,
           \A ref \in ToSet(Ins[t]) :
              Addressed(ref) => <<GetTxSymbol(m, d, ref[1]), ref[2]>> \in DOMAIN d.utxo
    PROVE  LET n == RevalidateInputs(m, d, t)
           IN  /\ Undoing(n, D)
               /\ n.failed => m.failed \/ \E ref \in ToSet(Ins[t]) : ~Addressed(ref)
<1> DEFINE N == Len(Ins[t])
<1>1. N \in Nat /\ \A n \in 1..N : Ins[t][n] \in OutputRefs /\ Ins[t][n] \in ToSet(Ins[t])
  BY UtxoIndexerAssumption DEF UtxoIndexerAssumption, ToSet
<1>2. PICK f : RevalidatedRun(f, m, d, t) /\ RevalidateInputs(m, d, t) = f[N]
  BY <1>1, RevalidatedUnfolds
<1> DEFINE Good(k) == /\ Sound(f[k], table) /\ SameNames(m, f[k]) /\ Undoing(f[k], D)
                      /\ f[k].failed => m.failed \/ \E ref \in ToSet(Ins[t]) : ~Addressed(ref)
           S == {k \in 0..N : Good(k)}
<1>3. 0 \in S
  BY <1>1, <1>2 DEF SameNames, RevalidatedRun
<1>4. ASSUME NEW k \in S, k < N PROVE k + 1 \in S
  <2> DEFINE ref == Ins[t][k + 1]
  <2>1. k \in 0..N /\ k + 1 \in 0..N /\ k + 1 \in 1..N
    BY <1>1, <1>4
  <2>2. Good(k)
    OBVIOUS
  <2>3. ref \in OutputRefs /\ ref \in ToSet(Ins[t])
    BY <1>1, <2>1
  <2>4. f[k + 1] = RevalidateUtxo(f[k], d, ref)
    BY <1>2, <1>4, <2>1 DEF RevalidatedRun
  <2> HIDE DEF ref, N
  <2>5. GetTxSymbol(f[k], d, ref[1]) = GetTxSymbol(m, d, ref[1])
    BY <2>2 DEF SameNames, GetTxSymbol
  <2>6. Sound(f[k + 1], table) /\ SameNames(f[k], f[k + 1])
    BY <2>2, <2>3, <2>4, RevalidateSound
  <2>7. Addressed(ref) => <<GetTxSymbol(f[k], d, ref[1]), ref[2]>> \in DOMAIN d.utxo
    BY <2>3, <2>5
  <2>8. /\ Undoing(f[k + 1], D)
        /\ f[k + 1].failed => f[k].failed \/ ~Addressed(ref)
    BY <2>2, <2>3, <2>4, <2>7, RevalidateUndoes
  <2>9. SameNames(m, f[k + 1])
    BY <2>2, <2>6 DEF SameNames
  <2> QED
    BY <2>1, <2>2, <2>3, <2>6, <2>8, <2>9
<1>5. N \in S
  <2>1. S \in SUBSET (0..N)
    OBVIOUS
  <2> HIDE DEF S, N
  <2>3. \A k \in S : k < N => k + 1 \in S
    BY <1>4
  <2>4. S = 0..N
    BY <1>3, <1>1, <2>1, <2>3, UpTo
  <2> QED
    BY <1>1, <2>4
<1> QED
  BY <1>2, <1>5

\* The outputs of a transaction.
LEMMA RemovedUndoes ==
    ASSUME NEW m, NEW d, NEW table, Sound(m, table), DOMAIN d.utxo \subseteq Nat \X Nat, Readies(d),
           NEW D \in SUBSET Nat, Undoing(m, D), NEW t \in Txs, NEW symbol \in D
    PROVE  LET n == RemoveOutputs(m, d, t, symbol)
           IN  Undoing(n, D) /\ n.failed = m.failed
<1> DEFINE N == Len(Outs[t])
<1>1. N \in Nat /\ \A n \in 1..N : <<t, n>> \in OutputRefs
  BY UtxoIndexerAssumption DEF UtxoIndexerAssumption, OutputRefs
<1>2. PICK f : RemovedRun(f, m, d, t, symbol) /\ RemoveOutputs(m, d, t, symbol) = f[N]
  BY <1>1, RemovedUnfolds
<1> DEFINE Good(k) == Sound(f[k], table) /\ Undoing(f[k], D) /\ f[k].failed = m.failed
           S == {k \in 0..N : Good(k)}
<1>3. 0 \in S
  BY <1>1, <1>2 DEF RemovedRun
<1>4. ASSUME NEW k \in S, k < N PROVE k + 1 \in S
  <2> DEFINE ref == <<t, k + 1>>
  <2>1. k \in 0..N /\ k + 1 \in 0..N /\ k + 1 \in 1..N
    BY <1>1, <1>4
  <2>2. Good(k)
    OBVIOUS
  <2>3. ref \in OutputRefs
    BY <1>1, <2>1
  <2>4. f[k + 1] = RemoveOutput(f[k], d, ref, symbol)
    BY <1>2, <1>4, <2>1 DEF RemovedRun
  <2> HIDE DEF ref, N
  <2>5. symbol \in Nat
    OBVIOUS
  <2>6. Sound(f[k + 1], table)
    BY <2>2, <2>3, <2>4, <2>5, RemoveOutputSound
  <2>7. Undoing(f[k + 1], D) /\ f[k + 1].failed = f[k].failed
    BY <2>2, <2>3, <2>4, RemoveOutputUndoes
  <2> QED
    BY <2>1, <2>2, <2>6, <2>7
<1>5. N \in S
  <2>1. S \in SUBSET (0..N)
    OBVIOUS
  <2> HIDE DEF S, N
  <2>3. \A k \in S : k < N => k + 1 \in S
    BY <1>4
  <2>4. S = 0..N
    BY <1>3, <1>1, <2>1, <2>3, UpTo
  <2> QED
    BY <1>1, <2>4
<1> QED
  BY <1>2, <1>5

\* One transaction of removeBlock: its records are those under its symbol.
LEMMA RemoveTxUndoes ==
    ASSUME NEW m, NEW d, NEW table, Sound(m, table), DOMAIN d.utxo \subseteq Nat \X Nat, Readies(d),
           NEW done, Dropping(m, done), NEW D \in SUBSET Nat, Undoing(m, D),
           NEW t \in Txs, t \in DOMAIN d.tx, d.tx[t] \in D,
           \A ref \in ToSet(Ins[t]) :
              Addressed(ref) => ref[1] \in DOMAIN d.tx /\ Key(d.tx, ref) \in DOMAIN d.utxo
    PROVE  LET n == RemoveTx(m, d, t)
           IN  /\ Undoing(n, D)
               /\ n.failed => m.failed \/ \E ref \in ToSet(Ins[t]) : ~Addressed(ref)
<1> DEFINE s == GetTxSymbol(m, d, t)
           back == RevalidateInputs(m, d, t)
           gone == RemoveOutputs(back, d, t, s)
           n == RemoveTx(m, d, t)
<1>1. s = d.tx[t]
  BY EmptyTableIsEmpty DEF Dropping, GetTxSymbol
<1>2. s \in D /\ s \in Nat /\ s # NoSymbol
  BY <1>1 DEF NoSymbol
<1>3. n = [gone EXCEPT !.ops.tx = With(@, t, Deleted)]
  BY <1>2, Zenon DEF RemoveTx
<1>4. \A ref \in ToSet(Ins[t]) :
         Addressed(ref) => <<GetTxSymbol(m, d, ref[1]), ref[2]>> \in DOMAIN d.utxo
  BY EmptyTableIsEmpty DEF Dropping, GetTxSymbol, Key
<1> HIDE DEF s, back, gone, n
<1>5. Sound(back, table)
  BY RevalidatedSound DEF back
<1>6. /\ Undoing(back, D)
      /\ back.failed => m.failed \/ \E ref \in ToSet(Ins[t]) : ~Addressed(ref)
  BY <1>4, RevalidatedUndoes DEF back
<1>7. Sound(gone, table)
  BY <1>2, <1>5, RemovedSound DEF gone
<1>8. Undoing(gone, D) /\ gone.failed = back.failed
  BY <1>2, <1>5, <1>6, RemovedUndoes DEF gone
<1>9. IsMem(gone)
  BY <1>7 DEF Sound
<1>10. /\ n.failed = gone.failed /\ n.seenUtxo = gone.seenUtxo
       /\ n.seenAddress = gone.seenAddress /\ n.ops.utxo = gone.ops.utxo
  BY <1>3, <1>9 DEF IsMem
<1>11. Undoing(n, D)
  BY <1>8, <1>10 DEF Undoing, Kept
<1> QED
  BY <1>6, <1>8, <1>10, <1>11 DEF n

\* removeBlock finds every output that the block spends, unless that has not exactly one
\* address, and leaves the records of the chain of the parent.
LEMMA RemoveBlockUndoes ==
    ASSUME NEW m, NEW d, NEW table, Sound(m, table), DOMAIN d.utxo \subseteq Nat \X Nat, Readies(d),
           NEW b \in Blocks, NoNames(m), m.seenTx = m.ops.tx, NEW last,
           TxNames(d.tx, d.txid, last, b), Covers(d.utxo, d.tx, b),
           Kept(m), m.ops.utxo = EmptyTable, m.seenUtxo = EmptyTable, ~m.failed
    PROVE  LET n == RemoveBlock(m, d, b)
           IN  /\ Kept(n)
               /\ n.failed => SpendsUnlisted(b)
               /\ Covers(Apply(n.ops.utxo, d.utxo), Apply(n.ops.tx, d.tx), Parent[b])
<1> DEFINE p == Parent[b]
           N == Len(TxsOf[b])
           done(k) == {TxsOf[b][i] : i \in 1..k}
           D == {d.tx[t] : t \in ToSet(TxsOf[b])}
           n == RemoveBlock(m, d, b)
<1>1. N \in Nat /\ (\A i \in 1..N : TxsOf[b][i] \in Txs) /\ ToSet(TxsOf[b]) = done(N)
  <2>1. TxsOf[b] \in Seq(Txs)
    BY UtxoIndexerAssumption DEF UtxoIndexerAssumption
  <2> QED
    BY <2>1 DEF ToSet
<1>2. Mined(b) = Mined(p) \cup ToSet(TxsOf[b]) /\ Mined(p) \cap ToSet(TxsOf[b]) = {}
  BY MinedSplit
<1>3. /\ DOMAIN d.tx = Mined(b)
      /\ \A t \in Mined(b) : d.tx[t] \in Nat /\ d.txid[d.tx[t]] = t
  BY DEF TxNames
<1>4. D \in SUBSET Nat
  BY <1>2, <1>3
<1>5. PICK f : UndoneRun(f, m, d, b) /\ n = Unnamed(f[N], m, d, b)
  BY <1>1, UndoneUnfolds
<1> DEFINE Good(k) == /\ Sound(f[k], table) /\ Dropping(f[k], done(k)) /\ Undoing(f[k], D)
                      /\ f[k].failed => SpendsUnlisted(b)
           S == {k \in 0..N : Good(k)}
<1>6. 0 \in S
  <2>1. f[0] = m /\ 0 \in 0..N /\ done(0) = {}
    BY <1>1, <1>5 DEF UndoneRun
  <2> HIDE DEF done, N, D
  <2>2. Dropping(m, {})
    BY EmptyTableIsEmpty DEF NoNames, Dropping
  <2>3. Undoing(m, D)
    BY EmptyTableIsEmpty DEF Undoing
  <2> QED
    BY <2>1, <2>2, <2>3
<1>7. ASSUME NEW k \in S, k < N PROVE k + 1 \in S
  <2> DEFINE t == TxsOf[b][k + 1]
  <2>1. k \in 0..N /\ k + 1 \in 0..N /\ k + 1 \in 1..N /\ Good(k)
    <3> HIDE DEF Good
    <3> QED
      BY <1>1, <1>7
  <2>2. f[k + 1] = RemoveTx(f[k], d, t)
    BY <1>5, <1>7, <2>1 DEF UndoneRun
  <2>3. t \in Txs /\ t \in ToSet(TxsOf[b]) /\ t \in Mined(b)
    BY <1>1, <1>2, <2>1 DEF ToSet
  <2>4. done(k + 1) = done(k) \cup {t}
    BY <2>1
  <2>5. ASSUME NEW ref \in ToSet(Ins[t]) PROVE ref \in OutputRefs /\ ref[1] \in Mined(b)
    <3>1. k + 1 \in DOMAIN TxsOf[b]
      BY <2>1, UtxoIndexerAssumption DEF UtxoIndexerAssumption
    <3>2. \/ \E c \in Chain[p] : ref[1] \in ToSet(TxsOf[c])
          \/ \E j \in 1 .. (k + 1) - 1 : TxsOf[b][j] = ref[1]
      BY <3>1, SpentInOrder
    <3>3. \A j \in 1 .. (k + 1) - 1 : TxsOf[b][j] \in ToSet(TxsOf[b])
      BY <1>1, <2>1
    <3>4. ref \in OutputRefs
      BY <2>3, UtxoIndexerAssumption DEF UtxoIndexerAssumption, ToSet
    <3> HIDE DEF N, p, t
    <3> QED
      BY <1>2, <3>2, <3>3, <3>4 DEF Mined
  <2>6. d.tx[t] \in D
    BY <2>3
  <2> HIDE DEF done, p, N, t, D
  <2>7. t \in DOMAIN d.tx /\ d.tx[t] \in Nat
    BY <1>3, <2>3
  <2>8. Sound(f[k + 1], table) /\ Dropping(f[k + 1], done(k + 1))
    BY <2>1, <2>2, <2>3, <2>4, <2>7, RemoveTxDrops
  <2>9. \A ref \in ToSet(Ins[t]) :
           Addressed(ref) => ref[1] \in DOMAIN d.tx /\ Key(d.tx, ref) \in DOMAIN d.utxo
    BY <1>3, <2>5 DEF Covers, OutputsOf
  <2>10. Undoing(f[k + 1], D)
         /\ (f[k + 1].failed => f[k].failed \/ \E ref \in ToSet(Ins[t]) : ~Addressed(ref))
    BY <1>4, <2>1, <2>2, <2>3, <2>6, <2>7, <2>9, RemoveTxUndoes
  <2>11. f[k + 1].failed => SpendsUnlisted(b)
    BY <2>1, <2>3, <2>5, <2>10 DEF SpendsUnlisted
  <2> QED
    BY <2>1, <2>8, <2>10, <2>11
<1>8. N \in S
  <2>1. S \in SUBSET (0..N)
    OBVIOUS
  <2> HIDE DEF S, N
  <2>3. \A k \in S : k < N => k + 1 \in S
    BY <1>7
  <2>4. S = 0..N
    BY <1>6, <1>1, <2>1, <2>3, UpTo
  <2> QED
    BY <1>1, <2>4
<1> DEFINE before == f[N]
<1>9. /\ Sound(before, table) /\ Dropping(before, ToSet(TxsOf[b])) /\ Undoing(before, D)
      /\ before.failed => SpendsUnlisted(b)
  <2> HIDE DEF done, N, D
  <2> QED
    BY <1>1, <1>8
<1>10. n = Unnamed(before, m, d, b)
  BY <1>5
<1> HIDE DEF S, Good, done, n, N, before, p
<1>11. /\ n.ops.utxo = before.ops.utxo /\ n.ops.tx = before.ops.tx /\ n.failed = before.failed
       /\ n.seenUtxo = before.seenUtxo /\ n.seenAddress = before.seenAddress
  <2>1. IsMem(before)
    BY <1>9 DEF Sound
  <2> QED
    BY <1>10, <2>1 DEF IsMem, Unnamed
<1>12. ASSUME NEW ref \in OutputsOf(Mined(p)), Addressed(ref)
       PROVE  Key(Apply(n.ops.tx, d.tx), ref) \in DOMAIN Apply(n.ops.utxo, d.utxo)
  <2> DEFINE t == ref[1]
             key == Key(d.tx, ref)
  <2>1. t \in Mined(p) /\ t \in Mined(b) /\ t \notin ToSet(TxsOf[b]) /\ ref \in OutputsOf(Mined(b))
    BY <1>2 DEF OutputsOf
  <2>2. t \in DOMAIN d.tx /\ t \notin DOMAIN n.ops.tx
    BY <1>3, <1>9, <1>11, <2>1 DEF Dropping
  <2>3. Apply(n.ops.tx, d.tx)[t] = d.tx[t]
    <3> HIDE DEF t
    <3> QED
      BY <2>2, ApplyTable
  <2>4. Key(Apply(n.ops.tx, d.tx), ref) = key /\ key[1] = d.tx[t]
    BY <2>3 DEF Key
  <2>5. key \in DOMAIN d.utxo
    BY <1>12, <2>1 DEF Covers
  <2>6. d.tx[t] \notin D
    <3> SUFFICES ASSUME NEW u \in ToSet(TxsOf[b]), d.tx[t] = d.tx[u] PROVE FALSE
      OBVIOUS
    <3>1. t = u
      BY <1>2, <1>3, <2>1
    <3> QED
      BY <2>1, <3>1
  <2> HIDE DEF key, t, D
  <2>7. key \in DOMAIN n.ops.utxo => n.ops.utxo[key] # Deleted
    BY <1>9, <1>11, <2>4, <2>6 DEF Undoing
  <2> QED
    BY <2>4, <2>5, <2>7, ApplyTable
<1>13. Kept(n)
  <2> HIDE DEF D
  <2> QED
    BY <1>9, <1>11 DEF Undoing, Kept
<1> QED
  BY <1>9, <1>11, <1>12, <1>13 DEF Covers, n, p

------------------------------------------------------------------------------
(* Records: the inductive invariant *)

\* There is a record for each output of the indexed chain that has one address; in memory
\* and in the batch in flight are the operations that make it so for the chain memory is at.
RecordInv ==
    /\ Readies(db) /\ Covers(db.utxo, db.tx, db.best)
    /\ Flushing =>
          /\ \A k \in DOMAIN inflight.ops.utxo : inflight.ops.utxo[k] \in Records \cup {Deleted}
          /\ Covers(Apply(inflight.ops.utxo, db.utxo), Apply(inflight.ops.tx, db.tx), best)
    /\ pc \in {"flush", "removalFlush", "removing"} => mem.ops.utxo = EmptyTable
    /\ pc = "idle" => Saving(mem, db, Apply(mem.ops.tx, db.tx), OutputsOf(Mined(best)))
    /\ pc = "removing" => mem.seenUtxo = EmptyTable
    /\ pc # "aborted" => Kept(mem) /\ ~mem.failed
    /\ pc = "aborted" => SpendsUnlisted(best)

\* Memory without operations and caches, behind a table that has the records.
LEMMA FreshSaves ==
    ASSUME NEW m, NEW d, NEW b, NEW D, NEW V, d.tx \in [D -> V],
           Covers(d.utxo, d.tx, b), Kept(m), m.ops.tx = EmptyTable,
           m.ops.utxo = EmptyTable, m.seenUtxo = EmptyTable
    PROVE  Saving(m, d, Apply(m.ops.tx, d.tx), OutputsOf(Mined(b)))
<1>1. Apply(m.ops.tx, d.tx) = d.tx
  BY ApplyNothing
<1> QED
  BY <1>1, EmptyTableIsEmpty DEF Saving, Covers

\* What waits in memory between blocks makes a table that has the records.
LEMMA SavingCovers ==
    ASSUME NEW m, NEW d, NEW tx, NEW b, Saving(m, d, tx, OutputsOf(Mined(b)))
    PROVE  Covers(Apply(m.ops.utxo, d.utxo), tx, b)
<1>1. Deleted \notin Records
  BY UtxoIndexerAssumption DEF UtxoIndexerAssumption
<1> SUFFICES ASSUME NEW ref \in OutputsOf(Mined(b)), Addressed(ref)
             PROVE  Key(tx, ref) \in DOMAIN Apply(m.ops.utxo, d.utxo)
  BY DEF Covers
<1> DEFINE key == Key(tx, ref)
<1>2. key \in DOMAIN m.ops.utxo \cup DOMAIN d.utxo
  BY DEF Saving
<1>3. key \in DOMAIN m.ops.utxo => m.ops.utxo[key] # Deleted
  BY <1>1 DEF Saving
<1> HIDE DEF key
<1>4. key \in DOMAIN Apply(m.ops.utxo, d.utxo)
  BY <1>2, <1>3, ApplyTable
<1> QED
  BY <1>4 DEF key

\* The invariant holds at the start.
LEMMA RecordInvInit == Init => RecordInv
<1> SUFFICES ASSUME Init PROVE RecordInv
  OBVIOUS
<1>1. /\ db.utxo = EmptyTable /\ db.tx = EmptyTable /\ db.address = EmptyTable
      /\ db.best = NoBlock
  BY DEF Init, EmptyDb
<1>2. /\ mem.ops.utxo = EmptyTable /\ mem.ops.tx = EmptyTable /\ mem.seenUtxo = EmptyTable
      /\ mem.seenAddress = EmptyTable /\ ~mem.failed
  BY DEF Init, MemoryOf, EmptyOps
<1>3. pc = "idle" /\ best = NoBlock
  BY DEF Init
<1>4. Readies(db) /\ Kept(mem)
  BY <1>1, <1>2, EmptyTableIsEmpty DEF Readies, Kept
<1>5. Mined(NoBlock) = {} /\ OutputsOf({}) = {}
  BY ChainEnds DEF Mined, OutputsOf
<1>6. Covers(db.utxo, db.tx, NoBlock)
  BY <1>5 DEF Covers
<1>7. Saving(mem, db, Apply(mem.ops.tx, db.tx), OutputsOf(Mined(NoBlock)))
  <2>1. db.tx \in [{} -> Nat]
    BY <1>1, EmptyTableIsEmpty
  <2> QED
    BY <1>2, <1>4, <1>6, <2>1, FreshSaves
<1> QED
  BY <1>1, <1>2, <1>3, <1>4, <1>6, <1>7 DEF RecordInv, Flushing

\* Then a lemma for each action. AddBlock.
LEMMA AddBlockRecords ==
    ASSUME FlushInv, SymbolInv, RecordInv, AddBlock PROVE RecordInv'
<1>1. PICK b \in Blocks : Parent[b] = best /\ best' = b /\ mem' = SaveBlock(mem, db, b)
  BY DEF AddBlock
<1>2. /\ pc = "idle" /\ pc' = (IF mem'.failed THEN "aborted" ELSE "idle")
      /\ UNCHANGED <<inflight, db>>
  BY DEF AddBlock
<1>3. Sound(mem, db.address) /\ DOMAIN db.utxo \subseteq Nat \X Nat
  BY <1>2, RestingTable DEF SymbolInv, SoundInv, Flushing
<1>4. mem.seenTx = mem.ops.tx /\ mem.ops.tx \in [DOMAIN mem.ops.tx -> Nat]
      /\ Names(mem.ops, mem.lastTx, db, Parent[b])
  BY <1>1, <1>2 DEF SymbolInv, NameInv
<1>5. /\ Readies(db) /\ ~mem.failed
      /\ Saving(mem, db, Apply(mem.ops.tx, db.tx), OutputsOf(Mined(Parent[b])))
  BY <1>1, <1>2 DEF RecordInv
<1>6. /\ Saving(mem', db, Apply(mem'.ops.tx, db.tx), OutputsOf(Mined(b)))
      /\ mem'.failed => SpendsUnlisted(b)
  BY <1>1, <1>3, <1>4, <1>5, SaveBlockSaves
<1>7. Kept(mem')
  BY <1>6 DEF Saving
<1> QED
  BY <1>1, <1>2, <1>6, <1>7 DEF RecordInv, Flushing

\* Gathering a batch that makes the table have the records of the chain of b.
LEMMA FlushBeginsRecords ==
    ASSUME NEW m, NEW b, IsMem(m), Readies(db), Covers(db.utxo, db.tx, db.best),
           Kept(m), ~m.failed,
           Covers(Apply(m.ops.utxo, db.utxo), Apply(m.ops.tx, db.tx), b),
           best' = b, db' = db, pc' \in {"flush", "removalFlush"},
           inflight' = Gather(b, m, db), mem' = [m EXCEPT !.ops = EmptyOps]
    PROVE  RecordInv'
<1>1. inflight'.ops.utxo = m.ops.utxo /\ inflight'.ops.tx = m.ops.tx
  BY GatherParts
<1>2. /\ mem'.ops.utxo = EmptyTable /\ mem'.failed = m.failed
      /\ mem'.seenUtxo = m.seenUtxo /\ mem'.seenAddress = m.seenAddress
  BY DEF IsMem, EmptyOps
<1>3. Kept(mem')
  BY <1>2, EmptyTableIsEmpty DEF Kept
<1>4. \A k \in DOMAIN inflight'.ops.utxo : inflight'.ops.utxo[k] \in Records \cup {Deleted}
  BY <1>1 DEF Kept
<1> QED
  BY <1>1, <1>2, <1>3, <1>4 DEF RecordInv

\* Flush and StartRemoval.
LEMMA FlushRecords ==
    ASSUME FlushInv, SymbolInv, RecordInv, Flush \/ StartRemoval PROVE RecordInv'
<1>1. /\ pc = "idle" /\ pc' \in {"flush", "removalFlush"} /\ best' = best /\ db' = db
      /\ inflight' = Gather(best, mem, db) /\ mem' = [mem EXCEPT !.ops = EmptyOps]
  BY DEF Flush, StartRemoval, BeginFlush
<1>2. IsMem(mem)
  BY <1>1 DEF SymbolInv, SoundInv, Sound
<1>3. /\ Readies(db) /\ Covers(db.utxo, db.tx, db.best) /\ Kept(mem) /\ ~mem.failed
      /\ Saving(mem, db, Apply(mem.ops.tx, db.tx), OutputsOf(Mined(best)))
  BY <1>1 DEF RecordInv
<1>4. Covers(Apply(mem.ops.utxo, db.utxo), Apply(mem.ops.tx, db.tx), best)
  BY <1>3, SavingCovers
<1> QED
  BY <1>1, <1>2, <1>3, <1>4, FlushBeginsRecords

\* What is on disk after the batch in flight is written.
LEMMA WrittenRecords ==
    ASSUME FlushInv, SymbolInv, RecordInv, Flushing
    PROVE  LET d == Written(db, inflight)
           IN  Readies(d) /\ Covers(d.utxo, d.tx, d.best)
<1> DEFINE d == Written(db, inflight)
<1>1. /\ d.best = best /\ Symbols(d.address, d.lastAddress)
  BY WrittenNamed
<1>2. d.utxo = Apply(inflight.ops.utxo, db.utxo) /\ d.tx = Apply(inflight.ops.tx, db.tx)
  BY DEF Written
<1> HIDE DEF d
<1>3. \A k \in DOMAIN d.utxo : d.utxo[k] \in Records
  <2> SUFFICES ASSUME NEW k \in DOMAIN d.utxo PROVE d.utxo[k] \in Records
    OBVIOUS
  <2>1. \A j \in DOMAIN inflight.ops.utxo : inflight.ops.utxo[j] \in Records \cup {Deleted}
    BY DEF RecordInv
  <2>2. \A j \in DOMAIN db.utxo : db.utxo[j] \in Records
    BY DEF RecordInv, Readies
  <2>3. \/ k \in DOMAIN inflight.ops.utxo /\ inflight.ops.utxo[k] # Deleted
        \/ k \in DOMAIN db.utxo /\ k \notin DOMAIN inflight.ops.utxo
    BY <1>2, ApplyTable
  <2>4. d.utxo[k] = IF k \in DOMAIN inflight.ops.utxo THEN inflight.ops.utxo[k] ELSE db.utxo[k]
    BY <1>2, ApplyTable
  <2> QED
    BY <2>1, <2>2, <2>3, <2>4
<1>4. Readies(d)
  BY <1>1, <1>3 DEF Readies, Symbols
<1>5. Covers(d.utxo, d.tx, d.best)
  BY <1>1, <1>2 DEF RecordInv
<1> QED
  BY <1>4, <1>5 DEF d

\* FlushEnds.
LEMMA FlushEndsRecords ==
    ASSUME FlushInv, SymbolInv, RecordInv, FlushEnds PROVE RecordInv'
<1>1. /\ Flushing /\ pc \in {"flush", "removalFlush"} /\ pc' \in {"idle", "removing"}
      /\ best' = best /\ db' = Written(db, inflight)
      /\ mem' = [mem EXCEPT !.seenBlock = EmptyTable, !.seenTx = EmptyTable,
                            !.seenAddress = EmptyTable, !.seenUtxo = EmptyTable,
                            !.added = EmptyTable]
  BY DEF FlushEnds, Flushing
<1>2. /\ db'.best = best /\ TxNames(db'.tx, db'.txid, db'.lastTx, best)
      /\ Readies(db') /\ Covers(db'.utxo, db'.tx, best)
  BY <1>1, WrittenNamed, WrittenRecords
<1>3. IsMem(mem)
  BY <1>1 DEF SymbolInv, SoundInv, Sound
<1>4. mem.ops.tx = EmptyTable /\ mem.ops.utxo = EmptyTable /\ ~mem.failed
  BY <1>1 DEF SymbolInv, NameInv, NoNames, RecordInv
<1>5. /\ mem'.ops = mem.ops /\ mem'.seenUtxo = EmptyTable /\ mem'.seenAddress = EmptyTable
      /\ mem'.failed = mem.failed
  BY <1>1, <1>3 DEF IsMem
<1>6. Kept(mem')
  BY <1>4, <1>5, EmptyTableIsEmpty DEF Kept
<1>7. Saving(mem', db', Apply(mem'.ops.tx, db'.tx), OutputsOf(Mined(best)))
  BY <1>2, <1>4, <1>5, <1>6, FreshSaves DEF TxNames
<1> QED
  BY <1>1, <1>2, <1>4, <1>5, <1>6, <1>7 DEF RecordInv, Flushing

\* RemoveBest.
LEMMA RemoveBestRecords ==
    ASSUME FlushInv, SymbolInv, RecordInv, RemoveBest PROVE RecordInv'
<1> DEFINE m == RemoveBlock(mem, db, best)
<1>1. pc = "removing" /\ best \in Blocks /\ db' = db /\ db.best = best
  BY DEF RemoveBest, FlushInv, BlockOrNone
<1>2. Sound(mem, db.address) /\ DOMAIN db.utxo \subseteq Nat \X Nat
  BY <1>1, RestingTable DEF SymbolInv, SoundInv, Flushing
<1>3. /\ NoNames(mem) /\ mem.seenTx = mem.ops.tx /\ Names(mem.ops, mem.lastTx, db, best)
      /\ TxNames(db.tx, db.txid, db.lastTx, best)
  BY <1>1 DEF SymbolInv, NameInv
<1>4. /\ Readies(db) /\ Covers(db.utxo, db.tx, best) /\ Kept(mem) /\ ~mem.failed
      /\ mem.ops.utxo = EmptyTable /\ mem.seenUtxo = EmptyTable
  BY <1>1 DEF RecordInv
<1>5. /\ Kept(m) /\ (m.failed => SpendsUnlisted(best))
      /\ Covers(Apply(m.ops.utxo, db.utxo), Apply(m.ops.tx, db.tx), Parent[best])
  BY <1>1, <1>2, <1>3, <1>4, RemoveBlockUndoes
<1>6. IsMem(m)
  BY <1>1, <1>2, <1>3, RemoveBlockNames DEF Sound
<1> HIDE DEF m
<1>7. CASE m.failed
  <2>1. mem' = m /\ pc' = "aborted" /\ best' = best
    BY <1>7 DEF RemoveBest, m
  <2> QED
    BY <1>1, <1>4, <1>5, <1>7, <2>1 DEF RecordInv, Flushing
<1>8. CASE ~m.failed
  <2>1. /\ best' = Parent[best] /\ pc' = "flush"
        /\ inflight' = Gather(Parent[best], m, db) /\ mem' = [m EXCEPT !.ops = EmptyOps]
    BY <1>8 DEF RemoveBest, BeginFlush, m
  <2> QED
    BY <1>1, <1>4, <1>5, <1>6, <1>8, <2>1, FlushBeginsRecords
<1> QED
  BY <1>7, <1>8

\* Query.
LEMMA QueryRecords ==
    ASSUME FlushInv, SymbolInv, RecordInv, Query PROVE RecordInv'
<1>2. pc # "aborted" /\ UNCHANGED <<best, pc, inflight, db>>
  BY QueryStep
<1>3. Sound(mem, Apply(inflight.ops.address, db.address)) /\ Kept(mem) /\ Readies(db)
  BY <1>2 DEF SymbolInv, SoundInv, RecordInv
<1>4. /\ Kept(mem') /\ mem'.failed = mem.failed /\ mem'.seenUtxo = mem.seenUtxo
      /\ mem'.ops.utxo = mem.ops.utxo /\ mem'.ops.tx = mem.ops.tx
  <2>1. IsMem(mem)
    BY <1>3 DEF Sound
  <2>2. ASSUME NEW a \in Addresses, mem' = [mem EXCEPT !.asking = @ \cup {<<budget.queries, a>>}]
        PROVE  /\ mem'.ops = mem.ops /\ mem'.seenAddress = mem.seenAddress
               /\ mem'.failed = mem.failed /\ mem'.seenUtxo = mem.seenUtxo
    BY <2>1, <2>2 DEF IsMem
  <2>3. ASSUME NEW call \in mem.asking,
               mem' = [NewSymbol(mem, call[2]) EXCEPT !.asking = @ \ {call}]
        PROVE  /\ Kept(mem') /\ mem'.failed = mem.failed /\ mem'.seenUtxo = mem.seenUtxo
               /\ mem'.ops.utxo = mem.ops.utxo /\ mem'.ops.tx = mem.ops.tx
    <3> DEFINE n == NewSymbol(mem, call[2])
    <3>1. call[2] \in Addresses
      BY <2>1 DEF IsMem
    <3>2. /\ Kept(n) /\ n.failed = mem.failed /\ n.seenUtxo = mem.seenUtxo
          /\ n.ops.utxo = mem.ops.utxo
      BY <1>3, <3>1, NewSymbolKeeps
    <3>3. IsMem(n) /\ n.ops.tx = mem.ops.tx
      BY <1>3, <3>1, NewSymbolSound DEF Sound, SameNames
    <3> HIDE DEF n
    <3>4. /\ mem'.ops = n.ops /\ mem'.failed = n.failed /\ mem'.seenUtxo = n.seenUtxo
          /\ mem'.seenAddress = n.seenAddress
      BY <2>3, <3>3 DEF IsMem, n
    <3> QED
      BY <3>2, <3>3, <3>4 DEF Kept
  <2> QED
    BY <1>3, <2>2, <2>3, QueryStep DEF Kept
<1>6. ASSUME NEW tx, NEW R, Saving(mem, db, tx, R) PROVE Saving(mem', db, tx, R)
  BY <1>4, <1>6 DEF Saving
<1> QED
  BY <1>2, <1>4, <1>6 DEF RecordInv, Flushing

\* Restart.
LEMMA RestartsRecords ==
    ASSUME FlushInv, SymbolInv, RecordInv, Restart PROVE RecordInv'
<1>1. db' = db \/ (db' = Written(db, inflight) /\ Flushing)
  BY DEF Restart, Flushing
<1>2. /\ Readies(db') /\ Covers(db'.utxo, db'.tx, db'.best)
      /\ TxNames(db'.tx, db'.txid, db'.lastTx, db'.best)
  <2>1. CASE db' = db
    BY <2>1 DEF SymbolInv, NameInv, RecordInv
  <2>2. CASE db' = Written(db, inflight) /\ Flushing
    BY <2>2, WrittenNamed, WrittenRecords
  <2> QED
    BY <1>1, <2>1, <2>2
<1>3. best' = db'.best /\ mem' = MemoryOf(db') /\ pc' = "idle"
  BY DEF Restart
<1>4. /\ mem'.ops.utxo = EmptyTable /\ mem'.ops.tx = EmptyTable /\ mem'.seenUtxo = EmptyTable
      /\ mem'.seenAddress = EmptyTable /\ ~mem'.failed
  BY <1>3 DEF MemoryOf, EmptyOps
<1>5. Kept(mem')
  BY <1>4, EmptyTableIsEmpty DEF Kept
<1>6. Saving(mem', db', Apply(mem'.ops.tx, db'.tx), OutputsOf(Mined(best')))
  BY <1>2, <1>3, <1>4, <1>5, FreshSaves DEF TxNames
<1> QED
  BY <1>2, <1>3, <1>4, <1>5, <1>6 DEF RecordInv, Flushing

\* So every step preserves it.
LEMMA RecordInvNext == FlushInv /\ SymbolInv /\ RecordInv /\ [Next]_vars => RecordInv'
<1> SUFFICES ASSUME FlushInv, SymbolInv, RecordInv, [Next]_vars PROVE RecordInv'
  OBVIOUS
<1>1. CASE UNCHANGED vars
  BY <1>1 DEF vars, RecordInv, Flushing
<1> QED
  BY <1>1, AddBlockRecords, FlushRecords, FlushEndsRecords, RemoveBestRecords, QueryRecords,
     RestartsRecords DEF Next

\* The process is ended by a block only when that spends an output which has not exactly one
\* address: every other input finds the record of its output, whatever was added, removed,
\* asked, flushed or lost before, on disk, in the batch or only in the last-seen cache.
THEOREM InputsAreFound == Spec => []InputsFound
<1>1. Init => AllInv /\ RecordInv
  BY FlushInvInit, SafeInvInit, BudgetInvInit, SymbolInvInit, EarlyInvInit, RecordInvInit DEF AllInv
<1>2. AllInv /\ RecordInv /\ [Next]_vars => (AllInv /\ RecordInv)'
  BY FlushInvNext, SafeInvNext, BudgetInvNext, SymbolInvNext, EarlyInvNext, RecordInvNext DEF AllInv
<1>3. RecordInv => InputsFound
  BY DEF RecordInv, InputsFound, SpendsUnlisted, Addressed
<1> QED
  BY <1>1, <1>2, <1>3, PTL DEF Spec

------------------------------------------------------------------------------
(* Exact records: the utxo table as the chain defines it *)

Payee(ref) == Outs[ref[1]][ref[2]].address

\* What becomes of outputs: made in a block of the chain of b, and spent, if it is, by one
\* of the transactions T.
MinedOn(b, t) == Height[CHOOSE c \in Chain[b] : t \in ToSet(TxsOf[c])]

Spenders(T, ref) == {t \in T : ref \in ToSet(Ins[t])}

LifeWith(tx, b, ref, spenders) ==
    [created |-> MinedOn(b, ref[1]),
     by |-> IF spenders = {} THEN NoSymbol ELSE tx[CHOOSE t \in spenders : TRUE],
     at |-> IF spenders = {} THEN NoSymbol ELSE MinedOn(b, CHOOSE t \in spenders : TRUE)]

LifeOf(tx, b, T) == [ref \in OutputRefs |-> LifeWith(tx, b, ref, Spenders(T, ref))]

RecordIn(symbol, life, ref) ==
    [sats |-> Outs[ref[1]][ref[2]].sats, address |-> symbol, createdOn |-> life[ref].created,
     spentIn |-> life[ref].by, spentOn |-> life[ref].at]

Keys(tx, R) == {Key(tx, ref) : ref \in {r \in R : Addressed(r)}}

OneKey(tx, R) == \A r, o \in R : Key(tx, r) = Key(tx, o) => r = o

\* Each symbol in the cache waits to be written, no other one does, and no address on disk is
\* given a new one.
Linked(m, d) ==
    /\ DOMAIN m.ops.address \cap DOMAIN d.address = {}
    /\ \A a \in DOMAIN m.seenAddress :
          a \in DOMAIN m.ops.address /\ m.ops.address[a] = m.seenAddress[a]
    /\ DOMAIN m.ops.address \subseteq DOMAIN m.seenAddress

\* Memory while blocks are added: what waits makes the table that of the outputs R, and the
\* last-seen cache has the records that wait. An entry of the cache carries the tx symbol
\* of its output as long as that is unspent.
Writing(m, d, tx, R, life) ==
    /\ Kept(m) /\ Linked(m, d)
    /\ \A k \in DOMAIN m.ops.utxo : m.ops.utxo[k] \in Records
    /\ DOMAIN Apply(m.ops.utxo, d.utxo) = Keys(tx, R)
    /\ \A ref \in R : Addressed(ref) =>
          /\ HasSymbol(m, d, Payee(ref))
          /\ Apply(m.ops.utxo, d.utxo)[Key(tx, ref)]
                = RecordIn(AddressSymbol(m, d, Payee(ref)), life, ref)
          /\ Key(tx, ref) \in DOMAIN m.ops.utxo => ref \in DOMAIN m.seenUtxo
    /\ \A ref \in DOMAIN m.seenUtxo :
          /\ ref \in R /\ Addressed(ref)
          /\ m.seenUtxo[ref].value = RecordIn(AddressSymbol(m, d, Payee(ref)), life, ref)
          /\ life[ref].by = NoSymbol => m.seenUtxo[ref].symbol = tx[ref[1]]

\* An address that is looked up has a symbol from then on, and others keep theirs.
LEMMA SymbolsStay ==
    ASSUME NEW m, NEW d, NEW table, Sound(m, table), NEW a \in Addresses, Linked(m, d)
    PROVE  LET n == WithSymbol(m, d, a)
           IN  /\ HasSymbol(n, d, a) /\ Linked(n, d)
               /\ \A x : HasSymbol(m, d, x) =>
                     HasSymbol(n, d, x) /\ AddressSymbol(n, d, x) = AddressSymbol(m, d, x)
<1> DEFINE n == WithSymbol(m, d, a)
           s == m.lastAddress + 1
<1>1. CASE HasSymbol(m, d, a)
  <2>1. n = m
    BY <1>1, Zenon DEF WithSymbol
  <2> QED
    BY <1>1, <2>1
<1>2. CASE ~HasSymbol(m, d, a)
  <2>1. n = [m EXCEPT !.lastAddress = s, !.seenAddress = With(@, a, s),
                      !.ops.address = With(@, a, s)]
    BY <1>2, Zenon DEF WithSymbol, NewSymbol
  <2> HIDE DEF n, s
  <2>2. n.seenAddress = With(m.seenAddress, a, s) /\ n.ops.address = With(m.ops.address, a, s)
    BY <2>1 DEF IsMem, Sound
  <2>3. HasSymbol(n, d, a)
    BY <2>2 DEF HasSymbol, With
  <2>4. ASSUME NEW x, HasSymbol(m, d, x)
        PROVE  HasSymbol(n, d, x) /\ AddressSymbol(n, d, x) = AddressSymbol(m, d, x)
    BY <1>2, <2>2, <2>4 DEF HasSymbol, AddressSymbol, With
  <2>5. Linked(n, d)
    BY <1>2, <2>2 DEF HasSymbol, Linked, With
  <2> QED
    BY <2>3, <2>4, <2>5 DEF n
<1> QED
  BY <1>1, <1>2

\* Only the lives of the outputs and the symbols of their transactions matter.
LEMMA WritingSame ==
    ASSUME NEW m, NEW d, NEW tx, NEW tx2, NEW R, NEW life, NEW life2, Writing(m, d, tx, R, life),
           \A ref \in R : tx2[ref[1]] = tx[ref[1]] /\ life2[ref] = life[ref]
    PROVE  Writing(m, d, tx2, R, life2)
<1>1. \A ref \in R : Key(tx2, ref) = Key(tx, ref)
  BY DEF Key
<1>2. Keys(tx2, R) = Keys(tx, R)
  BY <1>1 DEF Keys
<1>3. \A ref \in R : \A s : RecordIn(s, life2, ref) = RecordIn(s, life, ref)
  BY DEF RecordIn
<1> QED
  BY <1>1, <1>2, <1>3 DEF Writing

\* One input: if it is found it is an output with one address, and its record is put again
\* as that of a spent one.
LEMMA InvalidateExact ==
    ASSUME NEW m, NEW d, IsMem(m), Readies(d), NEW tx, NEW R, NEW life,
           Writing(m, d, tx, R, life), OneKey(tx, R), NEW ref \in R, life[ref].by = NoSymbol,
           GetTxSymbol(m, d, ref[1]) = tx[ref[1]],
           NEW symbol \in Nat, NEW height \in Nat, NEW life2,
           \A r \in R : r # ref => life2[r] = life[r],
           life2[ref] = [created |-> life[ref].created, by |-> symbol, at |-> height]
    PROVE  LET n == InvalidateUtxo(m, d, ref, symbol, height)
           IN  /\ m.failed => n.failed
               /\ n.failed \/ Writing(n, d, tx, R, life2)
<1> DEFINE n == InvalidateUtxo(m, d, ref, symbol, height)
           utxo == Apply(m.ops.utxo, d.utxo)
           s == AddressSymbol(m, d, Payee(ref))
           key == Key(tx, ref)
<1>0. \A k \in DOMAIN m.ops.utxo : m.ops.utxo[k] # Deleted
  BY UtxoIndexerAssumption DEF UtxoIndexerAssumption, Writing
<1>1. CASE ~Found(m, d, ref)
  <2>1. n = [m EXCEPT !.failed = TRUE]
    BY <1>1, Zenon DEF InvalidateUtxo
  <2> HIDE DEF n
  <2>2. n.failed
    BY <2>1 DEF IsMem
  <2> QED
    BY <2>2 DEF n
<1>2. CASE Found(m, d, ref)
  <2> DEFINE spent == [UtxoValue(m, d, ref) EXCEPT !.spentIn = symbol, !.spentOn = height]
             seen == [symbol |-> symbol, value |-> spent]
  <2>1. n = [m EXCEPT !.ops.utxo = With(@, UtxoKey(m, d, ref), spent),
                      !.seenUtxo = With(@, ref, seen)]
    BY <1>2, Zenon DEF InvalidateUtxo
  <2>2. ref \in DOMAIN m.seenUtxo \/ key \in DOMAIN d.utxo
    BY <1>2 DEF Found, Key
  <2>3. Addressed(ref)
    <3>1. CASE ref \in DOMAIN m.seenUtxo
      BY <3>1 DEF Writing
    <3>2. CASE key \in DOMAIN d.utxo
      <4>1. key \in DOMAIN utxo
        BY <1>0, <3>2, ApplyTable
      <4>2. PICK r \in R : Addressed(r) /\ Key(tx, ref) = Key(tx, r)
        BY <4>1 DEF Writing, Keys
      <4> QED
        BY <4>2 DEF OneKey
    <3> QED
      BY <2>2, <3>1, <3>2
  <2>4. UtxoKey(m, d, ref) = key
    BY DEF UtxoKey, Key, Writing
  <2>5. UtxoValue(m, d, ref) = RecordIn(s, life, ref)
    <3>1. CASE ref \in DOMAIN m.seenUtxo
      BY <3>1 DEF UtxoValue, Writing
    <3>2. CASE ref \notin DOMAIN m.seenUtxo
      <4>1. key \in DOMAIN d.utxo /\ key \notin DOMAIN m.ops.utxo
        BY <2>2, <2>3, <3>2 DEF Writing
      <4> HIDE DEF key
      <4>2. key \in DOMAIN utxo /\ utxo[key] = d.utxo[key]
        BY <4>1, ApplyTable
      <4>3. UtxoValue(m, d, ref) = d.utxo[key]
        BY <2>4, <3>2 DEF UtxoValue
      <4> QED
        BY <2>3, <4>2, <4>3 DEF Writing, key
    <3> QED
      BY <3>1, <3>2
  <2>6. spent = RecordIn(s, life2, ref)
    <3>1. spent = [RecordIn(s, life, ref) EXCEPT !.spentIn = symbol, !.spentOn = height]
      BY <2>5
    <3>2. /\ life2[ref].created = life[ref].created
          /\ life2[ref].by = symbol /\ life2[ref].at = height
      OBVIOUS
    <3> HIDE DEF spent, s
    <3> QED
      BY <3>1, <3>2 DEF RecordIn
  <2>7. spent \in Records /\ spent # Deleted
    <3>1. UtxoValue(m, d, ref) \in Records
      BY <1>2 DEF UtxoValue, UtxoKey, Found, Writing, Kept, Readies
    <3> QED
      BY <3>1, RecordChanges
  <2>8. seen.value = spent /\ seen.symbol = symbol
    OBVIOUS
  <2> DEFINE ops2 == With(m.ops.utxo, key, spent)
             utxo2 == Apply(ops2, d.utxo)
  <2> HIDE DEF n, spent, seen, s, key, ops2, utxo2, utxo
  <2>9. /\ n.failed = m.failed /\ n.seenAddress = m.seenAddress
        /\ n.ops.address = m.ops.address /\ n.ops.utxo = ops2
        /\ n.seenUtxo = With(m.seenUtxo, ref, seen)
    BY <2>1, <2>4 DEF IsMem, ops2
  <2>10. /\ \A k : k \in DOMAIN utxo2 <=> k \in DOMAIN utxo \/ k = key
         /\ utxo2[key] = spent
         /\ \A k \in DOMAIN utxo : k # key => utxo2[k] = utxo[k]
    BY <2>7, ApplyWith DEF utxo, utxo2, ops2
  <2>11. DOMAIN utxo = Keys(tx, R) /\ key \in Keys(tx, R)
    BY <2>3 DEF Writing, Keys, key, utxo
  <2>12. DOMAIN utxo2 = Keys(tx, R)
    BY <2>10, <2>11
  <2>13. \A a : AddressSymbol(n, d, a) = AddressSymbol(m, d, a)
                /\ (HasSymbol(n, d, a) <=> HasSymbol(m, d, a))
    BY <2>9 DEF AddressSymbol, HasSymbol
  <2>14. /\ DOMAIN ops2 = DOMAIN m.ops.utxo \cup {key}
         /\ \A k \in DOMAIN ops2 : ops2[k] \in Records
         /\ Kept(n)
    BY <2>7, <2>8, <2>9 DEF With, ops2, Writing, Kept
  <2>15. ASSUME NEW r \in R, Addressed(r)
         PROVE  /\ HasSymbol(n, d, Payee(r))
                /\ utxo2[Key(tx, r)] = RecordIn(AddressSymbol(n, d, Payee(r)), life2, r)
                /\ Key(tx, r) \in DOMAIN ops2 => r \in DOMAIN n.seenUtxo
    <3>1. CASE r = ref
      <4>1. HasSymbol(n, d, Payee(r))
        BY <2>13, <2>15 DEF Writing
      <4>2. r \in DOMAIN n.seenUtxo
        BY <2>9, <3>1 DEF With
      <4>3. utxo2[Key(tx, r)] = RecordIn(s, life2, r)
        BY <2>6, <2>10, <3>1 DEF key
      <4> QED
        BY <2>13, <3>1, <4>1, <4>2, <4>3 DEF s
    <3>2. CASE r # ref
      <4>1. Key(tx, r) # key
        BY <3>2 DEF OneKey, key
      <4>2. Key(tx, r) \in DOMAIN utxo
        BY <2>11, <2>15 DEF Keys
      <4>3. utxo2[Key(tx, r)] = utxo[Key(tx, r)]
        BY <2>10, <4>1, <4>2
      <4>4. RecordIn(AddressSymbol(n, d, Payee(r)), life2, r)
                = RecordIn(AddressSymbol(m, d, Payee(r)), life, r)
        BY <2>13, <3>2 DEF RecordIn
      <4>5. Key(tx, r) \in DOMAIN ops2 => r \in DOMAIN n.seenUtxo
        BY <2>9, <2>14, <2>15, <4>1 DEF Writing, With
      <4>6. HasSymbol(n, d, Payee(r))
            /\ utxo[Key(tx, r)] = RecordIn(AddressSymbol(m, d, Payee(r)), life, r)
        BY <2>13, <2>15 DEF Writing, utxo
      <4> QED
        BY <4>3, <4>4, <4>5, <4>6
    <3> QED
      BY <3>1, <3>2
  <2>16. ASSUME NEW r \in DOMAIN n.seenUtxo
         PROVE  /\ r \in R /\ Addressed(r)
                /\ n.seenUtxo[r].value = RecordIn(AddressSymbol(n, d, Payee(r)), life2, r)
                /\ life2[r].by = NoSymbol => n.seenUtxo[r].symbol = tx[r[1]]
    <3>1. CASE r = ref
      <4>1. n.seenUtxo[r] = seen
        BY <2>9, <3>1 DEF With
      <4>2. life2[r].by # NoSymbol
        BY <3>1 DEF NoSymbol
      <4>3. seen.value = RecordIn(AddressSymbol(n, d, Payee(r)), life2, r)
        BY <2>6, <2>8, <2>13, <3>1 DEF s
      <4> QED
        BY <2>3, <3>1, <4>1, <4>2, <4>3
    <3>2. CASE r # ref
      <4>1. r \in DOMAIN m.seenUtxo /\ n.seenUtxo[r] = m.seenUtxo[r]
        BY <2>9, <2>16, <3>2 DEF With
      <4>2. /\ r \in R /\ Addressed(r)
            /\ m.seenUtxo[r].value = RecordIn(AddressSymbol(m, d, Payee(r)), life, r)
            /\ life[r].by = NoSymbol => m.seenUtxo[r].symbol = tx[r[1]]
        BY <4>1 DEF Writing
      <4>3. life2[r] = life[r]
        BY <3>2, <4>2
      <4>4. RecordIn(AddressSymbol(n, d, Payee(r)), life2, r)
                = RecordIn(AddressSymbol(m, d, Payee(r)), life, r)
        BY <2>13, <4>3 DEF RecordIn
      <4> QED
        BY <4>1, <4>2, <4>3, <4>4
    <3> QED
      BY <3>1, <3>2
  <2>17. Linked(n, d)
    BY <2>9 DEF Writing, Linked
  <2>18. Writing(n, d, tx, R, life2)
    BY <2>9, <2>12, <2>14, <2>15, <2>16, <2>17 DEF Writing, utxo2
  <2> QED
    BY <2>9, <2>18 DEF n
<1> QED
  BY <1>1, <1>2

\* One output: its record is put, under the symbol of its address.
LEMMA OutputExact ==
    ASSUME NEW m, NEW d, NEW table, Sound(m, table), Readies(d), NEW tx, NEW R, NEW life,
           Writing(m, d, tx, R, life), NEW ref \in OutputRefs, ref \notin R,
           OneKey(tx, R \cup {ref}), NEW height \in Nat, tx[ref[1]] \in Nat,
           life[ref] = [created |-> height, by |-> NoSymbol, at |-> NoSymbol]
    PROVE  LET n == BatchOutput(m, d, ref, tx[ref[1]], height)
           IN  Writing(n, d, tx, R \cup {ref}, life) /\ n.failed = m.failed
<1> DEFINE n     == BatchOutput(m, d, ref, tx[ref[1]], height)
           out   == Outs[ref[1]][ref[2]]
           known == WithSymbol(m, d, out.address)
           s     == AddressSymbol(known, d, out.address)
           record == [sats |-> out.sats, address |-> s,
                      createdOn |-> height, spentIn |-> NoSymbol, spentOn |-> NoSymbol]
           entry == <<tx[ref[1]], ref[2]>>
           added == IF out.address \in DOMAIN m.added THEN m.added[out.address] ELSE <<>>
           seen  == [symbol |-> tx[ref[1]], value |-> record]
<1>0. out \in [address : Addresses \cup {NoAddress}, sats : Nat]
  BY RefType
<1>1. CASE out.address = NoAddress
  <2>1. n = m
    BY <1>1, Zenon DEF BatchOutput
  <2>2. ~Addressed(ref)
    BY <1>1 DEF Addressed
  <2>3. Keys(tx, R \cup {ref}) = Keys(tx, R)
    BY <2>2 DEF Keys
  <2>4. Writing(m, d, tx, R \cup {ref}, life)
    BY <2>2, <2>3 DEF Writing
  <2> QED
    BY <2>1, <2>4
<1>2. CASE out.address # NoAddress
  <2>1. ref \notin DOMAIN m.seenUtxo
    BY DEF Writing
  <2>2. n = [known EXCEPT !.ops.utxo = With(@, entry, record),
                          !.seenUtxo = With(@, ref, seen),
                          !.added = With(@, out.address, Append(added, entry))]
    BY <1>2, <2>1, Zenon DEF BatchOutput
  <2>3. out.address \in Addresses /\ out.sats \in Nat /\ Payee(ref) = out.address
    BY <1>0, <1>2 DEF Payee
  <2>4. Addressed(ref) /\ record = RecordIn(s, life, ref)
    BY <1>2 DEF Addressed, RecordIn
  <2> HIDE DEF out
  <2>5. Kept(m) /\ Linked(m, d)
    BY DEF Writing
  <2>6. /\ Kept(known) /\ known.failed = m.failed
        /\ known.seenUtxo = m.seenUtxo /\ known.ops.utxo = m.ops.utxo
        /\ s \in Nat
    BY <2>3, <2>5, WithSymbolKeeps
  <2>7. IsMem(known)
    BY <2>3, WithSymbolSound DEF Sound
  <2>8. /\ HasSymbol(known, d, out.address) /\ Linked(known, d)
        /\ \A a : HasSymbol(m, d, a) =>
              HasSymbol(known, d, a) /\ AddressSymbol(known, d, a) = AddressSymbol(m, d, a)
    BY <2>3, <2>5, SymbolsStay
  <2>9. record \in Records /\ record # Deleted
    <3>1. record \in Records
      BY <2>3, <2>6 DEF Records
    <3> QED
      BY <3>1, UtxoIndexerAssumption DEF UtxoIndexerAssumption
  <2>10. seen.value = record /\ seen.symbol = tx[ref[1]] /\ Key(tx, ref) = entry
    BY DEF Key
  <2> DEFINE utxo == Apply(m.ops.utxo, d.utxo)
             ops2 == With(m.ops.utxo, entry, record)
             utxo2 == Apply(ops2, d.utxo)
  <2> HIDE DEF known, s, record, entry, seen, n, added, utxo, ops2, utxo2
  <2>11. /\ n.failed = m.failed /\ n.seenAddress = known.seenAddress
         /\ n.ops.address = known.ops.address /\ n.ops.utxo = ops2
         /\ n.seenUtxo = With(m.seenUtxo, ref, seen)
    BY <2>2, <2>6, <2>7 DEF IsMem, ops2
  <2>12. /\ \A k : k \in DOMAIN utxo2 <=> k \in DOMAIN utxo \/ k = entry
         /\ utxo2[entry] = record
         /\ \A k \in DOMAIN utxo : k # entry => utxo2[k] = utxo[k]
    BY <2>9, ApplyWith DEF utxo, utxo2, ops2
  <2>13. DOMAIN utxo2 = Keys(tx, R \cup {ref})
    <3>1. DOMAIN utxo = Keys(tx, R)
      BY DEF Writing, utxo
    <3>2. Keys(tx, R \cup {ref}) = Keys(tx, R) \cup {entry}
      BY <2>4, <2>10 DEF Keys
    <3> QED
      BY <2>12, <3>1, <3>2
  <2>14. \A a : AddressSymbol(n, d, a) = AddressSymbol(known, d, a)
                /\ (HasSymbol(n, d, a) <=> HasSymbol(known, d, a))
    BY <2>11 DEF AddressSymbol, HasSymbol
  <2>15. /\ DOMAIN ops2 = DOMAIN m.ops.utxo \cup {entry}
         /\ \A k \in DOMAIN ops2 : ops2[k] \in Records
         /\ Kept(n)
    BY <2>6, <2>9, <2>10, <2>11 DEF With, ops2, Writing, Kept
  <2>16. ASSUME NEW r \in R \cup {ref}, Addressed(r)
         PROVE  /\ HasSymbol(n, d, Payee(r))
                /\ utxo2[Key(tx, r)] = RecordIn(AddressSymbol(n, d, Payee(r)), life, r)
                /\ Key(tx, r) \in DOMAIN ops2 => r \in DOMAIN n.seenUtxo
    <3>1. CASE r = ref
      <4>1. r \in DOMAIN n.seenUtxo
        BY <2>11, <3>1 DEF With
      <4> QED
        BY <2>3, <2>4, <2>8, <2>10, <2>12, <2>14, <3>1, <4>1 DEF s
    <3>2. CASE r # ref
      <4>1. r \in R /\ Key(tx, r) # entry
        BY <2>10, <2>16, <3>2 DEF OneKey
      <4>2. Key(tx, r) \in DOMAIN utxo
        BY <2>16, <4>1 DEF Writing, Keys, utxo
      <4>3. /\ HasSymbol(m, d, Payee(r))
            /\ utxo[Key(tx, r)] = RecordIn(AddressSymbol(m, d, Payee(r)), life, r)
            /\ Key(tx, r) \in DOMAIN m.ops.utxo => r \in DOMAIN m.seenUtxo
        BY <2>16, <4>1 DEF Writing, utxo
      <4>4. Key(tx, r) \in DOMAIN ops2 => r \in DOMAIN n.seenUtxo
        BY <2>11, <2>15, <4>1, <4>3 DEF With
      <4> QED
        BY <2>8, <2>12, <2>14, <4>1, <4>2, <4>3, <4>4
    <3> QED
      BY <3>1, <3>2
  <2>17. ASSUME NEW r \in DOMAIN n.seenUtxo
         PROVE  /\ r \in R \cup {ref} /\ Addressed(r)
                /\ n.seenUtxo[r].value = RecordIn(AddressSymbol(n, d, Payee(r)), life, r)
                /\ life[r].by = NoSymbol => n.seenUtxo[r].symbol = tx[r[1]]
    <3>1. CASE r = ref
      <4>1. n.seenUtxo[r] = seen
        BY <2>11, <3>1 DEF With
      <4> QED
        BY <2>3, <2>4, <2>10, <2>14, <3>1, <4>1 DEF s
    <3>2. CASE r # ref
      <4>1. r \in DOMAIN m.seenUtxo /\ n.seenUtxo[r] = m.seenUtxo[r]
        BY <2>11, <2>17, <3>2 DEF With
      <4>2. /\ r \in R /\ Addressed(r)
            /\ m.seenUtxo[r].value = RecordIn(AddressSymbol(m, d, Payee(r)), life, r)
            /\ life[r].by = NoSymbol => m.seenUtxo[r].symbol = tx[r[1]]
        BY <4>1 DEF Writing
      <4>3. HasSymbol(m, d, Payee(r))
        BY <4>2 DEF Writing
      <4> QED
        BY <2>8, <2>14, <4>1, <4>2, <4>3
    <3> QED
      BY <3>1, <3>2
  <2>18. Linked(n, d)
    BY <2>8, <2>11 DEF Linked
  <2>19. Writing(n, d, tx, R \cup {ref}, life)
    BY <2>11, <2>13, <2>15, <2>16, <2>17, <2>18 DEF Writing, utxo2
  <2> QED
    BY <2>11, <2>19 DEF n
<1> QED
  BY <1>1, <1>2

\* A failure stays one.
LEMMA InvalidateFails ==
    ASSUME NEW m, NEW d, IsMem(m), m.failed, NEW ref, NEW symbol, NEW height
    PROVE  InvalidateUtxo(m, d, ref, symbol, height).failed
<1> DEFINE n == InvalidateUtxo(m, d, ref, symbol, height)
           spent == [UtxoValue(m, d, ref) EXCEPT !.spentIn = symbol, !.spentOn = height]
           ops == With(m.ops.utxo, UtxoKey(m, d, ref), spent)
           seen == With(m.seenUtxo, ref, [symbol |-> symbol, value |-> spent])
<1>1. \/ n = [m EXCEPT !.failed = TRUE]
      \/ n = [m EXCEPT !.ops.utxo = ops, !.seenUtxo = seen]
  BY Zenon DEF InvalidateUtxo
<1> HIDE DEF n, ops, seen
<1>2. n.failed
  BY <1>1 DEF IsMem
<1> QED
  BY <1>2 DEF n

\* Lives after outputs X are spent.
Spending(life, X, symbol, height) ==
    [ref \in OutputRefs |->
        IF ref \in X THEN [created |-> life[ref].created, by |-> symbol, at |-> height]
        ELSE life[ref]]

\* The inputs of a transaction.
LEMMA InputsExact ==
    ASSUME NEW m, NEW d, NEW table, Sound(m, table), DOMAIN d.utxo \subseteq Nat \X Nat, Readies(d),
           NEW tx, NEW R \in SUBSET OutputRefs, OneKey(tx, R), NEW life,
           m.failed \/ Writing(m, d, tx, R, life), NEW t \in Txs,
           \A ref \in ToSet(Ins[t]) : /\ ref \in R /\ GetTxSymbol(m, d, ref[1]) = tx[ref[1]]
                                      /\ life[ref].by = NoSymbol,
           NEW symbol \in Nat, NEW height \in Nat
    PROVE  LET n == BatchTransactionInputs(m, d, t, symbol, height)
           IN  /\ m.failed => n.failed
               /\ n.failed \/ Writing(n, d, tx, R, Spending(life, ToSet(Ins[t]), symbol, height))
<1> DEFINE N == Len(Ins[t])
           X(k) == {Ins[t][i] : i \in 1..k}
           lives(k) == Spending(life, X(k), symbol, height)
<1>0. Ins[t] \in Seq(OutputRefs) /\ IsInjective(Ins[t])
  BY UtxoIndexerAssumption, SpentOnce DEF UtxoIndexerAssumption
<1>1. /\ N \in Nat /\ \A n \in 1..N : Ins[t][n] \in OutputRefs /\ Ins[t][n] \in ToSet(Ins[t])
      /\ X(N) = ToSet(Ins[t])
      /\ \A i, j \in 1..N : Ins[t][i] = Ins[t][j] => i = j
  BY <1>0 DEF ToSet, IsInjective
<1>2. PICK f : /\ InputsRun(f, m, d, t, symbol, height)
               /\ BatchTransactionInputs(m, d, t, symbol, height) = f[N]
  BY <1>1, InputsUnfolds
<1> DEFINE Good(k) == /\ Sound(f[k], table) /\ SameNames(m, f[k]) /\ (m.failed => f[k].failed)
                      /\ f[k].failed \/ Writing(f[k], d, tx, R, lives(k))
           S == {k \in 0..N : Good(k)}
<1>3. 0 \in S
  <2>1. f[0] = m /\ 0 \in 0..N /\ SameNames(m, m)
    BY <1>1, <1>2 DEF SameNames, InputsRun
  <2>2. \A ref \in R : lives(0)[ref] = life[ref]
    BY DEF Spending
  <2> HIDE DEF lives, N
  <2>3. m.failed \/ Writing(m, d, tx, R, lives(0))
    BY <2>2, WritingSame
  <2> QED
    BY <2>1, <2>3
<1>4. ASSUME NEW k \in S, k < N PROVE k + 1 \in S
  <2> DEFINE ref == Ins[t][k + 1]
  <2>1. k \in 0..N /\ k + 1 \in 0..N /\ k + 1 \in 1..N
    BY <1>1, <1>4
  <2>2. Good(k)
    OBVIOUS
  <2>3. ref \in OutputRefs /\ ref \in ToSet(Ins[t]) /\ ref \in R
    BY <1>1, <2>1
  <2>4. f[k + 1] = InvalidateUtxo(f[k], d, ref, symbol, height)
    BY <1>2, <1>4, <2>1 DEF InputsRun
  <2>5. X(k + 1) = X(k) \cup {ref} /\ ref \notin X(k)
    BY <1>1, <2>1
  <2> HIDE DEF ref, N, X
  <2>6. /\ lives(k)[ref] = life[ref] /\ \A r \in R : r # ref => lives(k + 1)[r] = lives(k)[r]
        /\ lives(k + 1)[ref] = [created |-> life[ref].created, by |-> symbol, at |-> height]
    BY <2>3, <2>5 DEF Spending
  <2> HIDE DEF lives
  <2>7. GetTxSymbol(f[k], d, ref[1]) = tx[ref[1]] /\ life[ref].by = NoSymbol
    BY <2>2, <2>3 DEF SameNames, GetTxSymbol
  <2>8. Sound(f[k + 1], table) /\ SameNames(f[k], f[k + 1])
    BY <2>2, <2>3, <2>4, InvalidateSound
  <2>9. SameNames(m, f[k + 1])
    BY <2>2, <2>8 DEF SameNames
  <2>10. IsMem(f[k])
    BY <2>2 DEF Sound
  <2>11. CASE f[k].failed
    <3>1. f[k + 1].failed
      BY <2>4, <2>10, <2>11, InvalidateFails
    <3> QED
      BY <2>1, <2>8, <2>9, <3>1
  <2>12. CASE ~f[k].failed
    <3>1. f[k + 1].failed \/ Writing(f[k + 1], d, tx, R, lives(k + 1))
      <4>1. Writing(f[k], d, tx, R, lives(k))
        BY <2>2, <2>12
      <4>2. lives(k)[ref].by = NoSymbol
            /\ lives(k + 1)[ref] = [created |-> lives(k)[ref].created, by |-> symbol, at |-> height]
        BY <2>6, <2>7
      <4> QED
        BY <2>3, <2>4, <2>6, <2>7, <2>10, <4>1, <4>2, InvalidateExact
    <3>2. ~m.failed
      BY <2>2, <2>12
    <3> QED
      BY <2>1, <2>8, <2>9, <3>1, <3>2
  <2> QED
    BY <2>11, <2>12
<1>5. Good(N)
  <2>1. S \in SUBSET (0..N)
    OBVIOUS
  <2> HIDE DEF S, N, Good
  <2>2. \A k \in S : k < N => k + 1 \in S
    BY <1>4
  <2>3. S = 0..N
    BY <1>1, <1>3, <2>1, <2>2, UpTo
  <2> QED
    BY <1>1, <2>3 DEF S
<1>6. lives(N) = Spending(life, ToSet(Ins[t]), symbol, height)
  BY <1>1
<1> HIDE DEF N, lives
<1> QED
  BY <1>2, <1>5, <1>6

\* The outputs of a transaction.
LEMMA OutputsExact ==
    ASSUME NEW m, NEW d, NEW table, Sound(m, table), DOMAIN d.utxo \subseteq Nat \X Nat, Readies(d),
           NEW tx, NEW T, NEW life, Writing(m, d, tx, OutputsOf(T), life),
           NEW t \in Txs, t \notin T, OneKey(tx, OutputsOf(T \cup {t})), tx[t] \in Nat,
           NEW height \in Nat,
           \A ref \in OutputRefs :
              ref[1] = t => life[ref] = [created |-> height, by |-> NoSymbol, at |-> NoSymbol]
    PROVE  Writing(BatchTransactionOutputs(m, d, t, tx[t], height), d, tx, OutputsOf(T \cup {t}),
                   life)
<1> DEFINE N == Len(Outs[t])
           R(k) == OutputsOf(T) \cup {<<t, n>> : n \in 1..k}
<1>1. N \in Nat /\ \A n \in 1..N : <<t, n>> \in OutputRefs
  BY UtxoIndexerAssumption DEF UtxoIndexerAssumption, OutputRefs
<1>2. PICK f : /\ OutputsRun(f, m, d, t, tx[t], height)
               /\ BatchTransactionOutputs(m, d, t, tx[t], height) = f[N]
  BY <1>1, OutputsUnfolds
<1>3. R(N) = OutputsOf(T \cup {t})
  BY OutputsOfOne
<1> DEFINE Good(k) == Sound(f[k], table) /\ Writing(f[k], d, tx, R(k), life)
           S == {k \in 0..N : Good(k)}
<1>4. 0 \in S
  <2>1. R(0) = OutputsOf(T)
    OBVIOUS
  <2> HIDE DEF R
  <2> QED
    BY <1>1, <1>2, <2>1 DEF OutputsRun
<1>5. ASSUME NEW k \in S, k < N PROVE k + 1 \in S
  <2> DEFINE ref == <<t, k + 1>>
  <2>1. k \in 0..N /\ k + 1 \in 0..N /\ k + 1 \in 1..N
    BY <1>1, <1>5
  <2>2. Good(k)
    OBVIOUS
  <2>3. ref \in OutputRefs /\ ref \notin R(k) /\ ref[1] = t
    BY <1>1, <2>1 DEF OutputsOf
  <2>4. R(k + 1) = R(k) \cup {ref} /\ R(k + 1) \subseteq R(N)
    BY <1>1, <2>1
  <2>5. f[k + 1] = BatchOutput(f[k], d, ref, tx[t], height)
    BY <1>2, <1>5, <2>1 DEF OutputsRun
  <2> HIDE DEF N, R, ref
  <2>6. Sound(f[k + 1], table)
    BY <2>2, <2>3, <2>5, OutputSound
  <2>7. OneKey(tx, R(k) \cup {ref})
    <3>1. OneKey(tx, R(N))
      BY <1>3
    <3>2. R(k) \cup {ref} \subseteq R(N)
      BY <2>4
    <3> QED
      BY <3>1, <3>2 DEF OneKey
  <2>8. /\ f[k + 1] = BatchOutput(f[k], d, ref, tx[ref[1]], height) /\ tx[ref[1]] \in Nat
        /\ life[ref] = [created |-> height, by |-> NoSymbol, at |-> NoSymbol]
    BY <2>3, <2>5
  <2>9. Writing(f[k + 1], d, tx, R(k) \cup {ref}, life)
    BY <2>2, <2>3, <2>7, <2>8, OutputExact
  <2> QED
    BY <2>1, <2>4, <2>6, <2>9
<1>6. Good(N)
  <2>1. S \in SUBSET (0..N)
    OBVIOUS
  <2> HIDE DEF S, N, R, Good
  <2>2. \A k \in S : k < N => k + 1 \in S
    BY <1>5
  <2>3. S = 0..N
    BY <1>1, <1>4, <2>1, <2>2, UpTo
  <2>4. N \in 0..N
    BY <1>1
  <2> QED
    BY <2>3, <2>4 DEF S
<1> HIDE DEF N, R
<1> QED
  BY <1>2, <1>3, <1>6

------------------------------------------------------------------------------
(* What saveBlock does to exact records *)

\* The chain of a block holds the chains of its blocks.
LEMMA ChainInside ==
    ASSUME NEW b \in BlockOrNone, NEW c \in Chain[b]
    PROVE  c \in Blocks /\ Parent[c] \in BlockOrNone /\ Chain[Parent[c]] \subseteq Chain[b]
<1>1. Chain[b] \in SUBSET Blocks /\ ParentClosed(Chain[b])
  <2>1. Chain[b] = {e \in Blocks : \A S \in SUBSET Blocks :
                                (ParentClosed(S) /\ b \in S \cup {NoBlock}) => e \in S}
    BY DEF Chain
  <2>2. \A e \in Chain[b] : e \in Blocks /\ Parent[e] \in Blocks \cup {NoBlock}
    BY <2>1, BlockTreeAssumption DEF BlockTreeAssumption
  <2>3. ParentClosed(Chain[b])
    BY <2>1, <2>2 DEF ParentClosed
  <2> QED
    BY <2>1, <2>3
<1>2. c \in BlockOrNone
  BY <1>1 DEF BlockOrNone
<1>3. Chain[c] \subseteq Chain[b]
  BY <1>1, <1>2 DEF Chain
<1>4. c \in Blocks
  BY <1>1
<1> QED
  BY <1>3, <1>4, ChainEnds

\* Each transaction of a chain is in one block of it.
LEMMA MinedOnIs ==
    ASSUME NEW b \in BlockOrNone, NEW c \in Chain[b], NEW t \in ToSet(TxsOf[c])
    PROVE  MinedOn(b, t) = Height[c] /\ Height[c] \in Nat
<1>1. b \in Blocks
  BY ChainEnds DEF BlockOrNone
<1>2. \A e \in Chain[b] : t \in ToSet(TxsOf[e]) => e = c
  BY <1>1, MinedOnce
<1>3. Height[c] \in Nat
  BY ChainInside, BlockTreeAssumption DEF BlockTreeAssumption
<1> QED
  BY <1>2, <1>3 DEF MinedOn

\* What transactions in T spend is made by transactions in T.
Closed(T) == \A u \in T : \A ref \in ToSet(Ins[u]) : ref[1] \in T

\* What the transactions of a chain spend was made on it.
LEMMA MinedClosed == ASSUME NEW b \in BlockOrNone PROVE Closed(Mined(b))
<1> SUFFICES ASSUME NEW u \in Mined(b), NEW ref \in ToSet(Ins[u]) PROVE ref[1] \in Mined(b)
  BY DEF Closed
<1>1. PICK c \in Chain[b] : u \in ToSet(TxsOf[c])
  BY DEF Mined
<1>2. c \in Blocks /\ Parent[c] \in BlockOrNone /\ Chain[Parent[c]] \subseteq Chain[b]
  BY ChainInside
<1>3. PICK i \in DOMAIN TxsOf[c] : TxsOf[c][i] = u
  BY <1>1, <1>2, UtxoIndexerAssumption DEF UtxoIndexerAssumption, ToSet
<1>4. \/ \E e \in Chain[Parent[c]] : ref[1] \in ToSet(TxsOf[e])
      \/ \E j \in 1 .. i - 1 : TxsOf[c][j] = ref[1]
  BY <1>2, <1>3, SpentInOrder
<1>5. CASE \E e \in Chain[Parent[c]] : ref[1] \in ToSet(TxsOf[e])
  BY <1>2, <1>5 DEF Mined
<1>6. CASE \E j \in 1 .. i - 1 : TxsOf[c][j] = ref[1]
  <2>1. TxsOf[c] \in Seq(Txs)
    BY <1>2, UtxoIndexerAssumption DEF UtxoIndexerAssumption
  <2>2. ref[1] \in ToSet(TxsOf[c])
    BY <1>6, <2>1 DEF ToSet
  <2> QED
    BY <2>2 DEF Mined
<1> QED
  BY <1>4, <1>5, <1>6

\* No two transactions of a chain spend the same output.
LEMMA SpentApart ==
    ASSUME NEW b \in BlockOrNone, NEW t \in Mined(b), NEW u \in Mined(b),
           NEW ref \in ToSet(Ins[t]), ref \in ToSet(Ins[u])
    PROVE  t = u
<1>1. PICK c \in Chain[b], e \in Chain[b] : t \in ToSet(TxsOf[c]) /\ u \in ToSet(TxsOf[e])
  BY DEF Mined
<1>2. b \in Blocks
  BY ChainEnds DEF BlockOrNone
<1> QED
  BY <1>1, <1>2, SpentOnce

\* Transactions with symbols of their own give outputs keys of their own.
LEMMA OwnKeys ==
    ASSUME NEW tx, NEW txid, NEW T, \A t \in T : txid[tx[t]] = t
    PROVE  OneKey(tx, OutputsOf(T))
<1> SUFFICES ASSUME NEW r \in OutputsOf(T), NEW o \in OutputsOf(T), Key(tx, r) = Key(tx, o)
             PROVE  r = o
  BY DEF OneKey
<1>1. r \in OutputRefs /\ o \in OutputRefs /\ r[1] \in T /\ o[1] \in T
  BY DEF OutputsOf
<1>2. tx[r[1]] = tx[o[1]] /\ r[2] = o[2]
  BY DEF Key
<1>3. r[1] = o[1]
  BY <1>1, <1>2
<1> QED
  BY <1>1, <1>2, <1>3, RefType

\* Lives depend on the symbols of the transactions that spend.
LEMMA LivesSame ==
    ASSUME NEW tx, NEW tx2, NEW b, NEW T, \A t \in T : tx2[t] = tx[t]
    PROVE  LifeOf(tx2, b, T) = LifeOf(tx, b, T)
<1>1. \A ref : Spenders(T, ref) # {} => (CHOOSE t \in Spenders(T, ref) : TRUE) \in T
  BY DEF Spenders
<1>2. \A ref : LifeWith(tx2, b, ref, Spenders(T, ref)) = LifeWith(tx, b, ref, Spenders(T, ref))
  BY <1>1 DEF LifeWith
<1> QED
  BY <1>2 DEF LifeOf

\* One more transaction ends the lives of the outputs it spends, and makes new ones.
LivesOn(old, new, t, symbol, height) ==
    /\ \A ref \in ToSet(Ins[t]) : ref \in OutputRefs => old[ref].by = NoSymbol
    /\ \A ref \in OutputRefs : new[ref] = Spending(old, ToSet(Ins[t]), symbol, height)[ref]
    /\ \A ref \in OutputRefs :
          ref[1] = t => new[ref] = [created |-> height, by |-> NoSymbol, at |-> NoSymbol]

\* The lives of older outputs after t has spent.
LEMMA LivesGo ==
    ASSUME NEW b \in BlockOrNone, NEW T, T \subseteq Mined(b), Closed(T),
           NEW t \in Mined(b), t \notin T, \A ref \in ToSet(Ins[t]) : ref[1] \in T,
           NEW tx, NEW h, MinedOn(b, t) = h, NEW old, old = LifeOf(tx, b, T),
           NEW new, new = LifeOf(tx, b, T \cup {t})
    PROVE  LivesOn(old, new, t, tx[t], h)
<1>1. \A ref \in ToSet(Ins[t]) : Spenders(T, ref) = {} /\ Spenders(T \cup {t}, ref) = {t}
  BY SpentApart DEF Spenders
<1>2. \A ref : ref \notin ToSet(Ins[t]) => Spenders(T \cup {t}, ref) = Spenders(T, ref)
  BY DEF Spenders
<1>3. \A ref : ref[1] = t => Spenders(T \cup {t}, ref) = {}
  BY DEF Spenders, Closed
<1>4. ASSUME NEW ref \in ToSet(Ins[t]), ref \in OutputRefs
      PROVE  /\ old[ref] = [created |-> MinedOn(b, ref[1]), by |-> NoSymbol, at |-> NoSymbol]
             /\ new[ref] = [created |-> MinedOn(b, ref[1]), by |-> tx[t], at |-> h]
  <2>1. old[ref] = LifeWith(tx, b, ref, {}) /\ new[ref] = LifeWith(tx, b, ref, {t})
    BY <1>1, <1>4 DEF LifeOf
  <2>2. (CHOOSE u \in {t} : TRUE) = t
    OBVIOUS
  <2> QED
    BY <2>1, <2>2 DEF LifeWith
<1>5. \A ref \in OutputRefs : ref \notin ToSet(Ins[t]) => new[ref] = old[ref]
  BY <1>2 DEF LifeOf
<1>6. ASSUME NEW ref \in OutputRefs, ref[1] = t
      PROVE  new[ref] = [created |-> h, by |-> NoSymbol, at |-> NoSymbol]
  <2>1. new[ref] = LifeWith(tx, b, ref, {})
    BY <1>3, <1>6 DEF LifeOf
  <2> QED
    BY <1>6, <2>1 DEF LifeWith
<1>7. ASSUME NEW ref \in OutputRefs
      PROVE  new[ref] = Spending(old, ToSet(Ins[t]), tx[t], h)[ref]
  <2>1. CASE ref \in ToSet(Ins[t])
    <3>1. /\ old[ref] = [created |-> MinedOn(b, ref[1]), by |-> NoSymbol, at |-> NoSymbol]
          /\ new[ref] = [created |-> MinedOn(b, ref[1]), by |-> tx[t], at |-> h]
      BY <1>4, <2>1
    <3>2. old[ref].created = MinedOn(b, ref[1])
      BY <3>1
    <3>3. Spending(old, ToSet(Ins[t]), tx[t], h)[ref]
             = [created |-> old[ref].created, by |-> tx[t], at |-> h]
      BY <2>1 DEF Spending
    <3> QED
      BY <3>1, <3>2, <3>3
  <2>2. CASE ref \notin ToSet(Ins[t])
    BY <1>5, <2>2 DEF Spending
  <2> QED
    BY <2>1, <2>2
<1>8. ASSUME NEW ref \in ToSet(Ins[t]), ref \in OutputRefs PROVE old[ref].by = NoSymbol
  <2>1. old[ref] = [created |-> MinedOn(b, ref[1]), by |-> NoSymbol, at |-> NoSymbol]
    BY <1>4, <1>8
  <2> QED
    BY <2>1
<1> QED
  BY <1>6, <1>7, <1>8 DEF LivesOn

\* The records, and the addresses, that memory holds do not depend on the rest of it.
LEMMA WritingFrame ==
    ASSUME NEW m, NEW n, NEW d, NEW tx, NEW R, NEW life, Writing(m, d, tx, R, life),
           n.ops.utxo = m.ops.utxo, n.seenUtxo = m.seenUtxo,
           n.ops.address = m.ops.address, n.seenAddress = m.seenAddress
    PROVE  Writing(n, d, tx, R, life)
<1>1. \A a : AddressSymbol(n, d, a) = AddressSymbol(m, d, a)
             /\ (HasSymbol(n, d, a) <=> HasSymbol(m, d, a))
  BY DEF AddressSymbol, HasSymbol
<1>2. Kept(n) /\ Linked(n, d)
  BY DEF Writing, Kept, Linked
<1> QED
  BY <1>1, <1>2 DEF Writing

\* Outputs that are made end nothing.
LEMMA OutputsFail ==
    ASSUME NEW m, NEW n, NEW d, NEW table, Sound(m, table), DOMAIN d.utxo \subseteq Nat \X Nat,
           Readies(d), NEW tx, NEW T, Saving(m, d, tx, OutputsOf(T)), NEW t, t \in Txs, t \notin T,
           NEW symbol, symbol \in Nat, symbol = tx[t], NEW height, height \in Nat,
           n = BatchTransactionOutputs(m, d, t, symbol, height)
    PROVE  n.failed = m.failed
<1>1. LET o == BatchTransactionOutputs(m, d, t, symbol, height)
      IN  Saving(o, d, tx, OutputsOf(T \cup {t})) /\ o.failed = m.failed
  BY OutputsSave
<1> QED
  BY <1>1

\* One transaction of a block behind the chain of its parent.
LEMMA BatchTxExact ==
    ASSUME NEW m, NEW d, NEW table, Sound(m, table), DOMAIN d.utxo \subseteq Nat \X Nat, Readies(d),
           NEW b \in Blocks, NEW done \in SUBSET ToSet(TxsOf[b]),
           Adding(m, d, Parent[b], done), NEW T, T = Mined(Parent[b]) \cup done, Closed(T),
           Saving(m, d, Apply(m.ops.tx, d.tx), OutputsOf(T)),
           \/ m.failed
           \/ Writing(m, d, Apply(m.ops.tx, d.tx), OutputsOf(T),
                      LifeOf(Apply(m.ops.tx, d.tx), b, T)),
           NEW t \in ToSet(TxsOf[b]), \A ref \in ToSet(Ins[t]) : ref[1] \in T
    PROVE  LET n == BatchTx(m, d, t, Height[b])
               tx2 == Apply(n.ops.tx, d.tx)
           IN  \/ n.failed
               \/ Writing(n, d, tx2, OutputsOf(T \cup {t}), LifeOf(tx2, b, T \cup {t}))
<1> DEFINE p == Parent[b]
           height == Height[b]
           tx == Apply(m.ops.tx, d.tx)
           n == BatchTx(m, d, t, height)
<1>0. /\ p \in BlockOrNone /\ b \in BlockOrNone /\ t \in Txs /\ height \in Nat
      /\ Mined(b) = Mined(p) \cup ToSet(TxsOf[b]) /\ Mined(p) \cap ToSet(TxsOf[b]) = {}
      /\ MinedOn(b, t) = height
  <2>1. b \in BlockOrNone /\ b \in Chain[b]
    BY ChainEnds DEF BlockOrNone
  <2>2. TxsOf[b] \in Seq(Txs)
    BY UtxoIndexerAssumption DEF UtxoIndexerAssumption
  <2>3. t \in Txs
    BY <2>2 DEF ToSet
  <2> QED
    BY <2>1, <2>3, ChainEnds, MinedSplit, MinedOnIs
<1>1. GetTxSymbol(m, d, t) = IF t \in DOMAIN tx THEN tx[t] ELSE NoSymbol
  <2>1. m.seenTx = m.ops.tx /\ m.ops.tx \in [DOMAIN m.ops.tx -> Nat]
    BY DEF Adding
  <2> QED
    BY <2>1, TxSymbol
<1>2. CASE t \in done
  <2>1. t \in DOMAIN tx /\ tx[t] \in Nat
    BY <1>2 DEF Adding
  <2>2. GetTxSymbol(m, d, t) # NoSymbol
    BY <1>1, <2>1 DEF NoSymbol
  <2>3. n = m
    BY <2>2, Zenon DEF BatchTx
  <2>4. T \cup {t} = T
    BY <1>2
  <2> QED
    BY <2>3, <2>4
<1>3. CASE t \notin done
  <2> DEFINE s == m.lastTx + 1
             named == [m EXCEPT !.lastTx = s, !.seenTx = With(@, t, s),
                                !.ops.tx = With(@, t, s), !.ops.txid = With(@, s, t)]
             spent == BatchTransactionInputs(named, d, t, s, height)
             tx2 == Apply(named.ops.tx, d.tx)
             life == LifeOf(tx2, b, T)
             life2 == LifeOf(tx2, b, T \cup {t})
  <2>1. GetTxSymbol(m, d, t) = NoSymbol
    BY <1>0, <1>1, <1>3 DEF Adding
  <2>2. n = BatchTransactionOutputs(spent, d, t, s, height)
    BY <2>1, Zenon DEF BatchTx
  <2>3. s \in Nat
    BY DEF Adding, NoSymbol
  <2>4. IsMem(m)
    BY DEF Sound
  <2>5. \A u : u \in DOMAIN tx <=> u \in T
    BY DEF Adding
  <2>6. t \notin T /\ T \in SUBSET Mined(b) /\ t \in Mined(b)
    BY <1>0, <1>3
  <2> HIDE DEF n, tx, spent, s, tx2, life, life2, p, height
  <2>7. /\ IsMem(named) /\ named.lastAddress = m.lastAddress /\ named.failed = m.failed
        /\ named.ops.address = m.ops.address /\ named.ops.utxo = m.ops.utxo
        /\ named.seenUtxo = m.seenUtxo /\ named.seenAddress = m.seenAddress
        /\ named.lastTx = s /\ named.seenTx = With(m.seenTx, t, s)
        /\ named.ops.tx = With(m.ops.tx, t, s) /\ named.ops.txid = With(m.ops.txid, s, t)
    BY <2>4 DEF IsMem
  <2> HIDE DEF named
  <2>8. Sound(named, table)
    BY <2>7, UtxoChangeSound
  <2>9. Adding(named, d, p, done \cup {t})
    <3>1. Adding(m, d, p, done) /\ t \notin Mined(p)
      BY <1>0 DEF p
    <3> QED
      BY <1>0, <1>3, <2>7, <3>1, AddingOne DEF s
  <2>10. tx2[t] = s /\ \A u \in T : u # t /\ tx2[u] = tx[u] /\ u \in DOMAIN tx2
    <3>1. s # Deleted
      BY <2>3, UtxoIndexerAssumption DEF UtxoIndexerAssumption
    <3> QED
      BY <2>5, <2>6, <2>7, <3>1, ApplyWith DEF tx, tx2
  <2>11. OneKey(tx2, OutputsOf(T)) /\ OneKey(tx2, OutputsOf(T \cup {t}))
    <3> DEFINE txid2 == Apply(named.ops.txid, d.txid)
    <3>1. \A u \in T \cup {t} : txid2[tx2[u]] = u
      BY <2>9 DEF Adding, tx2, p
    <3> HIDE DEF txid2
    <3> QED
      BY <3>1, OwnKeys
  <2>12. named.failed \/ Writing(named, d, tx2, OutputsOf(T), life)
    <3>1. life = LifeOf(tx, b, T)
      BY <2>10, LivesSame DEF life
    <3>2. \A ref \in OutputsOf(T) : tx2[ref[1]] = tx[ref[1]] /\ life[ref] = life[ref]
      BY <2>10 DEF OutputsOf
    <3>3. m.failed \/ Writing(m, d, tx, OutputsOf(T), life)
      BY <3>1 DEF tx
    <3>4. m.failed \/ Writing(m, d, tx2, OutputsOf(T), life)
      BY <3>2, <3>3, WritingSame
    <3> QED
      BY <2>7, <3>4, WritingFrame
  <2>13. ASSUME NEW ref \in ToSet(Ins[t])
         PROVE  ref \in OutputsOf(T) /\ GetTxSymbol(named, d, ref[1]) = tx2[ref[1]]
    <3>1. ref \in OutputRefs
      BY <1>0, UtxoIndexerAssumption DEF UtxoIndexerAssumption, ToSet
    <3>2. named.seenTx = named.ops.tx /\ named.ops.tx \in [DOMAIN named.ops.tx -> Nat]
      BY <2>9 DEF Adding
    <3>3. GetTxSymbol(named, d, ref[1]) = tx2[ref[1]]
      BY <2>10, <3>2, TxSymbol DEF tx2
    <3> QED
      BY <3>1, <3>3 DEF OutputsOf
  <2>14. /\ \A ref \in ToSet(Ins[t]) : ref \in OutputRefs => life[ref].by = NoSymbol
         /\ \A ref \in OutputRefs : life2[ref] = Spending(life, ToSet(Ins[t]), s, height)[ref]
         /\ \A ref \in OutputRefs :
               ref[1] = t => life2[ref] = [created |-> height, by |-> NoSymbol, at |-> NoSymbol]
    <3>1. /\ b \in BlockOrNone /\ T \subseteq Mined(b) /\ t \in Mined(b) /\ t \notin T
          /\ MinedOn(b, t) = height
      BY <1>0, <2>6 DEF height
    <3>0. life = LifeOf(tx2, b, T) /\ life2 = LifeOf(tx2, b, T \cup {t})
      BY DEF life, life2
    <3> HIDE DEF life, life2
    <3>2. LivesOn(life, life2, t, tx2[t], height)
      BY <3>0, <3>1, LivesGo
    <3> QED
      BY <2>10, <3>2 DEF LivesOn
  <2>15. Sound(spent, table) /\ SameNames(named, spent)
    BY <1>0, <2>3, <2>8, InputsSound DEF spent
  <2>16. spent.failed \/ Writing(spent, d, tx2, OutputsOf(T),
                                 Spending(life, ToSet(Ins[t]), s, height))
    <3>1. OutputsOf(T) \in SUBSET OutputRefs
      BY DEF OutputsOf
    <3>2. \A ref \in ToSet(Ins[t]) : /\ ref \in OutputsOf(T)
                                     /\ GetTxSymbol(named, d, ref[1]) = tx2[ref[1]]
                                     /\ life[ref].by = NoSymbol
      BY <2>13, <2>14, <3>1
    <3> QED
      BY <1>0, <2>3, <2>8, <2>11, <2>12, <3>1, <3>2, InputsExact DEF spent
  <2>17. n.failed = spent.failed
    <3>1. Saving(named, d, tx2, OutputsOf(T))
      <4>1. \A ref \in OutputsOf(T) : Key(tx2, ref) = Key(tx, ref)
        BY <2>10 DEF OutputsOf, Key
      <4>2. Saving(m, d, tx, OutputsOf(T))
        BY DEF tx
      <4> QED
        BY <2>7, <4>1, <4>2 DEF Saving, Kept
    <3>2. Saving(spent, d, tx2, OutputsOf(T))
      BY <1>0, <2>3, <2>8, <2>13, <3>1, InputsSave DEF spent
    <3>3. s = tx2[t] /\ t \in Txs /\ t \notin T /\ height \in Nat
      BY <1>0, <2>6, <2>10 DEF height
    <3>4. Sound(spent, table)
      BY <2>15
    <3> QED
      BY <2>2, <2>3, <3>2, <3>3, <3>4, OutputsFail
  <2>18. Apply(n.ops.tx, d.tx) = tx2
    <3>1. SameNames(spent, n)
      BY <1>0, <2>2, <2>3, <2>15, OutputsSound
    <3> QED
      BY <2>15, <3>1 DEF SameNames, tx2
  <2>19. n.failed \/ Writing(n, d, tx2, OutputsOf(T \cup {t}), life2)
    <3> SUFFICES ASSUME ~n.failed PROVE Writing(n, d, tx2, OutputsOf(T \cup {t}), life2)
      OBVIOUS
    <3>1. \A ref \in OutputsOf(T) : life2[ref] = Spending(life, ToSet(Ins[t]), s, height)[ref]
      BY <2>14 DEF OutputsOf
    <3>2. Writing(spent, d, tx2, OutputsOf(T), life2)
      BY <2>16, <2>17, <3>1, WritingSame
    <3>3. n = BatchTransactionOutputs(spent, d, t, tx2[t], height) /\ tx2[t] \in Nat
      BY <2>2, <2>3, <2>10
    <3> QED
      BY <1>0, <2>6, <2>11, <2>14, <2>15, <3>2, <3>3, OutputsExact
  <2> QED
    BY <2>18, <2>19 DEF n, life2, height
<1> QED
  BY <1>2, <1>3

\* What the i-th transaction of a block spends was made before it.
LEMMA InputsBefore ==
    ASSUME NEW b \in Blocks, NEW i \in 1..Len(TxsOf[b]), NEW k \in Nat, i - 1 <= k,
           NEW ref \in ToSet(Ins[TxsOf[b][i]])
    PROVE  ref \in OutputRefs /\ ref[1] \in Mined(Parent[b]) \cup First(b, k)
<1>1. i \in DOMAIN TxsOf[b] /\ TxsOf[b][i] \in Txs /\ i \in Nat
  BY FirstAll, UtxoIndexerAssumption DEF UtxoIndexerAssumption
<1>2. \/ \E c \in Chain[Parent[b]] : ref[1] \in ToSet(TxsOf[c])
      \/ \E j \in 1 .. i - 1 : TxsOf[b][j] = ref[1]
  BY <1>1, SpentInOrder
<1>3. \A j \in 1 .. i - 1 : j \in 1..k
  BY <1>1
<1>4. ref \in OutputRefs
  BY <1>1, UtxoIndexerAssumption DEF UtxoIndexerAssumption, ToSet
<1> QED
  BY <1>2, <1>3, <1>4 DEF Mined, First

\* The same up to a transaction of a block.
LEMMA BlockClosed ==
    ASSUME NEW b \in Blocks, NEW k \in 0..Len(TxsOf[b])
    PROVE  Closed(Mined(Parent[b]) \cup First(b, k))
<1> DEFINE T == Mined(Parent[b]) \cup First(b, k)
<1> SUFFICES ASSUME NEW u \in T, NEW ref \in ToSet(Ins[u]) PROVE ref[1] \in T
  BY DEF Closed
<1>1. CASE u \in Mined(Parent[b])
  <2>1. Closed(Mined(Parent[b]))
    BY ChainEnds, MinedClosed
  <2> QED
    BY <1>1, <2>1 DEF Closed
<1>2. CASE u \in First(b, k)
  <2>1. PICK i \in 1..k : u = TxsOf[b][i]
    BY <1>2 DEF First
  <2>2. i \in 1..Len(TxsOf[b]) /\ k \in Nat /\ i - 1 <= k
    BY FirstAll
  <2> QED
    BY <2>1, <2>2, InputsBefore
<1> QED
  BY <1>1, <1>2

\* A block on top changes nothing about the lives below.
LEMMA LivesBelow ==
    ASSUME NEW b \in Blocks, NEW T \in SUBSET Mined(Parent[b]), NEW tx,
           NEW ref \in OutputsOf(Mined(Parent[b]))
    PROVE  LifeOf(tx, b, T)[ref] = LifeOf(tx, Parent[b], T)[ref]
<1> DEFINE p == Parent[b]
<1>1. p \in BlockOrNone /\ b \in BlockOrNone /\ Chain[p] \subseteq Chain[b]
  BY ChainEnds DEF BlockOrNone
<1> HIDE DEF p
<1>2. ASSUME NEW t \in Mined(p) PROVE MinedOn(b, t) = MinedOn(p, t)
  <2>1. PICK c \in Chain[p] : t \in ToSet(TxsOf[c])
    BY DEF Mined
  <2>2. c \in Chain[b]
    BY <1>1
  <2> QED
    BY <1>1, <2>1, <2>2, MinedOnIs
<1>3. ref \in OutputRefs /\ ref[1] \in Mined(p)
  BY DEF OutputsOf, p
<1>4. Spenders(T, ref) # {} => (CHOOSE t \in Spenders(T, ref) : TRUE) \in Mined(p)
  BY DEF Spenders, p
<1>5. LifeWith(tx, b, ref, Spenders(T, ref)) = LifeWith(tx, p, ref, Spenders(T, ref))
  BY <1>2, <1>3, <1>4 DEF LifeWith
<1> QED
  BY <1>3, <1>5 DEF LifeOf, p

\* saveBlock leaves memory with the records of the chain of the block it adds.
LEMMA SaveBlockExact ==
    ASSUME NEW m, NEW d, NEW table, Sound(m, table), DOMAIN d.utxo \subseteq Nat \X Nat, Readies(d),
           NEW b \in Blocks, m.seenTx = m.ops.tx, m.ops.tx \in [DOMAIN m.ops.tx -> Nat],
           Names(m.ops, m.lastTx, d, Parent[b]), ~m.failed,
           Saving(m, d, Apply(m.ops.tx, d.tx), OutputsOf(Mined(Parent[b]))),
           Writing(m, d, Apply(m.ops.tx, d.tx), OutputsOf(Mined(Parent[b])),
                   LifeOf(Apply(m.ops.tx, d.tx), Parent[b], Mined(Parent[b])))
    PROVE  LET n == SaveBlock(m, d, b)
               tx == Apply(n.ops.tx, d.tx)
           IN  n.failed \/ Writing(n, d, tx, OutputsOf(Mined(b)), LifeOf(tx, b, Mined(b)))
<1> DEFINE p == Parent[b]
           N == Len(TxsOf[b])
           T(k) == Mined(p) \cup First(b, k)
           Exact(n, k) ==
              \/ n.failed
              \/ Writing(n, d, Apply(n.ops.tx, d.tx), OutputsOf(T(k)),
                         LifeOf(Apply(n.ops.tx, d.tx), b, T(k)))
<1>1. N \in Nat /\ ToSet(TxsOf[b]) = First(b, N) /\ First(b, 0) = {} /\ 0 \in 0..N /\ N \in 0..N
  BY FirstAll
<1>2. Mined(b) = T(N) /\ T(0) = Mined(p)
  BY <1>1, MinedSplit
<1>3. PICK f :
         /\ SavedRun(f, m, d, b) /\ SaveBlock(m, d, b) = f[N]
         /\ \A k \in 0..N :
               /\ Sound(f[k], table) /\ Adding(f[k], d, p, First(b, k))
               /\ Saving(f[k], d, Apply(f[k].ops.tx, d.tx), OutputsOf(T(k)))
  BY SaveBlockRuns
<1> DEFINE S == {k \in 0..N : Exact(f[k], k)}
<1>4. 0 \in S
  <2>1. f[0] = Begun(m, b) /\ IsMem(m)
    BY <1>3 DEF SavedRun, Sound
  <2> DEFINE g == Begun(m, b)
  <2>8. /\ g.ops.utxo = m.ops.utxo /\ g.seenUtxo = m.seenUtxo /\ g.ops.tx = m.ops.tx
        /\ g.ops.address = m.ops.address /\ g.seenAddress = m.seenAddress
    <3> HIDE DEF S
    <3> QED
      BY <2>1 DEF IsMem, Begun
  <2>2. /\ f[0].ops.utxo = m.ops.utxo /\ f[0].seenUtxo = m.seenUtxo /\ f[0].ops.tx = m.ops.tx
        /\ f[0].ops.address = m.ops.address /\ f[0].seenAddress = m.seenAddress
    BY <2>1, <2>8
  <2> DEFINE tx == Apply(m.ops.tx, d.tx)
             R == OutputsOf(Mined(p))
             below == LifeOf(tx, p, Mined(p))
             life == LifeOf(tx, b, Mined(p))
  <2>3. \A ref \in R : life[ref] = below[ref]
    BY LivesBelow
  <2>4. Writing(m, d, tx, R, below)
    OBVIOUS
  <2> HIDE DEF R, below, life, tx
  <2>5. Writing(m, d, tx, R, life)
    BY <2>3, <2>4, WritingSame
  <2>6. Writing(f[0], d, tx, R, life)
    BY <2>2, <2>5, WritingFrame
  <2>7. Writing(f[0], d, Apply(f[0].ops.tx, d.tx), OutputsOf(T(0)),
                LifeOf(Apply(f[0].ops.tx, d.tx), b, T(0)))
    BY <1>2, <2>2, <2>6 DEF R, life, tx
  <2> QED
    BY <1>1, <2>7
<1>5. ASSUME NEW k \in S, k < N PROVE k + 1 \in S
  <2> DEFINE t == TxsOf[b][k + 1]
  <2>1. k \in 0..N /\ k + 1 \in 0..N /\ k + 1 \in 1..N /\ Exact(f[k], k) /\ k \in Nat
    <3> HIDE DEF Exact
    <3> QED
      BY <1>1, <1>5
  <2>2. f[k + 1] = BatchTx(f[k], d, t, Height[b])
    BY <1>3, <1>5, <2>1 DEF SavedRun
  <2>3. t \in ToSet(TxsOf[b]) /\ First(b, k) \in SUBSET ToSet(TxsOf[b])
    <3>1. \A i \in 1..N : TxsOf[b][i] \in ToSet(TxsOf[b])
      BY <1>1 DEF First
    <3>2. \A i \in 1..k : i \in 1..N
      BY <1>1, <2>1
    <3> QED
      BY <2>1, <3>1, <3>2 DEF First
  <2>4. T(k + 1) = T(k) \cup {t}
    <3>1. First(b, k + 1) = First(b, k) \cup {t}
      BY <2>1 DEF First
    <3> QED
      BY <3>1
  <2>5. \A ref \in ToSet(Ins[t]) : ref[1] \in T(k)
    <3>1. (k + 1) - 1 <= k
      BY <2>1
    <3> QED
      BY <2>1, <3>1, InputsBefore
  <2>6. Closed(T(k))
    BY <2>1, BlockClosed
  <2>7. /\ Sound(f[k], table) /\ Adding(f[k], d, p, First(b, k))
        /\ Saving(f[k], d, Apply(f[k].ops.tx, d.tx), OutputsOf(T(k)))
    BY <1>3, <2>1
  <2>8. T(k) = Mined(Parent[b]) \cup First(b, k)
    OBVIOUS
  <2> DEFINE n == BatchTx(f[k], d, t, Height[b])
             tx == Apply(n.ops.tx, d.tx)
  <2>9. \/ n.failed
        \/ Writing(n, d, tx, OutputsOf(T(k) \cup {t}), LifeOf(tx, b, T(k) \cup {t}))
    <3> HIDE DEF t, N, T
    <3> QED
      BY <2>1, <2>3, <2>5, <2>6, <2>7, <2>8, BatchTxExact
  <2>10. Exact(f[k + 1], k + 1)
    <3> HIDE DEF T, t
    <3> QED
      BY <2>2, <2>4, <2>9
  <2> QED
    BY <2>1, <2>10
<1>6. S = 0..N
  <2>1. S \in SUBSET (0..N)
    OBVIOUS
  <2>2. N \in Nat
    BY <1>1
  <2> HIDE DEF S, N, Exact
  <2>3. \A k \in S : k < N => k + 1 \in S
    BY <1>5
  <2> QED
    BY <1>4, <2>1, <2>2, <2>3, UpTo
<1>7. Exact(f[N], N)
  <2> HIDE DEF N, Exact
  <2> QED
    BY <1>1, <1>6
<1> QED
  BY <1>2, <1>3, <1>7

------------------------------------------------------------------------------
(* Exact records when a block is taken back *)

\* A utxo table that has the record of each output of the chain of b, and no other.
ExactTable(utxo, tx, address, b) ==
    /\ DOMAIN utxo = Keys(tx, OutputsOf(Mined(b)))
    /\ \A ref \in OutputsOf(Mined(b)) : Addressed(ref) =>
          /\ Payee(ref) \in DOMAIN address
          /\ utxo[Key(tx, ref)] = RecordIn(address[Payee(ref)], LifeOf(tx, b, Mined(b)), ref)

\* The record of an output that is unspent again.
Freed(r) == [r EXCEPT !.spentIn = NoSymbol, !.spentOn = NoSymbol]

\* What waits while a block is taken back: the records of outputs I are put again, those of
\* outputs O are deleted.
Taken(m, d, I, O) ==
    /\ \A ref \in I : /\ Key(d.tx, ref) \in DOMAIN m.ops.utxo \cap DOMAIN d.utxo
                      /\ m.ops.utxo[Key(d.tx, ref)] = Freed(d.utxo[Key(d.tx, ref)])
    /\ \A ref \in O : /\ Key(d.tx, ref) \in DOMAIN m.ops.utxo
                      /\ m.ops.utxo[Key(d.tx, ref)] = Deleted
    /\ \A k \in DOMAIN m.ops.utxo : \E ref \in I \cup O : k = Key(d.tx, ref)

\* From m to n, nothing is entered into a cache, and no address gets a symbol.
Quiet(m, n) ==
    /\ IsMem(n) /\ n.seenTx = m.seenTx /\ n.seenUtxo = m.seenUtxo
    /\ n.seenAddress = m.seenAddress /\ n.ops.address = m.ops.address
    /\ n.lastAddress = m.lastAddress

\* One input is put back; the cache has no records.
LEMMA RevalidateTakes ==
    ASSUME NEW m, NEW d, IsMem(m), m.seenUtxo = EmptyTable, NEW R, OneKey(d.tx, R),
           NEW I \in SUBSET R, NEW O \in SUBSET R, NEW ref \in R, ref \notin O,
           GetTxSymbol(m, d, ref[1]) = d.tx[ref[1]]
    PROVE  LET n == RevalidateUtxo(m, d, ref)
           IN  /\ Quiet(m, n) /\ n.ops.tx = m.ops.tx
               /\ m.failed => n.failed
               /\ Taken(m, d, I, O) => n.failed \/ Taken(n, d, I \cup {ref}, O)
<1> DEFINE n == RevalidateUtxo(m, d, ref)
           key == Key(d.tx, ref)
           record == Freed(d.utxo[key])
<1>1. CASE ~Found(m, d, ref)
  <2>1. n = [m EXCEPT !.failed = TRUE]
    BY <1>1, Zenon DEF RevalidateUtxo
  <2> HIDE DEF n
  <2>2. n.failed /\ Quiet(m, n) /\ n.ops.tx = m.ops.tx
    BY <2>1 DEF IsMem, Quiet
  <2> QED
    BY <2>2 DEF n
<1>2. CASE Found(m, d, ref)
  <2>1. UtxoKey(m, d, ref) = key /\ UtxoValue(m, d, ref) = d.utxo[key] /\ key \in DOMAIN d.utxo
    BY <1>2, EmptyTableIsEmpty DEF UtxoKey, UtxoValue, Found, Key
  <2>2. n = [m EXCEPT !.ops.utxo = With(@, UtxoKey(m, d, ref),
                [UtxoValue(m, d, ref) EXCEPT !.spentIn = NoSymbol, !.spentOn = NoSymbol])]
    BY <1>2, Zenon DEF RevalidateUtxo
  <2>3. n = [m EXCEPT !.ops.utxo = With(@, key, record)]
    BY <2>1, <2>2 DEF Freed
  <2>4. \A r \in R : Key(d.tx, r) = key => r = ref
    BY DEF OneKey
  <2>5. record = Freed(d.utxo[key]) /\ key = Key(d.tx, ref)
    OBVIOUS
  <2> HIDE DEF n, key, record
  <2>6. /\ n.failed = m.failed /\ Quiet(m, n) /\ n.ops.tx = m.ops.tx
        /\ n.ops.utxo = With(m.ops.utxo, key, record)
    BY <2>3 DEF IsMem, Quiet
  <2>7. /\ DOMAIN n.ops.utxo = DOMAIN m.ops.utxo \cup {key} /\ n.ops.utxo[key] = record
        /\ \A k \in DOMAIN m.ops.utxo : k # key => n.ops.utxo[k] = m.ops.utxo[k]
    BY <2>6 DEF With
  <2>8. ASSUME Taken(m, d, I, O) PROVE Taken(n, d, I \cup {ref}, O)
    <3>1. ASSUME NEW r \in I \cup {ref}
          PROVE  /\ Key(d.tx, r) \in DOMAIN n.ops.utxo \cap DOMAIN d.utxo
                 /\ n.ops.utxo[Key(d.tx, r)] = Freed(d.utxo[Key(d.tx, r)])
      <4>1. CASE r = ref
        BY <2>1, <2>5, <2>7, <4>1
      <4>2. CASE r # ref
        BY <2>4, <2>7, <2>8, <4>2 DEF Taken
      <4> QED
        BY <4>1, <4>2
    <3>2. ASSUME NEW r \in O
          PROVE  Key(d.tx, r) \in DOMAIN n.ops.utxo /\ n.ops.utxo[Key(d.tx, r)] = Deleted
      BY <2>4, <2>7, <2>8 DEF Taken
    <3>3. ASSUME NEW k \in DOMAIN n.ops.utxo PROVE \E r \in I \cup {ref} \cup O : k = Key(d.tx, r)
      BY <2>5, <2>7, <2>8 DEF Taken
    <3> QED
      BY <3>1, <3>2, <3>3 DEF Taken
  <2> QED
    BY <2>6, <2>8 DEF n
<1> QED
  BY <1>1, <1>2

\* One output is deleted; its address has a symbol on disk.
LEMMA RemoveOutputTakes ==
    ASSUME NEW m, NEW d, IsMem(m), NEW R, OneKey(d.tx, R),
           NEW I \in SUBSET R, NEW O \in SUBSET R, NEW ref \in R, ref \notin I,
           Addressed(ref) => Payee(ref) \in DOMAIN d.address
    PROVE  LET n == RemoveOutput(m, d, ref, d.tx[ref[1]])
           IN  /\ Quiet(m, n) /\ n.ops.tx = m.ops.tx /\ n.failed = m.failed
               /\ Taken(m, d, I, O) => Taken(n, d, I, O \cup {ref})
<1> DEFINE n == RemoveOutput(m, d, ref, d.tx[ref[1]])
           key == Key(d.tx, ref)
           a == Payee(ref)
           holder == AddressSymbol(m, d, a)
           list == Without(ListOf(d, holder), key)
<1>1. key = <<d.tx[ref[1]], ref[2]>> /\ a = Outs[ref[1]][ref[2]].address
  BY DEF Key, Payee
<1>2. a # NoAddress => WithSymbol(m, d, a) = m
  <2>1. a # NoAddress => HasSymbol(m, d, a)
    BY <1>1 DEF Addressed, HasSymbol
  <2> QED
    BY <2>1, Zenon DEF WithSymbol
<1>3. n = IF a = NoAddress THEN [m EXCEPT !.ops.utxo = With(@, key, Deleted)]
          ELSE [m EXCEPT !.ops.utxo = With(@, key, Deleted), !.ops.list = With(@, holder, list)]
  <2>1. CASE a = NoAddress
    <3>1. Outs[ref[1]][ref[2]].address = NoAddress
      BY <1>1, <2>1
    <3>2. n = [m EXCEPT !.ops.utxo = With(m.ops.utxo, <<d.tx[ref[1]], ref[2]>>, Deleted)]
      BY <3>1, Zenon DEF RemoveOutput
    <3> QED
      BY <1>1, <2>1, <3>2
  <2>2. CASE a # NoAddress
    <3> DEFINE known == WithSymbol(m, d, Outs[ref[1]][ref[2]].address)
               h == AddressSymbol(known, d, Outs[ref[1]][ref[2]].address)
               entry == <<d.tx[ref[1]], ref[2]>>
    <3>1. Outs[ref[1]][ref[2]].address # NoAddress
      BY <1>1, <2>2
    <3>2. n = [known EXCEPT !.ops.utxo = With(m.ops.utxo, entry, Deleted),
                            !.ops.list = With(@, h, Without(ListOf(d, h), entry))]
      BY <3>1, Zenon DEF RemoveOutput
    <3>3. known = m /\ entry = key
      BY <1>1, <1>2, <2>2
    <3>4. h = holder
      BY <1>1, <3>3
    <3> HIDE DEF known, h, entry, n, holder, key, a
    <3> QED
      BY <2>2, <3>2, <3>3, <3>4
  <2> QED
    BY <2>1, <2>2
<1>4. \A r \in R : Key(d.tx, r) = key => r = ref
  BY DEF OneKey
<1> HIDE DEF n, list, holder
<1>5. /\ n.failed = m.failed /\ Quiet(m, n) /\ n.ops.tx = m.ops.tx
      /\ n.ops.utxo = With(m.ops.utxo, key, Deleted)
  <2> HIDE DEF a, key
  <2>1. CASE a = NoAddress
    BY <1>3, <2>1 DEF IsMem, Quiet
  <2>2. CASE a # NoAddress
    BY <1>3, <2>2 DEF IsMem, Quiet
  <2> QED
    BY <2>1, <2>2
<1>6. /\ DOMAIN n.ops.utxo = DOMAIN m.ops.utxo \cup {key} /\ n.ops.utxo[key] = Deleted
      /\ \A k \in DOMAIN m.ops.utxo : k # key => n.ops.utxo[k] = m.ops.utxo[k]
  BY <1>5 DEF With
<1>7. ASSUME Taken(m, d, I, O) PROVE Taken(n, d, I, O \cup {ref})
  <2>1. ASSUME NEW r \in I
        PROVE  /\ Key(d.tx, r) \in DOMAIN n.ops.utxo \cap DOMAIN d.utxo
               /\ n.ops.utxo[Key(d.tx, r)] = Freed(d.utxo[Key(d.tx, r)])
    <3>1. Key(d.tx, r) # key
      BY <1>4
    <3> HIDE DEF key
    <3> QED
      BY <1>6, <1>7, <3>1 DEF Taken
  <2>2. ASSUME NEW r \in O \cup {ref}
        PROVE  Key(d.tx, r) \in DOMAIN n.ops.utxo /\ n.ops.utxo[Key(d.tx, r)] = Deleted
    <3>1. CASE Key(d.tx, r) = key
      BY <1>6, <3>1
    <3>2. CASE Key(d.tx, r) # key
      BY <1>6, <1>7, <3>2 DEF Taken
    <3> QED
      BY <3>1, <3>2
  <2>3. ASSUME NEW k \in DOMAIN n.ops.utxo PROVE \E r \in I \cup (O \cup {ref}) : k = Key(d.tx, r)
    BY <1>6, <1>7 DEF Taken
  <2> QED
    BY <2>1, <2>2, <2>3 DEF Taken
<1> QED
  BY <1>5, <1>7 DEF n

\* Quiet composes.
LEMMA QuietOn ==
    ASSUME NEW m, NEW n, NEW o, Quiet(m, n), Quiet(n, o)
    PROVE  Quiet(m, o)
  BY DEF Quiet

\* The inputs of a transaction.
LEMMA RevalidatedTakes ==
    ASSUME NEW m, NEW d, IsMem(m), m.seenUtxo = EmptyTable, NEW R, OneKey(d.tx, R),
           NEW I \in SUBSET R, NEW O \in SUBSET R, NEW t \in Txs,
           \A ref \in ToSet(Ins[t]) :
              ref \in R /\ ref \notin O /\ GetTxSymbol(m, d, ref[1]) = d.tx[ref[1]]
    PROVE  LET n == RevalidateInputs(m, d, t)
           IN  /\ Quiet(m, n) /\ n.ops.tx = m.ops.tx
               /\ m.failed => n.failed
               /\ Taken(m, d, I, O) => n.failed \/ Taken(n, d, I \cup ToSet(Ins[t]), O)
<1> DEFINE N == Len(Ins[t])
           In(k) == {Ins[t][i] : i \in 1..k}
<1>1. N \in Nat /\ (\A i \in 1..N : Ins[t][i] \in ToSet(Ins[t])) /\ ToSet(Ins[t]) = In(N)
  <2>1. Ins[t] \in Seq(OutputRefs)
    BY UtxoIndexerAssumption DEF UtxoIndexerAssumption
  <2> QED
    BY <2>1 DEF ToSet
<1>2. PICK f : RevalidatedRun(f, m, d, t) /\ RevalidateInputs(m, d, t) = f[N]
  BY <1>1, RevalidatedUnfolds
<1> DEFINE Good(k) == /\ Quiet(m, f[k]) /\ f[k].ops.tx = m.ops.tx
                      /\ m.failed => f[k].failed
                      /\ Taken(m, d, I, O) => f[k].failed \/ Taken(f[k], d, I \cup In(k), O)
           S == {k \in 0..N : Good(k)}
<1>3. 0 \in S
  <2>1. f[0] = m /\ 0 \in 0..N /\ I \cup In(0) = I
    BY <1>1, <1>2 DEF RevalidatedRun
  <2>2. Quiet(m, m)
    BY DEF Quiet
  <2> HIDE DEF In, N
  <2> QED
    BY <2>1, <2>2
<1>4. ASSUME NEW k \in S, k < N PROVE k + 1 \in S
  <2> DEFINE ref == Ins[t][k + 1]
  <2>1. k \in 0..N /\ k + 1 \in 0..N /\ k + 1 \in 1..N /\ Good(k)
    <3> HIDE DEF Good
    <3> QED
      BY <1>1, <1>4
  <2>2. f[k + 1] = RevalidateUtxo(f[k], d, ref)
    BY <1>2, <1>4, <2>1 DEF RevalidatedRun
  <2>3. In(k + 1) = In(k) \cup {ref}
    BY <2>1
  <2>4. ref \in R /\ ref \notin O /\ GetTxSymbol(f[k], d, ref[1]) = d.tx[ref[1]]
    <3>1. ref \in ToSet(Ins[t])
      BY <1>1, <2>1
    <3>2. f[k].seenTx = m.seenTx
      BY <2>1 DEF Quiet
    <3> HIDE DEF ref
    <3> QED
      BY <3>1, <3>2 DEF GetTxSymbol
  <2>5. I \cup In(k) \in SUBSET R
    <3>1. \A i \in 1..k : Ins[t][i] \in R
      BY <1>1, <2>1
    <3> QED
      BY <3>1
  <2>6. IsMem(f[k]) /\ f[k].seenUtxo = EmptyTable
    BY <2>1 DEF Quiet
  <2> HIDE DEF ref, In, N
  <2>7. /\ Quiet(f[k], f[k + 1]) /\ f[k + 1].ops.tx = f[k].ops.tx
        /\ f[k].failed => f[k + 1].failed
        /\ Taken(f[k], d, I \cup In(k), O) =>
              f[k + 1].failed \/ Taken(f[k + 1], d, I \cup In(k) \cup {ref}, O)
    <3> DEFINE g == f[k]
               J == I \cup In(k)
    <3>1. J \in SUBSET R /\ IsMem(g) /\ g.seenUtxo = EmptyTable
          /\ GetTxSymbol(g, d, ref[1]) = d.tx[ref[1]] /\ f[k + 1] = RevalidateUtxo(g, d, ref)
      BY <2>2, <2>4, <2>5, <2>6
    <3> HIDE DEF Good, S, g, J
    <3>2. LET n == RevalidateUtxo(g, d, ref)
          IN  /\ Quiet(g, n) /\ n.ops.tx = g.ops.tx
              /\ g.failed => n.failed
              /\ Taken(g, d, J, O) => n.failed \/ Taken(n, d, J \cup {ref}, O)
      BY <2>4, <3>1, RevalidateTakes
    <3> QED
      BY <3>1, <3>2 DEF g, J
  <2>8. I \cup In(k) \cup {ref} = I \cup In(k + 1)
    BY <2>3
  <2>9. Quiet(m, f[k + 1])
    BY <2>1, <2>7, QuietOn
  <2> QED
    BY <2>1, <2>7, <2>8, <2>9
<1>5. S = 0..N
  <2>1. S \in SUBSET (0..N)
    OBVIOUS
  <2>2. N \in Nat
    BY <1>1
  <2> HIDE DEF S, N, Good
  <2>3. \A k \in S : k < N => k + 1 \in S
    BY <1>4
  <2> QED
    BY <1>3, <2>1, <2>2, <2>3, UpTo
<1>6. Good(N)
  <2>1. N \in 0..N
    BY <1>1
  <2> HIDE DEF N, Good
  <2> QED
    BY <1>5, <2>1
<1> HIDE DEF In, N
<1> QED
  BY <1>1, <1>2, <1>6

\* The outputs of a transaction.
LEMMA RemovedTakes ==
    ASSUME NEW m, NEW d, IsMem(m), NEW R, OneKey(d.tx, R),
           NEW I \in SUBSET R, NEW T, OutputsOf(T) \in SUBSET R, NEW t \in Txs,
           \A ref \in OutputsOf({t}) :
              ref \in R /\ ref \notin I /\ (Addressed(ref) => Payee(ref) \in DOMAIN d.address)
    PROVE  LET n == RemoveOutputs(m, d, t, d.tx[t])
           IN  /\ Quiet(m, n) /\ n.ops.tx = m.ops.tx /\ n.failed = m.failed
               /\ Taken(m, d, I, OutputsOf(T)) => Taken(n, d, I, OutputsOf(T \cup {t}))
<1> DEFINE N == Len(Outs[t])
           Out(k) == OutputsOf(T) \cup {<<t, n>> : n \in 1..k}
<1>1. N \in Nat /\ \A n \in 1..N : <<t, n>> \in OutputRefs /\ <<t, n>> \in OutputsOf({t})
  BY UtxoIndexerAssumption DEF UtxoIndexerAssumption, OutputRefs, OutputsOf
<1>2. PICK f : RemovedRun(f, m, d, t, d.tx[t]) /\ RemoveOutputs(m, d, t, d.tx[t]) = f[N]
  BY <1>1, RemovedUnfolds
<1>3. Out(N) = OutputsOf(T \cup {t})
  BY OutputsOfOne
<1> DEFINE Good(k) == /\ Quiet(m, f[k]) /\ f[k].ops.tx = m.ops.tx /\ f[k].failed = m.failed
                      /\ Taken(m, d, I, OutputsOf(T)) => Taken(f[k], d, I, Out(k))
           S == {k \in 0..N : Good(k)}
<1>4. 0 \in S
  <2>1. f[0] = m /\ 0 \in 0..N /\ Out(0) = OutputsOf(T)
    BY <1>1, <1>2 DEF RemovedRun
  <2>2. Quiet(m, m)
    BY DEF Quiet
  <2> HIDE DEF Out, N
  <2> QED
    BY <2>1, <2>2
<1>5. ASSUME NEW k \in S, k < N PROVE k + 1 \in S
  <2> DEFINE ref == <<t, k + 1>>
  <2>1. k \in 0..N /\ k + 1 \in 0..N /\ k + 1 \in 1..N /\ Good(k)
    <3> HIDE DEF Good
    <3> QED
      BY <1>1, <1>5
  <2>2. f[k + 1] = RemoveOutput(f[k], d, ref, d.tx[t])
    BY <1>2, <1>5, <2>1 DEF RemovedRun
  <2>3. Out(k + 1) = Out(k) \cup {ref}
    BY <2>1
  <2>4. /\ ref \in R /\ ref \notin I /\ (Addressed(ref) => Payee(ref) \in DOMAIN d.address)
        /\ ref[1] = t
    <3>1. ref \in OutputsOf({t})
      BY <1>1, <2>1
    <3>2. ref[1] = t
      OBVIOUS
    <3> HIDE DEF ref
    <3> QED
      BY <3>1, <3>2
  <2>5. Out(k) \in SUBSET R
    <3>1. \A i \in 1..k : i \in 1..N
      BY <1>1, <2>1
    <3> HIDE DEF N
    <3>2. \A i \in 1..k : <<t, i>> \in R
      BY <1>1, <3>1
    <3> QED
      BY <3>2
  <2>6. IsMem(f[k])
    BY <2>1 DEF Quiet
  <2> HIDE DEF ref, Out, N
  <2>7. /\ Quiet(f[k], f[k + 1]) /\ f[k + 1].ops.tx = f[k].ops.tx
        /\ f[k + 1].failed = f[k].failed
        /\ Taken(f[k], d, I, Out(k)) => Taken(f[k + 1], d, I, Out(k) \cup {ref})
    <3> DEFINE g == f[k]
               O == Out(k)
    <3>1. O \in SUBSET R /\ IsMem(g) /\ f[k + 1] = RemoveOutput(g, d, ref, d.tx[ref[1]])
      BY <2>2, <2>4, <2>5, <2>6
    <3> HIDE DEF Good, S, g, O
    <3>2. LET n == RemoveOutput(g, d, ref, d.tx[ref[1]])
          IN  /\ Quiet(g, n) /\ n.ops.tx = g.ops.tx /\ n.failed = g.failed
              /\ Taken(g, d, I, O) => Taken(n, d, I, O \cup {ref})
      BY <2>4, <3>1, RemoveOutputTakes
    <3> QED
      BY <3>1, <3>2 DEF g, O
  <2>8. Quiet(m, f[k + 1])
    BY <2>1, <2>7, QuietOn
  <2> QED
    BY <2>1, <2>3, <2>7, <2>8
<1>6. S = 0..N
  <2>1. S \in SUBSET (0..N)
    OBVIOUS
  <2>2. N \in Nat
    BY <1>1
  <2> HIDE DEF S, N, Good
  <2>3. \A k \in S : k < N => k + 1 \in S
    BY <1>5
  <2> QED
    BY <1>4, <2>1, <2>2, <2>3, UpTo
<1>7. Good(N)
  <2>1. N \in 0..N
    BY <1>1
  <2> HIDE DEF N, Good
  <2> QED
    BY <1>6, <2>1
<1> HIDE DEF Out, N
<1> QED
  BY <1>2, <1>3, <1>7

\* One transaction of removeBlock.
LEMMA RemoveTxTakes ==
    ASSUME NEW m, NEW d, IsMem(m), m.seenTx = EmptyTable, m.seenUtxo = EmptyTable,
           NEW R, OneKey(d.tx, R), NEW I \in SUBSET R, NEW T, OutputsOf(T) \in SUBSET R,
           NEW t \in Txs, t \in DOMAIN d.tx, d.tx[t] \in Nat,
           \A ref \in ToSet(Ins[t]) : ref \in R /\ ref \notin OutputsOf(T) /\ ref[1] \in DOMAIN d.tx,
           \A ref \in OutputsOf({t}) :
              /\ ref \in R /\ ref \notin I \cup ToSet(Ins[t])
              /\ Addressed(ref) => Payee(ref) \in DOMAIN d.address
    PROVE  LET n == RemoveTx(m, d, t)
           IN  /\ Quiet(m, n) /\ n.ops.tx = With(m.ops.tx, t, Deleted)
               /\ m.failed => n.failed
               /\ Taken(m, d, I, OutputsOf(T)) =>
                     n.failed \/ Taken(n, d, I \cup ToSet(Ins[t]), OutputsOf(T \cup {t}))
<1> DEFINE s == GetTxSymbol(m, d, t)
           back == RevalidateInputs(m, d, t)
           gone == RemoveOutputs(back, d, t, d.tx[t])
           n == RemoveTx(m, d, t)
           J == I \cup ToSet(Ins[t])
<1>1. \A u \in DOMAIN d.tx : GetTxSymbol(m, d, u) = d.tx[u]
  BY EmptyTableIsEmpty DEF GetTxSymbol
<1>2. s = d.tx[t] /\ s # NoSymbol
  BY <1>1 DEF NoSymbol
<1>3. n = [gone EXCEPT !.ops.tx = With(@, t, Deleted)]
  <2>1. n = [RemoveOutputs(back, d, t, s) EXCEPT !.ops.tx = With(@, t, Deleted)]
    BY <1>2, Zenon DEF RemoveTx
  <2> QED
    BY <1>2, <2>1
<1> HIDE DEF s, back, gone, n
<1>4. /\ Quiet(m, back) /\ back.ops.tx = m.ops.tx
      /\ m.failed => back.failed
      /\ Taken(m, d, I, OutputsOf(T)) => back.failed \/ Taken(back, d, J, OutputsOf(T))
  <2>1. \A ref \in ToSet(Ins[t]) :
           ref \in R /\ ref \notin OutputsOf(T) /\ GetTxSymbol(m, d, ref[1]) = d.tx[ref[1]]
    BY <1>1
  <2> QED
    BY <2>1, RevalidatedTakes DEF back
<1>5. IsMem(back) /\ J \in SUBSET R
  BY <1>4 DEF Quiet
<1> HIDE DEF J
<1>6. /\ Quiet(back, gone) /\ gone.ops.tx = back.ops.tx /\ gone.failed = back.failed
      /\ Taken(back, d, J, OutputsOf(T)) => Taken(gone, d, J, OutputsOf(T \cup {t}))
  <2>1. \A ref \in OutputsOf({t}) :
           ref \in R /\ ref \notin J /\ (Addressed(ref) => Payee(ref) \in DOMAIN d.address)
    BY DEF J
  <2> QED
    BY <1>5, <2>1, RemovedTakes DEF gone
<1>7. /\ n.failed = gone.failed /\ Quiet(gone, n) /\ n.ops.utxo = gone.ops.utxo
      /\ n.ops.tx = With(gone.ops.tx, t, Deleted)
  BY <1>3, <1>6 DEF IsMem, Quiet
<1>8. Quiet(m, n)
  BY <1>4, <1>6, <1>7, QuietOn
<1>9. Taken(gone, d, J, OutputsOf(T \cup {t})) => Taken(n, d, J, OutputsOf(T \cup {t}))
  BY <1>7 DEF Taken
<1> QED
  BY <1>4, <1>6, <1>7, <1>8, <1>9 DEF n, J

\* No transaction of a block spends what another one of the block makes.
SpendsOlder(b) ==
    \A t \in ToSet(TxsOf[b]) : \A ref \in ToSet(Ins[t]) : ref[1] \notin ToSet(TxsOf[b])

SpentBy(T) == UNION {ToSet(Ins[t]) : t \in T}

\* removeBlock puts back what its transactions spend and deletes what they make.
LEMMA RemoveBlockTakes ==
    ASSUME NEW m, NEW d, IsMem(m), NEW b \in Blocks, NoNames(m), m.seenTx = m.ops.tx, NEW last,
           TxNames(d.tx, d.txid, last, b), SpendsOlder(b),
           \A ref \in OutputsOf(Mined(b)) : Addressed(ref) => Payee(ref) \in DOMAIN d.address,
           m.ops.utxo = EmptyTable, m.seenUtxo = EmptyTable
    PROVE  LET n == RemoveBlock(m, d, b)
               B == ToSet(TxsOf[b])
           IN  /\ Quiet(m, n) /\ DOMAIN n.ops.tx \subseteq B
               /\ n.failed \/ Taken(n, d, SpentBy(B), OutputsOf(B))
<1> DEFINE N == Len(TxsOf[b])
           R == OutputsOf(Mined(b))
           B == ToSet(TxsOf[b])
           n == RemoveBlock(m, d, b)
<1>1. /\ N \in Nat /\ N \in 0..N /\ 0 \in 0..N /\ B = First(b, N) /\ First(b, 0) = {}
      /\ \A i \in 1..N : TxsOf[b][i] \in Txs /\ TxsOf[b][i] \in B
  <2>1. \A i \in 1..N : TxsOf[b][i] \in First(b, N)
    BY DEF First
  <2> QED
    BY <2>1, FirstAll
<1>2. Mined(b) = Mined(Parent[b]) \cup B
  BY MinedSplit
<1>3. /\ DOMAIN d.tx = Mined(b)
      /\ \A t \in Mined(b) : d.tx[t] \in Nat /\ d.txid[d.tx[t]] = t
  BY DEF TxNames
<1>4. OneKey(d.tx, R)
  BY <1>3, OwnKeys
<1>5. b \in BlockOrNone /\ Closed(Mined(b))
  BY MinedClosed DEF BlockOrNone
<1>6. ASSUME NEW t \in B, NEW ref \in ToSet(Ins[t]) PROVE ref \in R /\ ref \notin OutputsOf(B)
  <2>1. t \in Txs
    BY <1>1 DEF First
  <2>2. ref \in OutputRefs
    BY <2>1, UtxoIndexerAssumption DEF UtxoIndexerAssumption, ToSet
  <2>3. ref[1] \in Mined(b) /\ ref[1] \notin B
    BY <1>2, <1>5 DEF Closed, SpendsOlder
  <2> QED
    BY <2>2, <2>3 DEF OutputsOf
<1>7. PICK f : UndoneRun(f, m, d, b) /\ n = Unnamed(f[N], m, d, b)
  BY <1>1, UndoneUnfolds
<1> DEFINE Good(k) == /\ Quiet(m, f[k]) /\ DOMAIN f[k].ops.tx \subseteq B
                      /\ f[k].failed \/ Taken(f[k], d, SpentBy(First(b, k)), OutputsOf(First(b, k)))
           S == {k \in 0..N : Good(k)}
<1>8. 0 \in S
  <2>1. f[0] = m /\ 0 \in 0..N /\ SpentBy(First(b, 0)) = {} /\ OutputsOf(First(b, 0)) = {}
    BY <1>1, <1>7 DEF UndoneRun, SpentBy, OutputsOf
  <2>2. Quiet(m, m) /\ DOMAIN m.ops.tx = {}
    BY EmptyTableIsEmpty DEF Quiet, NoNames
  <2>3. Taken(m, d, {}, {})
    BY EmptyTableIsEmpty DEF Taken
  <2> HIDE DEF N
  <2> QED
    BY <2>1, <2>2, <2>3
<1>9. ASSUME NEW k \in S, k < N PROVE k + 1 \in S
  <2> DEFINE t == TxsOf[b][k + 1]
             T == First(b, k)
             g == f[k]
             I == SpentBy(T)
  <2>1. k \in 0..N /\ k + 1 \in 0..N /\ k + 1 \in 1..N /\ Good(k)
    <3> HIDE DEF Good
    <3> QED
      BY <1>1, <1>9
  <2>2. f[k + 1] = RemoveTx(g, d, t)
    BY <1>7, <1>9, <2>1 DEF UndoneRun
  <2>3. t \in Txs /\ t \in B /\ t \in DOMAIN d.tx /\ d.tx[t] \in Nat
    BY <1>1, <1>2, <1>3, <2>1
  <2>4. First(b, k + 1) = T \cup {t}
    BY <2>1 DEF First
  <2>5. T \in SUBSET B
    <3>1. \A i \in 1..k : i \in 1..N
      BY <1>1, <2>1
    <3> HIDE DEF N, B
    <3> QED
      BY <1>1, <3>1 DEF First
  <2>6. SpentBy(T \cup {t}) = I \cup ToSet(Ins[t])
    BY DEF SpentBy
  <2>7. IsMem(g) /\ g.seenTx = EmptyTable /\ g.seenUtxo = EmptyTable
    BY <2>1 DEF Quiet, NoNames
  <2>8. DOMAIN g.ops.tx \subseteq B /\ Quiet(m, g) /\ (g.failed \/ Taken(g, d, I, OutputsOf(T)))
    BY <2>1
  <2> HIDE DEF t, T, I, g, N, B, Good, S
  <2>9. I \in SUBSET R
    BY <1>6, <2>5 DEF SpentBy, I
  <2>10. OutputsOf(T) \in SUBSET R
    BY <1>2, <2>5 DEF OutputsOf
  <2>11. \A ref \in ToSet(Ins[t]) : ref \in R /\ ref \notin OutputsOf(T) /\ ref[1] \in DOMAIN d.tx
    BY <1>3, <1>6, <2>3, <2>5 DEF OutputsOf
  <2>12. \A ref \in OutputsOf({t}) :
            /\ ref \in R /\ ref \notin I \cup ToSet(Ins[t])
            /\ Addressed(ref) => Payee(ref) \in DOMAIN d.address
    <3> SUFFICES ASSUME NEW ref \in OutputsOf({t})
                 PROVE  /\ ref \in R /\ ref \notin I \cup ToSet(Ins[t])
                        /\ Addressed(ref) => Payee(ref) \in DOMAIN d.address
      OBVIOUS
    <3>1. ref \in R /\ ref \in OutputsOf(B)
      BY <1>2, <2>3 DEF OutputsOf
    <3>2. ref \notin I \cup ToSet(Ins[t])
      BY <1>6, <2>3, <2>5, <3>1 DEF SpentBy, I
    <3> QED
      BY <3>1, <3>2
  <2> HIDE DEF R
  <2>13. LET o == RemoveTx(g, d, t)
         IN  /\ Quiet(g, o) /\ o.ops.tx = With(g.ops.tx, t, Deleted)
             /\ g.failed => o.failed
             /\ Taken(g, d, I, OutputsOf(T)) =>
                   o.failed \/ Taken(o, d, I \cup ToSet(Ins[t]), OutputsOf(T \cup {t}))
    BY <1>4, <2>3, <2>7, <2>9, <2>10, <2>11, <2>12, RemoveTxTakes
  <2>14. Quiet(m, f[k + 1])
    BY <2>2, <2>8, <2>13, QuietOn
  <2>15. DOMAIN f[k + 1].ops.tx \subseteq B
    BY <2>2, <2>3, <2>8, <2>13 DEF With
  <2>16. \/ f[k + 1].failed
         \/ Taken(f[k + 1], d, SpentBy(First(b, k + 1)), OutputsOf(First(b, k + 1)))
    BY <2>2, <2>4, <2>6, <2>8, <2>13
  <2> QED
    BY <2>1, <2>14, <2>15, <2>16 DEF S, Good
<1>10. S = 0..N
  <2>1. S \in SUBSET (0..N)
    OBVIOUS
  <2>2. N \in Nat
    BY <1>1
  <2> HIDE DEF S, N, Good
  <2>3. \A k \in S : k < N => k + 1 \in S
    BY <1>9
  <2> QED
    BY <1>8, <2>1, <2>2, <2>3, UpTo
<1> DEFINE g == f[N]
<1>11. Quiet(m, g) /\ DOMAIN g.ops.tx \subseteq B /\ (g.failed \/ Taken(g, d, SpentBy(B), OutputsOf(B)))
  <2>1. Good(N)
    <3> HIDE DEF N, Good
    <3> QED
      BY <1>1, <1>10
  <2> HIDE DEF N, B
  <2> QED
    BY <1>1, <2>1
<1> HIDE DEF g, S, Good, N, B, R
<1>12. n = Unnamed(g, m, d, b)
  BY <1>7 DEF g
<1> HIDE DEF n
<1>13. /\ Quiet(g, n) /\ n.ops.tx = g.ops.tx /\ n.ops.utxo = g.ops.utxo /\ n.failed = g.failed
  BY <1>11, <1>12 DEF Quiet, IsMem, Unnamed
<1>14. Quiet(m, n)
  BY <1>11, <1>13, QuietOn
<1>15. n.failed \/ Taken(n, d, SpentBy(B), OutputsOf(B))
  BY <1>11, <1>13 DEF Taken
<1> QED
  BY <1>11, <1>13, <1>14, <1>15 DEF n, B

\* Without a block, what it spent lives on.
LEMMA LivesBack ==
    ASSUME NEW b \in Blocks, NEW tx, NEW tx2, \A t \in Mined(Parent[b]) : tx2[t] = tx[t],
           NEW ref \in OutputsOf(Mined(Parent[b])), NEW old, old = LifeOf(tx, b, Mined(b))[ref],
           NEW new, new = LifeOf(tx2, Parent[b], Mined(Parent[b]))[ref]
    PROVE  IF ref \in SpentBy(ToSet(TxsOf[b]))
           THEN new = [created |-> old.created, by |-> NoSymbol, at |-> NoSymbol]
           ELSE new = old
<1> DEFINE p == Parent[b]
           B == ToSet(TxsOf[b])
<1>1. /\ Mined(b) = Mined(p) \cup B /\ Mined(p) \cap B = {}
      /\ p \in BlockOrNone /\ b \in BlockOrNone /\ ref \in OutputRefs
  BY MinedSplit, ChainEnds DEF BlockOrNone, OutputsOf
<1>2. old = LifeWith(tx, b, ref, Spenders(Mined(b), ref))
  BY <1>1 DEF LifeOf
<1>3. LifeOf(tx2, p, Mined(p)) = LifeOf(tx, p, Mined(p))
  BY LivesSame
<1>4. new = LifeOf(tx, b, Mined(p))[ref]
  BY <1>3, LivesBelow
<1>5. new = LifeWith(tx, b, ref, Spenders(Mined(p), ref))
  BY <1>1, <1>4 DEF LifeOf
<1> HIDE DEF B, p
<1>6. CASE ref \in SpentBy(B)
  <2>1. PICK t \in B : ref \in ToSet(Ins[t])
    BY <1>6 DEF SpentBy
  <2>2. ASSUME NEW u \in Mined(p), ref \in ToSet(Ins[u]) PROVE FALSE
    <3>1. u \in Mined(b) /\ t \in Mined(b)
      BY <1>1
    <3>2. u = t
      BY <1>1, <2>1, <2>2, <3>1, SpentApart
    <3> QED
      BY <1>1, <2>1, <3>2
  <2>3. Spenders(Mined(p), ref) = {}
    BY <2>2 DEF Spenders
  <2>4. new = [created |-> MinedOn(b, ref[1]), by |-> NoSymbol, at |-> NoSymbol]
    BY <1>5, <2>3 DEF LifeWith
  <2>5. old.created = MinedOn(b, ref[1])
    BY <1>2 DEF LifeWith
  <2> QED
    BY <1>6, <2>4, <2>5 DEF B
<1>7. CASE ref \notin SpentBy(B)
  <2>1. Spenders(Mined(b), ref) = Spenders(Mined(p), ref)
    BY <1>1, <1>7 DEF Spenders, SpentBy
  <2> QED
    BY <1>2, <1>5, <1>7, <2>1 DEF B
<1> QED
  BY <1>6, <1>7

\* The record of an output whose life is as if nothing had spent it.
LEMMA FreedRecord ==
    ASSUME NEW s, NEW life, NEW life2, NEW ref, life2[ref].created = life[ref].created,
           life2[ref].by = NoSymbol, life2[ref].at = NoSymbol
    PROVE  Freed(RecordIn(s, life, ref)) = RecordIn(s, life2, ref)
<1> DEFINE spent == RecordIn(s, life, ref)
           freed == Freed(spent)
<1>1. freed = [spent EXCEPT !.spentIn = NoSymbol, !.spentOn = NoSymbol]
  BY DEF Freed
<1>2. /\ DOMAIN spent = {"sats", "address", "createdOn", "spentIn", "spentOn"}
      /\ spent.sats = Outs[ref[1]][ref[2]].sats /\ spent.address = s
      /\ spent.createdOn = life[ref].created
  BY DEF RecordIn
<1> HIDE DEF spent, freed
<1>3. freed = [sats |-> spent.sats, address |-> spent.address, createdOn |-> spent.createdOn,
               spentIn |-> NoSymbol, spentOn |-> NoSymbol]
  BY <1>1, <1>2
<1>4. freed = RecordIn(s, life2, ref)
  BY <1>2, <1>3 DEF RecordIn
<1> QED
  BY <1>4 DEF freed, spent

\* What waits after removeBlock makes the table that of the parent.
LEMMA TakenExact ==
    ASSUME NEW m, NEW d, NEW b \in Blocks, NEW last, TxNames(d.tx, d.txid, last, b), Readies(d),
           ExactTable(d.utxo, d.tx, d.address, b), SpendsOlder(b),
           Taken(m, d, SpentBy(ToSet(TxsOf[b])), OutputsOf(ToSet(TxsOf[b]))),
           DOMAIN m.ops.tx \subseteq ToSet(TxsOf[b]), DOMAIN m.ops.address \cap DOMAIN d.address = {}
    PROVE  ExactTable(Apply(m.ops.utxo, d.utxo), Apply(m.ops.tx, d.tx),
                      Apply(m.ops.address, d.address), Parent[b])
<1> DEFINE p == Parent[b]
           B == ToSet(TxsOf[b])
           R == OutputsOf(Mined(p))
           tx == Apply(m.ops.tx, d.tx)
           utxo == Apply(m.ops.utxo, d.utxo)
           address == Apply(m.ops.address, d.address)
           old == LifeOf(d.tx, b, Mined(b))
           new == LifeOf(tx, p, Mined(p))
<1>1. /\ Mined(b) = Mined(p) \cup B /\ Mined(p) \cap B = {} /\ b \in BlockOrNone
      /\ p \in BlockOrNone /\ Closed(Mined(b))
  BY MinedSplit, ChainEnds, MinedClosed DEF BlockOrNone
<1>2. /\ DOMAIN d.tx = Mined(b)
      /\ \A t \in Mined(b) : d.tx[t] \in Nat /\ d.txid[d.tx[t]] = t
  BY DEF TxNames
<1>3. OneKey(d.tx, OutputsOf(Mined(b)))
  BY <1>2, OwnKeys
<1>4. \A t \in Mined(p) : tx[t] = d.tx[t]
  <2> SUFFICES ASSUME NEW t \in Mined(p) PROVE tx[t] = d.tx[t]
    OBVIOUS
  <2>1. t \in DOMAIN d.tx /\ t \notin DOMAIN m.ops.tx
    BY <1>1, <1>2
  <2> QED
    BY <2>1, ApplyTable
<1>5. \A a \in DOMAIN d.address : a \in DOMAIN address /\ address[a] = d.address[a]
  <2> SUFFICES ASSUME NEW a \in DOMAIN d.address PROVE a \in DOMAIN address /\ address[a] = d.address[a]
    OBVIOUS
  <2>1. a \notin DOMAIN m.ops.address
    OBVIOUS
  <2>2. a \in DOMAIN address
    BY <2>1, ApplyTable
  <2> QED
    BY <2>1, <2>2, ApplyTable
<1>6. \A ref \in R : /\ Key(tx, ref) = Key(d.tx, ref) /\ ref \in OutputsOf(Mined(b))
                     /\ ref \notin OutputsOf(B)
  BY <1>1, <1>4 DEF Key, OutputsOf
<1>7. \A ref \in OutputsOf(Mined(b)) : ref \in R \/ ref \in OutputsOf(B)
  BY <1>1 DEF OutputsOf
<1>8. \A ref \in SpentBy(B) : ref \in R
  <2> SUFFICES ASSUME NEW t \in B, NEW ref \in ToSet(Ins[t]) PROVE ref \in R
    BY DEF SpentBy
  <2>1. t \in Txs
    <3>1. TxsOf[b] \in Seq(Txs)
      BY UtxoIndexerAssumption DEF UtxoIndexerAssumption
    <3> QED
      BY <3>1 DEF ToSet
  <2>2. ref \in OutputRefs
    BY <2>1, UtxoIndexerAssumption DEF UtxoIndexerAssumption, ToSet
  <2>3. ref[1] \in Mined(b) /\ ref[1] \notin B
    BY <1>1 DEF Closed, SpendsOlder
  <2> QED
    BY <1>1, <2>2, <2>3 DEF OutputsOf
<1>9. /\ DOMAIN d.utxo = Keys(d.tx, OutputsOf(Mined(b)))
      /\ \A ref \in OutputsOf(Mined(b)) : Addressed(ref) =>
            /\ Payee(ref) \in DOMAIN d.address
            /\ d.utxo[Key(d.tx, ref)] = RecordIn(d.address[Payee(ref)], old, ref)
  BY DEF ExactTable
<1>10. \A ref \in R : IF ref \in SpentBy(B)
                      THEN new[ref] = [created |-> old[ref].created, by |-> NoSymbol, at |-> NoSymbol]
                      ELSE new[ref] = old[ref]
  <2> HIDE DEF tx
  <2> QED
    BY <1>4, LivesBack
<1> HIDE DEF p, B, R, tx, utxo, address, old, new
<1>11. /\ \A ref \in SpentBy(B) :
             /\ Key(d.tx, ref) \in DOMAIN m.ops.utxo \cap DOMAIN d.utxo
             /\ m.ops.utxo[Key(d.tx, ref)] = Freed(d.utxo[Key(d.tx, ref)])
       /\ \A ref \in OutputsOf(B) : /\ Key(d.tx, ref) \in DOMAIN m.ops.utxo
                                    /\ m.ops.utxo[Key(d.tx, ref)] = Deleted
       /\ \A k \in DOMAIN m.ops.utxo : \E ref \in SpentBy(B) \cup OutputsOf(B) : k = Key(d.tx, ref)
  BY DEF Taken, B
<1>12. \A k \in DOMAIN d.utxo : Freed(d.utxo[k]) # Deleted
  BY RecordChanges DEF Readies, Freed
<1>13. \A ref \in SpentBy(B) : Addressed(ref)
  <2> SUFFICES ASSUME NEW ref \in SpentBy(B) PROVE Addressed(ref)
    OBVIOUS
  <2>1. Key(d.tx, ref) \in DOMAIN d.utxo
    BY <1>11
  <2>2. PICK r \in OutputsOf(Mined(b)) : Addressed(r) /\ Key(d.tx, ref) = Key(d.tx, r)
    BY <1>9, <2>1 DEF Keys
  <2>3. ref \in OutputsOf(Mined(b))
    BY <1>6, <1>8
  <2> QED
    BY <1>3, <2>2, <2>3 DEF OneKey
<1>14. ASSUME NEW ref \in R, Addressed(ref)
       PROVE  /\ Key(d.tx, ref) \in DOMAIN utxo
              /\ Payee(ref) \in DOMAIN address
              /\ utxo[Key(d.tx, ref)] = RecordIn(address[Payee(ref)], new, ref)
  <2> DEFINE key == Key(d.tx, ref)
  <2>1. key \in DOMAIN d.utxo
    BY <1>6, <1>9, <1>14 DEF Keys
  <2>2. /\ Payee(ref) \in DOMAIN address
        /\ d.utxo[key] = RecordIn(address[Payee(ref)], old, ref)
    BY <1>5, <1>6, <1>9, <1>14
  <2>3. CASE ref \in SpentBy(B)
    <3>1. key \in DOMAIN m.ops.utxo /\ m.ops.utxo[key] = Freed(d.utxo[key])
      BY <1>11, <2>3
    <3>2. m.ops.utxo[key] # Deleted
      BY <1>12, <2>1, <3>1
    <3> HIDE DEF key
    <3>3. key \in DOMAIN utxo /\ utxo[key] = m.ops.utxo[key]
      BY <3>1, <3>2, ApplyTable DEF utxo
    <3>4. utxo[key] = Freed(RecordIn(address[Payee(ref)], old, ref))
      BY <2>2, <3>1, <3>3
    <3>5. new[ref] = [created |-> old[ref].created, by |-> NoSymbol, at |-> NoSymbol]
      BY <1>10, <2>3
    <3>6. new[ref].created = old[ref].created /\ new[ref].by = NoSymbol /\ new[ref].at = NoSymbol
      BY <3>5
    <3>7. Freed(RecordIn(address[Payee(ref)], old, ref)) = RecordIn(address[Payee(ref)], new, ref)
      BY <3>6, FreedRecord
    <3> QED
      BY <2>2, <3>3, <3>4, <3>7 DEF key
  <2>4. CASE ref \notin SpentBy(B)
    <3>1. key \notin DOMAIN m.ops.utxo
      <4> SUFFICES ASSUME key \in DOMAIN m.ops.utxo PROVE FALSE
        OBVIOUS
      <4>1. PICK r \in SpentBy(B) \cup OutputsOf(B) : key = Key(d.tx, r)
        BY <1>11
      <4>2. r \in OutputsOf(Mined(b)) /\ ref \in OutputsOf(Mined(b))
        BY <1>1, <1>6, <1>8 DEF OutputsOf
      <4>3. r = ref
        BY <1>3, <4>1, <4>2 DEF OneKey
      <4> QED
        BY <1>6, <2>4, <4>1, <4>3
    <3> HIDE DEF key
    <3>2. key \in DOMAIN utxo /\ utxo[key] = d.utxo[key]
      BY <2>1, <3>1, ApplyTable DEF utxo
    <3>3. new[ref] = old[ref]
      BY <1>10, <2>4
    <3>4. RecordIn(address[Payee(ref)], old, ref) = RecordIn(address[Payee(ref)], new, ref)
      BY <3>3 DEF RecordIn
    <3> QED
      BY <2>2, <3>2, <3>4 DEF key
  <2> QED
    BY <2>3, <2>4
<1>15. ASSUME NEW k \in DOMAIN utxo PROVE k \in Keys(tx, R)
  <2>1. CASE k \in DOMAIN m.ops.utxo
    <3>1. m.ops.utxo[k] # Deleted
      BY <1>15, <2>1, ApplyTable DEF utxo
    <3>2. PICK ref \in SpentBy(B) : k = Key(d.tx, ref)
      BY <1>11, <2>1, <3>1
    <3> QED
      BY <1>6, <1>8, <1>13, <3>2 DEF Keys
  <2>2. CASE k \notin DOMAIN m.ops.utxo
    <3>1. k \in DOMAIN d.utxo
      BY <1>15, <2>2, ApplyTable DEF utxo
    <3>2. PICK ref \in OutputsOf(Mined(b)) : Addressed(ref) /\ k = Key(d.tx, ref)
      BY <1>9, <3>1 DEF Keys
    <3>3. ref \in R
      BY <1>7, <1>11, <2>2, <3>2
    <3> QED
      BY <1>6, <3>2, <3>3 DEF Keys
  <2> QED
    BY <2>1, <2>2
<1>16. \A k \in Keys(tx, R) : k \in DOMAIN utxo
  BY <1>6, <1>14 DEF Keys
<1>17. DOMAIN utxo = Keys(tx, R)
  BY <1>15, <1>16
<1>18. ASSUME NEW ref \in R, Addressed(ref)
       PROVE  /\ Payee(ref) \in DOMAIN address
              /\ utxo[Key(tx, ref)] = RecordIn(address[Payee(ref)], new, ref)
  BY <1>6, <1>14, <1>18
<1>19. ExactTable(utxo, tx, address, p)
  BY <1>17, <1>18 DEF ExactTable, R, new
<1> QED
  BY <1>19 DEF utxo, tx, address, p

------------------------------------------------------------------------------
(* Exact records: the inductive invariant *)

\* What waits in memory between blocks makes the exact table.
LEMMA WritingExact ==
    ASSUME NEW m, NEW d, NEW tx, NEW b,
           Writing(m, d, tx, OutputsOf(Mined(b)), LifeOf(tx, b, Mined(b))),
           \A a \in DOMAIN m.ops.address : m.ops.address[a] # Deleted
    PROVE  ExactTable(Apply(m.ops.utxo, d.utxo), tx, Apply(m.ops.address, d.address), b)
<1> DEFINE address == Apply(m.ops.address, d.address)
<1>1. Linked(m, d)
  BY DEF Writing
<1>2. ASSUME NEW a, HasSymbol(m, d, a)
      PROVE  a \in DOMAIN address /\ address[a] = AddressSymbol(m, d, a)
  <2>1. CASE a \in DOMAIN m.seenAddress
    <3>1. a \in DOMAIN m.ops.address /\ m.ops.address[a] = m.seenAddress[a]
      BY <1>1, <2>1 DEF Linked
    <3>2. a \in DOMAIN address
      BY <3>1, ApplyTable
    <3>3. address[a] = m.ops.address[a]
      BY <3>1, <3>2, ApplyTable
    <3> QED
      BY <2>1, <3>1, <3>2, <3>3 DEF AddressSymbol
  <2>2. CASE a \notin DOMAIN m.seenAddress
    <3>1. a \in DOMAIN d.address /\ a \notin DOMAIN m.ops.address
      BY <1>1, <1>2, <2>2 DEF HasSymbol, Linked
    <3>2. a \in DOMAIN address
      BY <3>1, ApplyTable
    <3>3. address[a] = d.address[a]
      BY <3>1, <3>2, ApplyTable
    <3> QED
      BY <2>2, <3>2, <3>3 DEF AddressSymbol
  <2> QED
    BY <2>1, <2>2
<1> HIDE DEF address
<1>3. ExactTable(Apply(m.ops.utxo, d.utxo), tx, address, b)
  BY <1>2 DEF ExactTable, Writing
<1> QED
  BY <1>3 DEF address

\* Memory without operations on records and without caches, behind an exact table.
LEMMA FreshWrites ==
    ASSUME NEW m, NEW d, NEW b, NEW D, NEW V, d.utxo \in [D -> V],
           ExactTable(d.utxo, d.tx, d.address, b), Kept(m), Linked(m, d),
           m.ops.utxo = EmptyTable, m.seenUtxo = EmptyTable, m.seenAddress = EmptyTable
    PROVE  Writing(m, d, d.tx, OutputsOf(Mined(b)), LifeOf(d.tx, b, Mined(b)))
<1>1. Apply(m.ops.utxo, d.utxo) = d.utxo
  BY ApplyNothing
<1>2. \A a \in DOMAIN d.address : HasSymbol(m, d, a) /\ AddressSymbol(m, d, a) = d.address[a]
  BY EmptyTableIsEmpty DEF HasSymbol, AddressSymbol
<1> QED
  BY <1>1, <1>2, EmptyTableIsEmpty DEF Writing, ExactTable

\* No block is taken back, or none spends what it makes.
Ordinary == Removals = 0 \/ \A b \in Blocks : SpendsOlder(b)

\* Then, as long as no client asks for an address too early, the table on disk is exact, the
\* batch in flight makes it so for the chain memory is at, and between blocks what waits in
\* memory does.
TableInv ==
    /\ ExactTable(db.utxo, db.tx, db.address, db.best)
    /\ db.utxo \in [DOMAIN db.utxo -> Records]
    /\ Flushing =>
          /\ ExactTable(Apply(inflight.ops.utxo, db.utxo), Apply(inflight.ops.tx, db.tx),
                        Apply(inflight.ops.address, db.address), best)
          /\ DOMAIN inflight.ops.address \subseteq DOMAIN mem.seenAddress
          /\ DOMAIN mem.ops.address = {}
    /\ pc = "idle" => LET tx == Apply(mem.ops.tx, db.tx)
                      IN  Writing(mem, db, tx, OutputsOf(Mined(best)),
                                  LifeOf(tx, best, Mined(best)))
    /\ pc = "removing" => Linked(mem, db)

\* The invariant holds at the start.
LEMMA TableInvInit == Init /\ Ordinary => TableInv
<1> SUFFICES ASSUME Init, Ordinary PROVE TableInv
  OBVIOUS
<1>1. /\ db.utxo = EmptyTable /\ db.tx = EmptyTable /\ db.address = EmptyTable
      /\ db.best = NoBlock
  BY DEF Init, EmptyDb
<1>2. /\ mem.ops.utxo = EmptyTable /\ mem.ops.tx = EmptyTable /\ mem.seenUtxo = EmptyTable
      /\ mem.ops.address = EmptyTable /\ mem.seenAddress = EmptyTable
  BY DEF Init, MemoryOf, EmptyOps
<1>3. pc = "idle" /\ best = NoBlock
  BY DEF Init
<1>4. OutputsOf(Mined(NoBlock)) = {}
  BY ChainEnds DEF Mined, OutputsOf
<1>5. db.utxo \in [{} -> Records] /\ db.tx \in [{} -> Nat] /\ DOMAIN db.utxo = {}
  BY <1>1, EmptyTableIsEmpty
<1>6. ExactTable(db.utxo, db.tx, db.address, NoBlock)
  BY <1>4, <1>5 DEF ExactTable, Keys
<1>7. Kept(mem) /\ Linked(mem, db)
  BY <1>2, EmptyTableIsEmpty DEF Kept, Linked
<1>8. Writing(mem, db, db.tx, OutputsOf(Mined(best)), LifeOf(db.tx, best, Mined(best)))
  BY <1>2, <1>3, <1>5, <1>6, <1>7, FreshWrites
<1>9. Apply(mem.ops.tx, db.tx) = db.tx
  BY <1>2, <1>5, ApplyNothing
<1> QED
  BY <1>1, <1>3, <1>5, <1>6, <1>8, <1>9 DEF TableInv, Flushing

\* Then a lemma for each action. AddBlock.
LEMMA AddBlockTable ==
    ASSUME FlushInv, BudgetInv, SymbolInv, RecordInv, TableInv, AddBlock PROVE TableInv'
<1>1. PICK b \in Blocks : Parent[b] = best /\ best' = b /\ mem' = SaveBlock(mem, db, b)
  BY DEF AddBlock
<1>2. /\ pc = "idle" /\ pc' = (IF mem'.failed THEN "aborted" ELSE "idle")
      /\ UNCHANGED <<inflight, db>>
  BY DEF AddBlock
<1>3. Sound(mem, db.address) /\ DOMAIN db.utxo \subseteq Nat \X Nat
  BY <1>2, RestingTable DEF SymbolInv, SoundInv, Flushing
<1>4. mem.seenTx = mem.ops.tx /\ mem.ops.tx \in [DOMAIN mem.ops.tx -> Nat]
      /\ Names(mem.ops, mem.lastTx, db, Parent[b])
  BY <1>1, <1>2 DEF SymbolInv, NameInv
<1>5. /\ Readies(db) /\ ~mem.failed
      /\ Saving(mem, db, Apply(mem.ops.tx, db.tx), OutputsOf(Mined(Parent[b])))
  BY <1>1, <1>2 DEF RecordInv
<1>6. Writing(mem, db, Apply(mem.ops.tx, db.tx), OutputsOf(Mined(Parent[b])),
              LifeOf(Apply(mem.ops.tx, db.tx), Parent[b], Mined(Parent[b])))
  BY <1>1, <1>2 DEF TableInv
<1>7. LET n == SaveBlock(mem, db, b)
          tx == Apply(n.ops.tx, db.tx)
      IN  \/ n.failed
          \/ Writing(n, db, tx, OutputsOf(Mined(b)), LifeOf(tx, b, Mined(b)))
  BY <1>3, <1>4, <1>5, <1>6, SaveBlockExact
<1>8. pc' = "idle" => LET tx == Apply(mem'.ops.tx, db'.tx)
                      IN  Writing(mem', db', tx, OutputsOf(Mined(best')),
                                  LifeOf(tx, best', Mined(best')))
  BY <1>1, <1>2, <1>7
<1>9. /\ ExactTable(db.utxo, db.tx, db.address, db.best)
      /\ db.utxo \in [DOMAIN db.utxo -> Records]
  BY DEF TableInv
<1>10. pc' # "removing" /\ ~Flushing'
  BY <1>2 DEF Flushing
<1> QED
  BY <1>2, <1>8, <1>9, <1>10 DEF TableInv

\* Gathering a batch that makes the table exact for the chain of b.
LEMMA FlushBeginsTable ==
    ASSUME NEW m, NEW b, IsMem(m), TableInv, Linked(m, db),
           ExactTable(Apply(m.ops.utxo, db.utxo), Apply(m.ops.tx, db.tx),
                      Apply(m.ops.address, db.address), b),
           best' = b, db' = db, pc' \in {"flush", "removalFlush"},
           inflight' = Gather(b, m, db), mem' = [m EXCEPT !.ops = EmptyOps]
    PROVE  TableInv'
<1>1. /\ inflight'.ops.utxo = m.ops.utxo /\ inflight'.ops.tx = m.ops.tx
      /\ inflight'.ops.address = m.ops.address
  BY GatherParts
<1>2. mem'.ops.address = EmptyTable /\ mem'.seenAddress = m.seenAddress
  BY DEF IsMem, EmptyOps
<1>3. ExactTable(Apply(inflight'.ops.utxo, db'.utxo), Apply(inflight'.ops.tx, db'.tx),
                 Apply(inflight'.ops.address, db'.address), best')
  BY <1>1
<1>4. DOMAIN mem'.ops.address = {}
  BY <1>2, EmptyTableIsEmpty
<1>5. DOMAIN inflight'.ops.address \subseteq DOMAIN mem'.seenAddress
  BY <1>1, <1>2 DEF Linked
<1>6. /\ ExactTable(db.utxo, db.tx, db.address, db.best)
      /\ db.utxo \in [DOMAIN db.utxo -> Records]
  BY DEF TableInv
<1> QED
  BY <1>3, <1>4, <1>5, <1>6 DEF TableInv

\* Flush and StartRemoval.
LEMMA FlushTable ==
    ASSUME FlushInv, BudgetInv, SymbolInv, RecordInv, TableInv, Flush \/ StartRemoval PROVE TableInv'
<1>1. /\ pc = "idle" /\ pc' \in {"flush", "removalFlush"} /\ best' = best /\ db' = db
      /\ inflight' = Gather(best, mem, db) /\ mem' = [mem EXCEPT !.ops = EmptyOps]
     
  BY DEF Flush, StartRemoval, BeginFlush
<1>2. Sound(mem, Apply(inflight.ops.address, db.address)) /\ IsMem(mem)
  BY <1>1 DEF SymbolInv, SoundInv, Sound
<1>3. Writing(mem, db, Apply(mem.ops.tx, db.tx), OutputsOf(Mined(best)),
              LifeOf(Apply(mem.ops.tx, db.tx), best, Mined(best)))
  BY <1>1 DEF TableInv
<1>4. \A a \in DOMAIN mem.ops.address : mem.ops.address[a] # Deleted
  <2>1. mem.ops.address \in [DOMAIN mem.ops.address -> Nat]
    BY <1>2 DEF Sound
  <2> QED
    BY <2>1, UtxoIndexerAssumption DEF UtxoIndexerAssumption
<1>5. ExactTable(Apply(mem.ops.utxo, db.utxo), Apply(mem.ops.tx, db.tx),
                 Apply(mem.ops.address, db.address), best)
  BY <1>3, <1>4, WritingExact
<1>6. Linked(mem, db)
  BY <1>3 DEF Writing
<1> QED
  BY <1>1, <1>2, <1>5, <1>6, FlushBeginsTable

\* What is on disk after the batch in flight is written.
LEMMA WrittenTable ==
    ASSUME FlushInv, SymbolInv, RecordInv, TableInv, Flushing
    PROVE  LET d == Written(db, inflight)
           IN  /\ ExactTable(d.utxo, d.tx, d.address, d.best)
               /\ d.utxo \in [DOMAIN d.utxo -> Records]
               /\ \A a \in DOMAIN d.address : a \in DOMAIN db.address \cup DOMAIN inflight.ops.address
<1> DEFINE d == Written(db, inflight)
<1>1. d.best = best /\ Readies(d)
  BY WrittenNamed, WrittenRecords
<1>2. /\ d.utxo = Apply(inflight.ops.utxo, db.utxo) /\ d.tx = Apply(inflight.ops.tx, db.tx)
      /\ d.address = Apply(inflight.ops.address, db.address)
  BY DEF Written
<1> HIDE DEF d
<1>3. ExactTable(d.utxo, d.tx, d.address, d.best)
  BY <1>1, <1>2 DEF TableInv
<1>4. d.utxo \in [DOMAIN d.utxo -> Records]
  <2>1. \A k \in DOMAIN Apply(inflight.ops.utxo, db.utxo) :
           Apply(inflight.ops.utxo, db.utxo)[k] \in Records
    BY <1>1, <1>2 DEF Readies
  <2> QED
    BY <1>2, <2>1, ApplyType
<1>5. \A a \in DOMAIN d.address : a \in DOMAIN db.address \cup DOMAIN inflight.ops.address
  BY <1>2, ApplyTable
<1> QED
  BY <1>3, <1>4, <1>5 DEF d

\* FlushEnds.
LEMMA FlushEndsTable ==
    ASSUME FlushInv, BudgetInv, SymbolInv, RecordInv, TableInv, FlushEnds PROVE TableInv'
<1>1. /\ Flushing /\ pc \in {"flush", "removalFlush"} /\ pc' \in {"idle", "removing"}
      /\ best' = best /\ db' = Written(db, inflight)
      /\ mem' = [mem EXCEPT !.seenBlock = EmptyTable, !.seenTx = EmptyTable,
                            !.seenAddress = EmptyTable, !.seenUtxo = EmptyTable,
                            !.added = EmptyTable]
  BY DEF FlushEnds, Flushing
<1>2. /\ db'.best = best /\ TxNames(db'.tx, db'.txid, db'.lastTx, best)
  BY <1>1, WrittenNamed
<1>3. /\ ExactTable(db'.utxo, db'.tx, db'.address, best)
      /\ db'.utxo \in [DOMAIN db'.utxo -> Records]
      /\ \A a \in DOMAIN db'.address : a \in DOMAIN db.address \cup DOMAIN inflight.ops.address
  BY <1>1, <1>2, WrittenTable
<1>4. IsMem(mem)
  BY <1>1 DEF SymbolInv, SoundInv, Sound
<1>5. mem.ops.tx = EmptyTable /\ mem.ops.utxo = EmptyTable
  BY <1>1 DEF SymbolInv, NameInv, NoNames, RecordInv
<1>6. mem'.ops = mem.ops /\ mem'.seenUtxo = EmptyTable /\ mem'.seenAddress = EmptyTable
  BY <1>1, <1>4 DEF IsMem
<1>7. Kept(mem')
  BY <1>5, <1>6, EmptyTableIsEmpty DEF Kept
<1>8. Linked(mem', db')
  <2>1. DOMAIN mem.ops.address = {}
    BY <1>1 DEF TableInv
  <2> QED
    BY <1>1, <1>3, <1>6, <2>1, EmptyTableIsEmpty DEF Linked
<1>9. Apply(mem'.ops.tx, db'.tx) = db'.tx
  BY <1>2, <1>5, <1>6, ApplyNothing DEF TxNames
<1>10. Writing(mem', db', db'.tx, OutputsOf(Mined(best)), LifeOf(db'.tx, best, Mined(best)))
  BY <1>3, <1>5, <1>6, <1>7, <1>8, FreshWrites
<1>11. ~Flushing'
  BY <1>1 DEF TableInv, Flushing
<1> QED
  BY <1>1, <1>2, <1>3, <1>8, <1>9, <1>10, <1>11 DEF TableInv

\* RemoveBest.
LEMMA RemoveBestTable ==
    ASSUME Ordinary, FlushInv, BudgetInv, SymbolInv, RecordInv, TableInv, RemoveBest PROVE TableInv'
<1> DEFINE m == RemoveBlock(mem, db, best)
<1>1. /\ pc = "removing" /\ best \in Blocks /\ db' = db /\ db.best = best
     
  BY DEF RemoveBest, FlushInv, BlockOrNone
<1>2. IsMem(mem)
  BY <1>1 DEF SymbolInv, SoundInv, Sound
<1>3. /\ NoNames(mem) /\ mem.seenTx = mem.ops.tx
      /\ TxNames(db.tx, db.txid, db.lastTx, best)
  BY <1>1 DEF SymbolInv, NameInv
<1>4. /\ Readies(db) /\ mem.ops.utxo = EmptyTable /\ mem.seenUtxo = EmptyTable
  BY <1>1 DEF RecordInv
<1>5. /\ ExactTable(db.utxo, db.tx, db.address, best)
      /\ db.utxo \in [DOMAIN db.utxo -> Records]
      /\ Linked(mem, db)
  BY <1>1 DEF TableInv
<1>6. SpendsOlder(best)
  BY <1>1 DEF Ordinary, RemoveBest, BudgetInv
<1>7. LET n == RemoveBlock(mem, db, best)
          B == ToSet(TxsOf[best])
      IN  /\ Quiet(mem, n) /\ DOMAIN n.ops.tx \subseteq B
          /\ n.failed \/ Taken(n, db, SpentBy(B), OutputsOf(B))
  <2>1. \A ref \in OutputsOf(Mined(best)) : Addressed(ref) => Payee(ref) \in DOMAIN db.address
    BY <1>5 DEF ExactTable
  <2> QED
    BY <1>1, <1>2, <1>3, <1>4, <1>6, <2>1, RemoveBlockTakes
<1> HIDE DEF m
<1>8. /\ Quiet(mem, m) /\ DOMAIN m.ops.tx \subseteq ToSet(TxsOf[best])
      /\ m.failed \/ Taken(m, db, SpentBy(ToSet(TxsOf[best])), OutputsOf(ToSet(TxsOf[best])))
  BY <1>7 DEF m
<1>9. Linked(m, db) /\ IsMem(m)
  BY <1>5, <1>8 DEF Linked, Quiet
<1>10. CASE m.failed
  <2>1. mem' = m /\ pc' = "aborted" /\ best' = best
    BY <1>10 DEF RemoveBest, m
  <2> QED
    BY <1>1, <1>5, <2>1 DEF TableInv, Flushing
<1>11. CASE ~m.failed
  <2>1. /\ best' = Parent[best] /\ pc' = "flush"
        /\ inflight' = Gather(Parent[best], m, db) /\ mem' = [m EXCEPT !.ops = EmptyOps]
    BY <1>11 DEF RemoveBest, BeginFlush, m
  <2>2. DOMAIN m.ops.address \cap DOMAIN db.address = {}
    BY <1>9 DEF Linked
  <2>3. ExactTable(Apply(m.ops.utxo, db.utxo), Apply(m.ops.tx, db.tx),
                   Apply(m.ops.address, db.address), Parent[best])
    BY <1>1, <1>3, <1>4, <1>5, <1>6, <1>8, <1>11, <2>2, TakenExact
  <2> QED
    BY <1>1, <1>9, <2>1, <2>3, FlushBeginsTable
<1> QED
  BY <1>10, <1>11

\* Restart.
LEMMA RestartsTable ==
    ASSUME FlushInv, BudgetInv, SymbolInv, RecordInv, TableInv, Restart PROVE TableInv'
<1>1. db' = db \/ (db' = Written(db, inflight) /\ Flushing)
  BY DEF Restart, Flushing
<1>2. /\ ExactTable(db'.utxo, db'.tx, db'.address, db'.best)
      /\ db'.utxo \in [DOMAIN db'.utxo -> Records]
      /\ TxNames(db'.tx, db'.txid, db'.lastTx, db'.best)
  <2>1. CASE db' = db
    BY <2>1 DEF SymbolInv, NameInv, TableInv
  <2>2. CASE db' = Written(db, inflight) /\ Flushing
    BY <2>2, WrittenNamed, WrittenTable
  <2> QED
    BY <1>1, <2>1, <2>2
<1>3. /\ best' = db'.best /\ mem' = MemoryOf(db') /\ pc' = "idle"
  BY DEF Restart
<1>4. /\ mem'.ops.utxo = EmptyTable /\ mem'.ops.tx = EmptyTable /\ mem'.seenUtxo = EmptyTable
      /\ mem'.seenAddress = EmptyTable /\ mem'.ops.address = EmptyTable
  BY <1>3 DEF MemoryOf, EmptyOps
<1>5. Kept(mem') /\ Linked(mem', db')
  BY <1>4, EmptyTableIsEmpty DEF Kept, Linked
<1>6. Apply(mem'.ops.tx, db'.tx) = db'.tx
  BY <1>2, <1>4, ApplyNothing DEF TxNames
<1>7. Writing(mem', db', db'.tx, OutputsOf(Mined(best')), LifeOf(db'.tx, best', Mined(best')))
  BY <1>2, <1>3, <1>4, <1>5, FreshWrites
<1> QED
  BY <1>2, <1>3, <1>6, <1>7 DEF TableInv, Flushing

\* So every step preserves it.
LEMMA TableInvNext ==
    Ordinary /\ AllInv /\ RecordInv /\ TableInv /\ [Next]_vars /\ ~Query => TableInv'
<1> SUFFICES ASSUME Ordinary, FlushInv, BudgetInv, SymbolInv, RecordInv, TableInv, [Next]_vars,
                    ~Query
             PROVE  TableInv'
  BY DEF AllInv
<1>1. CASE UNCHANGED vars
  BY <1>1 DEF vars, TableInv, Flushing
<1> QED
  BY <1>1, AddBlockTable, FlushTable, FlushEndsTable, RemoveBestTable, RestartsTable
     DEF Next

\* The table as ExactTable has it, output by output, is the table the property defines.
LEMMA ExactIsTable ==
    ASSUME NoEarly => TableInv, TxNames(db.tx, db.txid, db.lastTx, db.best) PROVE UtxoTableExact
<1> SUFFICES ASSUME NoEarly
             PROVE  db.utxo = [key \in {<<db.tx[ref[1]], ref[2]>> :
                                           ref \in UNION {Owned(db.best, a) : a \in Addresses}} |->
                                 RecordOf(db, db.best, <<db.txid[key[1]], key[2]>>)]
  BY DEF UtxoTableExact
<1> DEFINE b == db.best
           R == OutputsOf(Mined(b))
           owned == UNION {Owned(b, a) : a \in Addresses}
           keys == {<<db.tx[ref[1]], ref[2]>> : ref \in owned}
           life == LifeOf(db.tx, b, Mined(b))
<1>1. /\ db.utxo \in [DOMAIN db.utxo -> Records] /\ DOMAIN db.utxo = Keys(db.tx, R)
      /\ \A ref \in R : Addressed(ref) =>
            db.utxo[Key(db.tx, ref)] = RecordIn(db.address[Payee(ref)], life, ref)
  BY DEF TableInv, ExactTable
<1>2. owned = {ref \in R : Addressed(ref)}
  <2>1. ASSUME NEW ref \in owned PROVE ref \in R /\ Addressed(ref)
    BY <2>1, UtxoIndexerAssumption DEF UtxoIndexerAssumption, Owned, OutputsOf, Addressed
  <2>2. ASSUME NEW ref \in R, Addressed(ref) PROVE ref \in owned
    <3>1. ref \in OutputRefs /\ ref[1] \in Mined(b)
      BY <2>2 DEF OutputsOf
    <3>2. Payee(ref) \in Addresses
      BY <2>2, <3>1, RefType DEF Addressed, Payee
    <3>3. ref \in Owned(b, Payee(ref))
      BY <3>1 DEF Owned, Payee
    <3> QED
      BY <3>2, <3>3
  <2> QED
    BY <2>1, <2>2
<1>3. keys = Keys(db.tx, R)
  BY <1>2 DEF Keys, Key
<1>4. \A t \in Mined(b) : db.txid[db.tx[t]] = t
  BY DEF TxNames
<1> HIDE DEF b, R, owned, keys, life
<1>5. ASSUME NEW key \in keys PROVE db.utxo[key] = RecordOf(db, b, <<db.txid[key[1]], key[2]>>)
  <2>1. PICK ref \in R : Addressed(ref) /\ key = Key(db.tx, ref)
    BY <1>3, <1>5 DEF Keys
  <2>2. ref \in OutputRefs /\ ref[1] \in Mined(b) /\ ref = <<ref[1], ref[2]>>
    BY RefType DEF R, OutputsOf
  <2>3. <<db.txid[key[1]], key[2]>> = ref
    <3>1. key[1] = db.tx[ref[1]] /\ key[2] = ref[2]
      BY <2>1 DEF Key
    <3> QED
      BY <1>4, <2>2, <3>1
  <2>4. life[ref] = LifeWith(db.tx, b, ref, Spenders(Mined(b), ref))
    BY <2>2 DEF life, LifeOf
  <2> DEFINE S == Spenders(Mined(b), ref)
             last == CHOOSE t \in S : TRUE
  <2>5. /\ life[ref].created = MinedOn(b, ref[1])
        /\ life[ref].by = (IF S = {} THEN NoSymbol ELSE db.tx[last])
        /\ life[ref].at = (IF S = {} THEN NoSymbol ELSE MinedOn(b, last))
    <3> HIDE DEF S
    <3> QED
      BY <2>4 DEF LifeWith, S
  <2>6. RecordIn(db.address[Payee(ref)], life, ref) = RecordOf(db, b, ref)
    BY <2>5, Zenon DEF RecordIn, RecordOf, MinedOn, Spenders, Payee
  <2> QED
    BY <1>1, <2>1, <2>3, <2>6
<1>6. db.utxo = [key \in keys |-> RecordOf(db, b, <<db.txid[key[1]], key[2]>>)]
  BY <1>1, <1>3, <1>5
<1> QED
  BY <1>6 DEF keys, owned, b

\* As long as no client asks for an address before the indexer knows it, and no block is taken
\* back or none spends what it makes, the utxo table is that of the indexed chain: removeBlock
\* undoes what saveBlock did, through every flush, crash and restart, with tx symbols used again
\* by the blocks that follow.
THEOREM RecordsStayExact == Spec => [](Ordinary => UtxoTableExact)
<1>1. Init => AllInv /\ RecordInv /\ (Ordinary /\ NoEarly => TableInv)
  BY FlushInvInit, SafeInvInit, BudgetInvInit, SymbolInvInit, EarlyInvInit, RecordInvInit,
     TableInvInit
     DEF AllInv
<1>2. AllInv /\ RecordInv /\ (Ordinary /\ NoEarly => TableInv) /\ [Next]_vars
         => (AllInv /\ RecordInv /\ (Ordinary /\ NoEarly => TableInv))'
  <2>1. AllInv /\ RecordInv /\ [Next]_vars => (AllInv /\ RecordInv)'
    BY FlushInvNext, SafeInvNext, BudgetInvNext, SymbolInvNext, EarlyInvNext, RecordInvNext
       DEF AllInv
  <2>2. AllInv /\ RecordInv /\ (Ordinary /\ NoEarly => TableInv) /\ [Next]_vars => (Ordinary /\ NoEarly' => TableInv')
    BY TableInvNext, NoEarlyStep DEF AllInv
  <2> QED
    BY <2>1, <2>2 DEF Ordinary, SpendsOlder
<1>3. AllInv /\ (Ordinary /\ NoEarly => TableInv) => (Ordinary => UtxoTableExact)
  BY ExactIsTable DEF AllInv, SymbolInv, NameInv
<1> QED
  BY <1>1, <1>2, <1>3, PTL DEF Spec
==============================================================================
