--------------------------- MODULE UtxoLists_proofs ---------------------------
(* Proofs about the tables of UtxoIndexer that tell who owns what: the types of   *)
(* the values in them, the lists of outputs under address-utxos through additions, *)
(* removals, the batch in flight and restarts, and what the queries make of both:  *)
(* the coins of an address and its balance at each height.                         *)
EXTENDS UtxoRecords_proofs, FiniteSetTheorems

\* What a list has for an output: its tx symbol and its position.
Entries == Seq(Nat \X Nat)

\* The outputs in R that pay address a.
PaidTo(R, a) == {ref \in R : Payee(ref) = a}

\* l has one entry for each output in R that pays a, and no other.
HasEntries(l, tx, R, a) ==
    /\ l \in Entries /\ IsInjective(l)
    /\ ToSet(l) = {Key(tx, ref) : ref \in PaidTo(R, a)}

\* The list that is under a symbol, the list of an address, and what waits for it.
OutsAt(list, s) == IF s \in DOMAIN list THEN list[s].outs ELSE <<>>
OnDisk(d, a) == IF a \in DOMAIN d.address THEN OutsAt(d.list, d.address[a]) ELSE <<>>
Added(m, a) == IF a \in DOMAIN m.added THEN m.added[a] ELSE <<>>

\* Memory while blocks are added: behind the list on disk, the entries that wait for an
\* address make one that has the outputs in R.
Listing(m, d, tx, R) ==
    /\ \A a \in DOMAIN m.added : a \in Addresses /\ HasSymbol(m, d, a)
    /\ \A a \in Addresses : /\ OnDisk(d, a) \in Entries /\ Added(m, a) \in Entries
                            /\ HasEntries(OnDisk(d, a) \o Added(m, a), tx, R, a)

\* What memory holds of blocks, transactions and lists has its type.
Typed(m) ==
    /\ \A h \in DOMAIN m.ops.at : m.ops.at[h] \in Blocks
    /\ \A s \in DOMAIN m.ops.txid : m.ops.txid[s] \in Txs
    /\ \A s \in DOMAIN m.ops.list : m.ops.list[s] \in Lists
    /\ \A b \in DOMAIN m.seenBlock : m.seenBlock[b] \in Nat
    /\ \A t \in DOMAIN m.seenTx : m.seenTx[t] \in Nat
    /\ \A a \in DOMAIN m.added : a \in Addresses /\ m.added[a] \in Entries

------------------------------------------------------------------------------
(* What saveBlock adds to the lists *)

\* From m to n, lists, the block cache and the cache of addresses stay.
ListsStay(m, n) ==
    /\ n.added = m.added /\ n.ops.list = m.ops.list
    /\ n.seenBlock = m.seenBlock /\ n.seenAddress = m.seenAddress

\* Memory with the same lists and names has them as well, and is typed.
LEMMA ListsFrame ==
    ASSUME NEW m, NEW n, ListsStay(m, n)
    PROVE  /\ SameNames(m, n) /\ Typed(m) => Typed(n)
           /\ \A d, tx, R : Listing(m, d, tx, R) => Listing(n, d, tx, R)
  BY DEF ListsStay, SameNames, Typed, Listing, Added, HasSymbol

\* One input leaves the lists alone.
LEMMA InvalidateLeaves ==
    ASSUME NEW m, NEW d, IsMem(m), NEW ref, NEW symbol, NEW height
    PROVE  LET n == InvalidateUtxo(m, d, ref, symbol, height)
           IN  IsMem(n) /\ ListsStay(m, n)
<1> DEFINE n == InvalidateUtxo(m, d, ref, symbol, height)
           key == UtxoKey(m, d, ref)
           spent == [UtxoValue(m, d, ref) EXCEPT !.spentIn = symbol, !.spentOn = height]
           seen == [symbol |-> symbol, value |-> spent]
<1>1. \/ n = [m EXCEPT !.failed = TRUE]
      \/ n = [m EXCEPT !.ops.utxo = With(@, key, spent), !.seenUtxo = With(@, ref, seen)]
  BY Zenon DEF InvalidateUtxo
<1> HIDE DEF n, key, spent, seen
<1>2. CASE n = [m EXCEPT !.failed = TRUE]
  BY <1>2 DEF IsMem, ListsStay, n
<1>3. CASE n = [m EXCEPT !.ops.utxo = With(@, key, spent), !.seenUtxo = With(@, ref, seen)]
  <2>1. IsMem(n) /\ ListsStay(m, n)
    BY <1>3 DEF IsMem, ListsStay
  <2> QED
    BY <2>1 DEF n
<1> QED
  BY <1>1, <1>2, <1>3

\* All inputs do.
LEMMA InputsLeave ==
    ASSUME NEW m, NEW d, IsMem(m), NEW t \in Txs, NEW symbol, NEW height
    PROVE  LET n == BatchTransactionInputs(m, d, t, symbol, height)
           IN  IsMem(n) /\ ListsStay(m, n)
<1> DEFINE N == Len(Ins[t])
<1>1. N \in Nat
  BY UtxoIndexerAssumption DEF UtxoIndexerAssumption
<1>2. PICK f : /\ InputsRun(f, m, d, t, symbol, height)
               /\ BatchTransactionInputs(m, d, t, symbol, height) = f[N]
  BY <1>1, InputsUnfolds
<1> DEFINE S == {k \in 0..N : IsMem(f[k]) /\ ListsStay(m, f[k])}
<1>3. 0 \in S
  BY <1>1, <1>2 DEF InputsRun, ListsStay
<1>4. ASSUME NEW k \in S, k < N PROVE k + 1 \in S
  <2>1. k \in 0..N /\ k + 1 \in 0..N
    BY <1>1, <1>4
  <2>2. f[k + 1] = InvalidateUtxo(f[k], d, Ins[t][k + 1], symbol, height)
    BY <1>2, <1>4, <2>1 DEF InputsRun
  <2>3. IsMem(f[k]) /\ ListsStay(m, f[k])
    OBVIOUS
  <2>4. IsMem(f[k + 1]) /\ ListsStay(f[k], f[k + 1])
    BY <2>2, <2>3, InvalidateLeaves
  <2> QED
    BY <2>1, <2>3, <2>4 DEF ListsStay
<1>5. N \in S
  <2>1. S \in SUBSET (0..N) /\ \A k \in S : k < N => k + 1 \in S
    BY <1>4
  <2> HIDE DEF S, N
  <2> QED
    BY <1>1, <1>3, <2>1, UpTo
<1> QED
  BY <1>2, <1>5

\* One more entry behind a list, for an output that is not on it.
LEMMA OneMoreEntry ==
    ASSUME NEW l, NEW tx, NEW R, NEW a, HasEntries(l, tx, R, a), NEW ref, ref \notin R,
           OneKey(tx, R \cup {ref}), Key(tx, ref) \in Nat \X Nat, Payee(ref) = a
    PROVE  HasEntries(Append(l, Key(tx, ref)), tx, R \cup {ref}, a)
<1> DEFINE e == Key(tx, ref)
           n == Append(l, e)
<1>1. l \in Entries /\ IsInjective(l) /\ ToSet(l) = {Key(tx, r) : r \in PaidTo(R, a)}
  BY DEF HasEntries
<1>2. /\ n \in Entries /\ Len(l) \in Nat /\ Len(n) = Len(l) + 1
      /\ DOMAIN l = 1..Len(l) /\ DOMAIN n = 1..Len(l) + 1
      /\ n[Len(l) + 1] = e /\ \A i \in 1..Len(l) : n[i] = l[i]
  BY <1>1 DEF Entries
<1>3. e \notin ToSet(l)
  BY <1>1 DEF OneKey, PaidTo
<1> HIDE DEF e, n
<1>4. IsInjective(n)
  <2>1. \A i \in 1..Len(l) : n[i] # e
    BY <1>2, <1>3 DEF ToSet
  <2> QED
    BY <1>1, <1>2, <2>1 DEF IsInjective
<1>5. ToSet(n) = ToSet(l) \cup {e}
  BY <1>2 DEF ToSet
<1>6. {Key(tx, r) : r \in PaidTo(R \cup {ref}, a)} = {Key(tx, r) : r \in PaidTo(R, a)} \cup {e}
  BY DEF PaidTo, e
<1>7. HasEntries(n, tx, R \cup {ref}, a)
  BY <1>1, <1>2, <1>4, <1>5, <1>6 DEF HasEntries
<1> QED
  BY <1>7 DEF n, e

\* An output that pays another address changes nothing about a list.
LEMMA OtherEntry ==
    ASSUME NEW l, NEW tx, NEW R, NEW a, HasEntries(l, tx, R, a), NEW ref, Payee(ref) # a
    PROVE  HasEntries(l, tx, R \cup {ref}, a)
  BY DEF HasEntries, PaidTo

\* Lists depend on the symbols of the transactions that made the outputs.
LEMMA SameEntries ==
    ASSUME NEW l, NEW tx, NEW tx2, NEW R, NEW a, HasEntries(l, tx, R, a),
           \A ref \in R : tx2[ref[1]] = tx[ref[1]]
    PROVE  HasEntries(l, tx2, R, a)
<1>1. \A ref \in PaidTo(R, a) : Key(tx2, ref) = Key(tx, ref)
  BY DEF PaidTo, Key
<1> QED
  BY <1>1 DEF HasEntries

\* Behind a list, an entry behind others is one behind them all.
LEMMA AppendBehind ==
    ASSUME NEW l \in Entries, NEW k \in Entries, NEW e \in Nat \X Nat
    PROVE  l \o Append(k, e) = Append(l \o k, e)
<1>1. /\ Len(l) \in Nat /\ Len(k) \in Nat /\ Append(k, e) \in Entries /\ l \o k \in Entries
      /\ Len(Append(k, e)) = Len(k) + 1 /\ Len(l \o k) = Len(l) + Len(k)
  BY DEF Entries
<1>2. /\ l \o Append(k, e) \in Entries /\ Append(l \o k, e) \in Entries
      /\ Len(l \o Append(k, e)) = Len(Append(l \o k, e))
  BY <1>1 DEF Entries
<1>3. ASSUME NEW i \in 1..Len(l) + Len(k) + 1 PROVE (l \o Append(k, e))[i] = Append(l \o k, e)[i]
  <2>1. CASE i \in 1..Len(l)
    BY <1>1, <2>1 DEF Entries
  <2>2. CASE i \in Len(l) + 1 .. Len(l) + Len(k)
    <3>1. i - Len(l) \in 1..Len(k) /\ i - Len(l) # Len(k) + 1 /\ i # Len(l \o k) + 1
      BY <1>1, <2>2
    <3>2. (l \o Append(k, e))[i] = Append(k, e)[i - Len(l)]
      BY <1>1, <2>2 DEF Entries
    <3>3. Append(k, e)[i - Len(l)] = k[i - Len(l)]
      BY <3>1 DEF Entries
    <3>4. Append(l \o k, e)[i] = (l \o k)[i] /\ (l \o k)[i] = k[i - Len(l)]
      BY <1>1, <2>2, <3>1 DEF Entries
    <3> QED
      BY <3>2, <3>3, <3>4
  <2>3. CASE i = Len(l) + Len(k) + 1
    <3>1. (l \o Append(k, e))[i] = Append(k, e)[Len(k) + 1]
      BY <1>1, <2>3 DEF Entries
    <3>2. Append(k, e)[Len(k) + 1] = e /\ Append(l \o k, e)[Len(l) + Len(k) + 1] = e
      BY <1>1 DEF Entries
    <3> QED
      BY <2>3, <3>1, <3>2
  <2> QED
    BY <1>1, <1>3, <2>1, <2>2, <2>3
<1> QED
  BY <1>1, <1>2, <1>3, SMTT(30) DEF Entries

\* An address that is looked up has a symbol from then on.
LEMMA LookedUp ==
    ASSUME NEW m, NEW d, IsMem(m), NEW a
    PROVE  LET n == WithSymbol(m, d, a)
           IN  /\ IsMem(n) /\ HasSymbol(n, d, a)
               /\ \A x : HasSymbol(m, d, x) => HasSymbol(n, d, x)
               /\ n.added = m.added /\ n.ops.list = m.ops.list /\ n.seenBlock = m.seenBlock
               /\ n.ops.at = m.ops.at /\ n.ops.txid = m.ops.txid /\ n.seenTx = m.seenTx
<1> DEFINE n == WithSymbol(m, d, a)
           s == m.lastAddress + 1
<1>1. CASE HasSymbol(m, d, a)
  <2>1. n = m
    BY <1>1, Zenon DEF WithSymbol
  <2> QED
    BY <1>1, <2>1
<1>2. CASE ~HasSymbol(m, d, a)
  <2>1. n = [m EXCEPT !.lastAddress = s, !.seenAddress = With(@, a, s),
                      !.ops.address = With(@, a, s)]
    BY <1>2, Zenon DEF WithSymbol, NewSymbol
  <2> HIDE DEF n, s
  <2>2. /\ IsMem(n) /\ n.added = m.added /\ n.ops.list = m.ops.list
        /\ n.ops.at = m.ops.at /\ n.ops.txid = m.ops.txid /\ n.seenTx = m.seenTx
        /\ n.seenBlock = m.seenBlock /\ n.seenAddress = With(m.seenAddress, a, s)
    BY <2>1 DEF IsMem
  <2>3. DOMAIN n.seenAddress = DOMAIN m.seenAddress \cup {a}
    BY <2>2 DEF With
  <2>4. HasSymbol(n, d, a) /\ \A x : HasSymbol(m, d, x) => HasSymbol(n, d, x)
    BY <2>3 DEF HasSymbol
  <2> QED
    BY <2>2, <2>4 DEF n
<1> QED
  BY <1>1, <1>2

\* One output with one address is an entry that waits for that address.
LEMMA OutputAdds ==
    ASSUME NEW m, NEW d, IsMem(m), NEW ref, ref \notin DOMAIN m.seenUtxo, NEW symbol, NEW height,
           Addressed(ref)
    PROVE  LET n == BatchOutput(m, d, ref, symbol, height)
               a == Payee(ref)
           IN  /\ n.added = With(m.added, a, Append(Added(m, a), <<symbol, ref[2]>>))
               /\ n.ops.list = m.ops.list /\ n.seenBlock = m.seenBlock
               /\ HasSymbol(n, d, a) /\ \A x : HasSymbol(m, d, x) => HasSymbol(n, d, x)
<1> DEFINE n     == BatchOutput(m, d, ref, symbol, height)
           out   == Outs[ref[1]][ref[2]]
           known == WithSymbol(m, d, out.address)
           record == [sats |-> out.sats, address |-> AddressSymbol(known, d, out.address),
                      createdOn |-> height, spentIn |-> NoSymbol, spentOn |-> NoSymbol]
           entry == <<symbol, ref[2]>>
           added == IF out.address \in DOMAIN m.added THEN m.added[out.address] ELSE <<>>
           seen  == [symbol |-> symbol, value |-> record]
           a     == Payee(ref)
<1>1. a = out.address /\ added = Added(m, a)
  BY DEF Payee, Added
<1>2. out.address # NoAddress
  BY DEF Addressed
<1>3. n = [known EXCEPT !.ops.utxo = With(@, entry, record), !.seenUtxo = With(@, ref, seen),
                        !.added = With(@, out.address, Append(added, entry))]
  BY <1>2, Zenon DEF BatchOutput
<1>4. /\ IsMem(known) /\ HasSymbol(known, d, a)
      /\ \A x : HasSymbol(m, d, x) => HasSymbol(known, d, x)
      /\ known.added = m.added /\ known.ops.list = m.ops.list /\ known.seenBlock = m.seenBlock
  BY <1>1, LookedUp
<1> HIDE DEF n, known, record, entry, added, seen, out, a
<1>5. /\ n.added = With(known.added, out.address, Append(added, entry))
      /\ n.ops.list = known.ops.list /\ n.seenBlock = known.seenBlock
      /\ n.seenAddress = known.seenAddress
  BY <1>3, <1>4 DEF IsMem
<1>6. \A x : HasSymbol(known, d, x) => HasSymbol(n, d, x)
  BY <1>5 DEF HasSymbol
<1>7. /\ n.added = With(m.added, a, Append(Added(m, a), entry))
      /\ n.ops.list = m.ops.list /\ n.seenBlock = m.seenBlock
      /\ HasSymbol(n, d, a) /\ \A x : HasSymbol(m, d, x) => HasSymbol(n, d, x)
  BY <1>1, <1>4, <1>5, <1>6
<1> QED
  BY <1>7 DEF n, a, entry

\* From m to n, the operations on lists stay.
SameListOps(m, n) == n.ops.list = m.ops.list

\* So the lists have it.
LEMMA OutputLists ==
    ASSUME NEW m, NEW d, NEW table, Sound(m, table), NEW R, NEW ref \in OutputRefs, ref \notin R,
           ref \notin DOMAIN m.seenUtxo, NEW tx, tx[ref[1]] \in Nat, NEW height
    PROVE  LET n == BatchOutput(m, d, ref, tx[ref[1]], height)
           IN  /\ SameListOps(m, n)
               /\ Typed(m) => Typed(n)
               /\ Listing(m, d, tx, R) /\ OneKey(tx, R \cup {ref}) => Listing(n, d, tx, R \cup {ref})
<1> DEFINE n == BatchOutput(m, d, ref, tx[ref[1]], height)
           a == Payee(ref)
           e == Key(tx, ref)
<1>1. IsMem(m) /\ SameNames(m, n)
  BY OutputSound DEF Sound
<1>2. CASE ~Addressed(ref)
  <2>1. n = m /\ SameListOps(m, m)
    BY <1>2, Zenon DEF BatchOutput, Addressed, SameListOps
  <2>2. \A x \in Addresses : Payee(ref) # x
    BY <1>2, UtxoIndexerAssumption DEF UtxoIndexerAssumption, Addressed, Payee
  <2>3. Listing(m, d, tx, R) => Listing(m, d, tx, R \cup {ref})
    BY <2>2, OtherEntry DEF Listing
  <2> QED
    BY <2>1, <2>3
<1>3. CASE Addressed(ref)
  <2>1. a \in Addresses /\ e \in Nat \X Nat /\ e = <<tx[ref[1]], ref[2]>>
    BY <1>3, RefType DEF Addressed, Payee, Key
  <2>2. /\ n.added = With(m.added, a, Append(Added(m, a), e))
        /\ n.ops.list = m.ops.list /\ n.seenBlock = m.seenBlock
        /\ HasSymbol(n, d, a) /\ \A x : HasSymbol(m, d, x) => HasSymbol(n, d, x)
    BY <1>1, <1>3, <2>1, OutputAdds
  <2> HIDE DEF n, a, e
  <2>3. ASSUME Typed(m) PROVE Typed(n)
    <3>1. Added(m, a) \in Entries
      BY <2>3 DEF Typed, Added, Entries
    <3>2. Append(Added(m, a), e) \in Entries
      BY <2>1, <3>1 DEF Entries
    <3>3. \A x \in DOMAIN n.added : x \in Addresses /\ n.added[x] \in Entries
      BY <2>1, <2>2, <2>3, <3>2 DEF Typed, With
    <3> QED
      BY <1>1, <2>2, <2>3, <3>3 DEF Typed, SameNames
  <2>4. ASSUME Listing(m, d, tx, R), OneKey(tx, R \cup {ref}) PROVE Listing(n, d, tx, R \cup {ref})
    <3>1. \A x \in DOMAIN n.added : x \in Addresses /\ HasSymbol(n, d, x)
      BY <2>1, <2>2, <2>4 DEF Listing, With
    <3>2. ASSUME NEW x \in Addresses
          PROVE  /\ OnDisk(d, x) \in Entries /\ Added(n, x) \in Entries
                 /\ HasEntries(OnDisk(d, x) \o Added(n, x), tx, R \cup {ref}, x)
      <4>1. /\ OnDisk(d, x) \in Entries /\ Added(m, x) \in Entries
            /\ HasEntries(OnDisk(d, x) \o Added(m, x), tx, R, x)
        BY <2>4 DEF Listing
      <4>2. CASE x = a
        <5>1. Added(n, x) = Append(Added(m, x), e)
          BY <2>2, <4>2 DEF Added, With
        <5>2. OnDisk(d, x) \o Added(n, x) = Append(OnDisk(d, x) \o Added(m, x), e)
          BY <2>1, <4>1, <5>1, AppendBehind
        <5>3. HasEntries(Append(OnDisk(d, x) \o Added(m, x), Key(tx, ref)), tx, R \cup {ref}, x)
          BY <2>1, <2>4, <4>1, <4>2, OneMoreEntry DEF a, e
        <5>4. Added(n, x) \in Entries
          BY <2>1, <4>1, <5>1 DEF Entries
        <5> QED
          BY <4>1, <5>2, <5>3, <5>4 DEF e
      <4>3. CASE x # a
        <5>1. Added(n, x) = Added(m, x)
          BY <2>2, <4>3 DEF Added, With
        <5> QED
          BY <4>1, <4>3, <5>1, OtherEntry DEF a
      <4> QED
        BY <4>2, <4>3
    <3> QED
      BY <3>1, <3>2 DEF Listing
  <2> QED
    BY <2>2, <2>3, <2>4 DEF SameListOps, n
<1> QED
  BY <1>2, <1>3

\* The outputs of a transaction.
LEMMA OutputsList ==
    ASSUME NEW m, NEW d, NEW table, Sound(m, table), Readies(d),
           NEW tx, NEW T, Saving(m, d, tx, OutputsOf(T)), NEW t \in Txs, t \notin T,
           tx[t] \in Nat, NEW height \in Nat, OneKey(tx, OutputsOf(T \cup {t}))
    PROVE  LET n == BatchTransactionOutputs(m, d, t, tx[t], height)
           IN  /\ SameListOps(m, n)
               /\ Typed(m) => Typed(n)
               /\ Listing(m, d, tx, OutputsOf(T)) => Listing(n, d, tx, OutputsOf(T \cup {t}))
<1> DEFINE N == Len(Outs[t])
           R(k) == OutputsOf(T) \cup {<<t, n>> : n \in 1..k}
<1>1. N \in Nat /\ \A n \in 1..N : <<t, n>> \in OutputRefs
  BY UtxoIndexerAssumption DEF UtxoIndexerAssumption, OutputRefs
<1>2. PICK f : /\ OutputsRun(f, m, d, t, tx[t], height)
               /\ BatchTransactionOutputs(m, d, t, tx[t], height) = f[N]
  BY <1>1, OutputsUnfolds
<1> DEFINE Good(k) == /\ Sound(f[k], table) /\ Saving(f[k], d, tx, R(k))
                      /\ SameListOps(m, f[k])
                      /\ Typed(m) => Typed(f[k])
                      /\ Listing(m, d, tx, OutputsOf(T)) => Listing(f[k], d, tx, R(k))
           S == {k \in 0..N : Good(k)}
<1>0. R(N) = OutputsOf(T \cup {t})
  BY OutputsOfOne
<1>3. 0 \in S
  <2>1. R(0) = OutputsOf(T)
    OBVIOUS
  <2> HIDE DEF R
  <2> QED
    BY <1>1, <1>2, <2>1 DEF OutputsRun, SameListOps
<1>4. ASSUME NEW k \in S, k < N PROVE k + 1 \in S
  <2>1. k \in 0..N /\ k + 1 \in 0..N /\ k + 1 \in 1..N
    BY <1>1, <1>4
  <2>2. Good(k)
    OBVIOUS
  <2> DEFINE ref == <<t, k + 1>>
  <2>3. ref \in OutputRefs /\ ref \notin R(k) /\ ref[1] = t
    BY <1>1, <2>1 DEF OutputsOf
  <2>4. R(k + 1) = R(k) \cup {ref}
    BY <2>1
  <2>5. f[k + 1] = BatchOutput(f[k], d, ref, tx[ref[1]], height)
    BY <1>2, <1>4, <2>1 DEF OutputsRun
  <2>6. R(k + 1) \subseteq R(N)
    BY <1>1, <2>1
  <2> HIDE DEF N, R, ref
  <2>7. OneKey(tx, R(k) \cup {ref})
    BY <1>0, <2>4, <2>6 DEF OneKey
  <2>8. ref \notin DOMAIN f[k].seenUtxo
    BY <2>2, <2>3 DEF Saving
  <2>9. Sound(f[k + 1], table)
    BY <2>2, <2>3, <2>5, OutputSound
  <2>10. Saving(f[k + 1], d, tx, R(k + 1))
    BY <2>2, <2>3, <2>4, <2>5, OutputSaves
  <2>11. /\ SameListOps(f[k], f[k + 1])
         /\ Typed(f[k]) => Typed(f[k + 1])
         /\ Listing(f[k], d, tx, R(k)) => Listing(f[k + 1], d, tx, R(k + 1))
    <3>1. Sound(f[k], table) /\ tx[ref[1]] \in Nat
      BY <2>2, <2>3
    <3> DEFINE g == f[k]
               r == R(k)
               n == BatchOutput(g, d, ref, tx[ref[1]], height)
    <3>2. /\ Sound(g, table) /\ ref \in OutputRefs /\ ref \notin r /\ ref \notin DOMAIN g.seenUtxo
          /\ OneKey(tx, r \cup {ref}) /\ tx[ref[1]] \in Nat
      BY <2>3, <2>7, <2>8, <3>1
    <3> HIDE DEF Good, g, r, S
    <3>3. /\ SameListOps(g, n)
          /\ Typed(g) => Typed(n)
          /\ Listing(g, d, tx, r) => Listing(n, d, tx, r \cup {ref})
      BY <3>2, OutputLists
    <3>4. f[k + 1] = n
      BY <2>5 DEF g
    <3> HIDE DEF n
    <3> QED
      BY <2>4, <3>3, <3>4 DEF g, r
  <2> QED
    BY <2>1, <2>2, <2>9, <2>10, <2>11 DEF SameListOps
<1>5. N \in S
  <2>1. S \in SUBSET (0..N)
    OBVIOUS
  <2> HIDE DEF S, N, R, Good
  <2>2. (\A k \in S : k < N => k + 1 \in S) /\ N \in Nat
    BY <1>1, <1>4
  <2>3. S = 0..N
    BY <1>3, <2>1, <2>2, UpTo
  <2> QED
    BY <2>2, <2>3
<1>6. Good(N)
  <2> HIDE DEF N, Good
  <2> QED
    BY <1>5
<1> HIDE DEF N, R
<1> QED
  BY <1>0, <1>2, <1>6

\* One transaction of a block behind p.
LEMMA BatchTxLists ==
    ASSUME NEW m, NEW d, NEW table, Sound(m, table), DOMAIN d.utxo \subseteq Nat \X Nat, Readies(d),
           NEW p \in BlockOrNone, NEW done, Adding(m, d, p, done), NEW T, T = Mined(p) \cup done,
           Saving(m, d, Apply(m.ops.tx, d.tx), OutputsOf(T)),
           NEW t \in Txs, t \notin Mined(p), NEW height \in Nat,
           \A ref \in ToSet(Ins[t]) : ref[1] \in T
    PROVE  LET n == BatchTx(m, d, t, height)
           IN  /\ SameListOps(m, n)
               /\ Typed(m) => Typed(n)
               /\ Listing(m, d, Apply(m.ops.tx, d.tx), OutputsOf(T)) =>
                     Listing(n, d, Apply(n.ops.tx, d.tx), OutputsOf(T \cup {t}))
<1> DEFINE tx == Apply(m.ops.tx, d.tx)
           n == BatchTx(m, d, t, height)
<1>1. GetTxSymbol(m, d, t) = IF t \in DOMAIN tx THEN tx[t] ELSE NoSymbol
  <2>1. m.seenTx = m.ops.tx /\ m.ops.tx \in [DOMAIN m.ops.tx -> Nat]
    BY DEF Adding
  <2> QED
    BY <2>1, TxSymbol
<1>2. CASE t \in done
  <2>1. t \in DOMAIN tx /\ tx[t] \in Nat
    BY <1>2 DEF Adding
  <2>2. GetTxSymbol(m, d, t) # NoSymbol
    BY <1>1, <2>1 DEF NoSymbol
  <2>3. n = m /\ SameListOps(m, m)
    BY <2>2, Zenon DEF BatchTx, SameListOps
  <2>4. T \cup {t} = T
    BY <1>2
  <2> QED
    BY <2>3, <2>4
<1>3. CASE t \notin done
  <2> DEFINE s == m.lastTx + 1
             named == [m EXCEPT !.lastTx = s, !.seenTx = With(@, t, s),
                                !.ops.tx = With(@, t, s), !.ops.txid = With(@, s, t)]
             spent == BatchTransactionInputs(named, d, t, s, height)
             tx2 == Apply(named.ops.tx, d.tx)
             txid2 == Apply(named.ops.txid, d.txid)
  <2>1. GetTxSymbol(m, d, t) = NoSymbol
    BY <1>1, <1>3 DEF Adding
  <2>2. n = BatchTransactionOutputs(spent, d, t, s, height)
    BY <2>1, Zenon DEF BatchTx
  <2>3. s \in Nat /\ s # Deleted
    <3>1. s \in Nat
      BY DEF Adding, NoSymbol
    <3> QED
      BY <3>1, UtxoIndexerAssumption DEF UtxoIndexerAssumption
  <2>4. IsMem(m)
    BY DEF Sound
  <2>5. (\A u : u \in DOMAIN tx <=> u \in T) /\ t \notin T
    BY <1>3 DEF Adding
  <2> HIDE DEF n, tx, spent, s, tx2, txid2
  <2>6. /\ IsMem(named) /\ named.lastAddress = m.lastAddress /\ named.failed = m.failed
        /\ named.ops.address = m.ops.address /\ named.ops.utxo = m.ops.utxo
        /\ named.seenUtxo = m.seenUtxo /\ named.seenAddress = m.seenAddress
        /\ named.lastTx = s /\ named.seenTx = With(m.seenTx, t, s)
        /\ named.ops.tx = With(m.ops.tx, t, s) /\ named.ops.txid = With(m.ops.txid, s, t)
        /\ named.ops.at = m.ops.at
    BY <2>4 DEF IsMem
  <2>7. ListsStay(m, named)
    BY <2>4 DEF IsMem, ListsStay
  <2> HIDE DEF named
  <2>8. Sound(named, table)
    BY <2>6, UtxoChangeSound
  <2>9. Adding(named, d, p, done \cup {t})
    BY <1>3, <2>6, AddingOne DEF s
  <2>10. tx2[t] = s /\ \A u \in T : u # t /\ tx2[u] = tx[u] /\ u \in DOMAIN tx2
    BY <2>3, <2>5, <2>6, ApplyWith DEF tx, tx2
  <2>11. OneKey(tx2, OutputsOf(T \cup {t}))
    <3>1. \A u \in T \cup {t} : txid2[tx2[u]] = u
      BY <2>9 DEF Adding, tx2, txid2
    <3> QED
      BY <3>1, OwnKeys
  <2>12. Saving(named, d, tx2, OutputsOf(T))
    <3>1. \A ref \in OutputsOf(T) : Key(tx2, ref) = Key(tx, ref)
      BY <2>10 DEF OutputsOf, Key
    <3>2. Saving(m, d, tx, OutputsOf(T))
      BY DEF tx
    <3> QED
      BY <2>6, <3>1, <3>2 DEF Saving, Kept
  <2>13. Listing(m, d, tx, OutputsOf(T)) => Listing(named, d, tx2, OutputsOf(T))
    <3> SUFFICES ASSUME Listing(m, d, tx, OutputsOf(T)) PROVE Listing(named, d, tx2, OutputsOf(T))
      OBVIOUS
    <3>1. Listing(named, d, tx, OutputsOf(T))
      BY <2>7, ListsFrame
    <3>2. \A ref \in OutputsOf(T) : tx2[ref[1]] = tx[ref[1]]
      BY <2>10 DEF OutputsOf
    <3> QED
      BY <3>1, <3>2, SameEntries DEF Listing
  <2>14. Typed(m) => Typed(named)
    BY <2>3, <2>6, <2>7 DEF Typed, ListsStay, With
  <2>15. ASSUME NEW ref \in ToSet(Ins[t])
         PROVE  ref \in OutputsOf(T) /\ GetTxSymbol(named, d, ref[1]) = tx2[ref[1]]
    <3>1. ref \in OutputRefs
      BY UtxoIndexerAssumption DEF UtxoIndexerAssumption, ToSet
    <3>2. ref[1] \in T
      OBVIOUS
    <3>3. named.seenTx = named.ops.tx /\ named.ops.tx \in [DOMAIN named.ops.tx -> Nat]
      BY <2>9 DEF Adding
    <3>4. GetTxSymbol(named, d, ref[1]) = tx2[ref[1]]
      BY <2>10, <3>2, <3>3, TxSymbol DEF tx2
    <3> QED
      BY <3>1, <3>2, <3>4 DEF OutputsOf
  <2>16. Sound(spent, table) /\ SameNames(named, spent)
    BY <2>3, <2>8, InputsSound DEF spent
  <2>17. Saving(spent, d, tx2, OutputsOf(T))
    BY <2>3, <2>8, <2>12, <2>15, InputsSave DEF spent
  <2>18. ListsStay(named, spent)
    BY <2>6, InputsLeave DEF spent
  <2>19. /\ Typed(named) => Typed(spent)
         /\ Listing(named, d, tx2, OutputsOf(T)) => Listing(spent, d, tx2, OutputsOf(T))
    BY <2>16, <2>18, ListsFrame
  <2>20. n = BatchTransactionOutputs(spent, d, t, tx2[t], height) /\ tx2[t] \in Nat
    BY <2>2, <2>3, <2>10
  <2>21. /\ SameListOps(spent, n)
         /\ Typed(spent) => Typed(n)
         /\ Listing(spent, d, tx2, OutputsOf(T)) => Listing(n, d, tx2, OutputsOf(T \cup {t}))
    BY <2>5, <2>11, <2>16, <2>17, <2>20, OutputsList
  <2>22. SameNames(spent, n)
    BY <2>2, <2>3, <2>16, OutputsSound
  <2>23. Apply(n.ops.tx, d.tx) = tx2
    BY <2>16, <2>22 DEF SameNames, tx2
  <2> QED
    BY <2>7, <2>13, <2>14, <2>18, <2>19, <2>21, <2>23 DEF ListsStay, SameListOps, n, tx
<1> QED
  BY <1>2, <1>3

\* saveBlock leaves memory with the lists of the chain of the block it adds.
LEMMA SaveBlockLists ==
    ASSUME NEW m, NEW d, NEW table, Sound(m, table), DOMAIN d.utxo \subseteq Nat \X Nat, Readies(d),
           NEW b \in Blocks, m.seenTx = m.ops.tx, m.ops.tx \in [DOMAIN m.ops.tx -> Nat],
           Names(m.ops, m.lastTx, d, Parent[b]), ~m.failed,
           Saving(m, d, Apply(m.ops.tx, d.tx), OutputsOf(Mined(Parent[b])))
    PROVE  LET n == SaveBlock(m, d, b)
           IN  /\ Typed(m) => Typed(n)
               /\ SameListOps(m, n)
               /\ Listing(m, d, Apply(m.ops.tx, d.tx), OutputsOf(Mined(Parent[b]))) =>
                     Listing(n, d, Apply(n.ops.tx, d.tx), OutputsOf(Mined(b)))
<1> DEFINE p == Parent[b]
           N == Len(TxsOf[b])
           T(k) == Mined(p) \cup First(b, k)
           R(k) == OutputsOf(T(k))
           tx(x) == Apply(x.ops.tx, d.tx)
<1>1. N \in Nat /\ ToSet(TxsOf[b]) = First(b, N) /\ First(b, 0) = {} /\ 0 \in 0..N /\ N \in 0..N
      /\ \A i \in 1..N : TxsOf[b][i] \in Txs
  BY FirstAll
<1>2. Mined(b) = T(N) /\ T(0) = Mined(p) /\ Mined(p) \cap ToSet(TxsOf[b]) = {}
  BY <1>1, MinedSplit
<1>3. p \in BlockOrNone /\ Height[b] \in Nat
  BY ChainEnds, BlockTreeAssumption DEF BlockTreeAssumption
<1>4. PICK f :
         /\ SavedRun(f, m, d, b) /\ SaveBlock(m, d, b) = f[N]
         /\ \A k \in 0..N : /\ Sound(f[k], table) /\ Adding(f[k], d, p, First(b, k))
                            /\ Saving(f[k], d, tx(f[k]), R(k))
  BY SaveBlockRuns
<1> DEFINE Good(k) == /\ SameListOps(m, f[k])
                      /\ Typed(m) => Typed(f[k])
                      /\ Listing(m, d, tx(m), R(0)) => Listing(f[k], d, tx(f[k]), R(k))
           S == {k \in 0..N : Good(k)}
<1>5. 0 \in S
  <2> DEFINE g == Begun(m, b)
  <2>1. IsMem(m)
    BY DEF Sound
  <2>2. /\ g.added = m.added /\ g.ops.list = m.ops.list
        /\ g.seenAddress = m.seenAddress
        /\ g.seenBlock = With(m.seenBlock, b, Height[b]) /\ g.seenTx = m.seenTx
        /\ g.ops.at = With(m.ops.at, Height[b], b) /\ g.ops.txid = m.ops.txid
        /\ g.ops.tx = m.ops.tx
    BY <2>1 DEF IsMem, Begun
  <2> HIDE DEF g
  <2>3. Typed(m) => Typed(g)
    BY <1>3, <2>2 DEF Typed, With
  <2>4. Listing(m, d, tx(m), R(0)) => Listing(g, d, tx(g), R(0))
    BY <2>2 DEF Listing, Added, HasSymbol
  <2>5. f[0] = g
    BY <1>4 DEF SavedRun, g
  <2> HIDE DEF N, T, R
  <2> QED
    BY <1>1, <2>2, <2>3, <2>4, <2>5 DEF SameListOps
<1>6. ASSUME NEW k \in S, k < N PROVE k + 1 \in S
  <2> DEFINE t == TxsOf[b][k + 1]
             n == BatchTx(f[k], d, t, Height[b])
  <2>1. k \in 0..N /\ k + 1 \in 0..N /\ k + 1 \in 1..N /\ Good(k) /\ k \in Nat
    <3> HIDE DEF Good
    <3> QED
      BY <1>1, <1>6
  <2>2. f[k + 1] = n
    BY <1>4, <1>6, <2>1 DEF SavedRun
  <2>3. t \in Txs /\ t \notin Mined(p)
    BY <1>1, <1>2, <2>1 DEF First
  <2>4. T(k + 1) = T(k) \cup {t}
    <3>1. First(b, k + 1) = First(b, k) \cup {t}
      BY <2>1 DEF First
    <3> QED
      BY <3>1
  <2>5. \A ref \in ToSet(Ins[t]) : ref[1] \in T(k)
    <3>1. (k + 1) - 1 <= k
      BY <2>1
    <3> QED
      BY <2>1, <3>1, InputsBefore
  <2>6. /\ Sound(f[k], table) /\ Adding(f[k], d, p, First(b, k))
        /\ Saving(f[k], d, tx(f[k]), R(k))
    BY <1>4, <2>1
  <2>7. T(k) = Mined(p) \cup First(b, k)
    OBVIOUS
  <2>8. /\ SameListOps(f[k], n)
        /\ Typed(f[k]) => Typed(n)
        /\ Listing(f[k], d, tx(f[k]), R(k)) => Listing(n, d, tx(n), OutputsOf(T(k) \cup {t}))
    <3> HIDE DEF t, T, Good, S, N
    <3> QED
      BY <1>3, <2>3, <2>5, <2>6, <2>7, BatchTxLists
  <2>9. Good(k + 1)
    BY <2>1, <2>2, <2>4, <2>8 DEF SameListOps
  <2> HIDE DEF Good
  <2> QED
    BY <2>1, <2>9
<1>7. N \in S
  <2>1. S \in SUBSET (0..N)
    OBVIOUS
  <2> HIDE DEF S, N, Good
  <2>2. \A k \in S : k < N => k + 1 \in S
    BY <1>6
  <2>3. S = 0..N
    BY <1>1, <1>5, <2>1, <2>2, UpTo
  <2> QED
    BY <1>1, <2>3
<1>8. Good(N)
  <2> HIDE DEF N, Good
  <2> QED
    BY <1>7
<1> HIDE DEF N, T
<1> QED
  BY <1>2, <1>4, <1>8

------------------------------------------------------------------------------
(* What removeBlock leaves of the types *)

\* What is on disk of blocks, transactions and lists has its type.
TypedDb(d) ==
    /\ \A h \in DOMAIN d.at : d.at[h] \in Blocks
    /\ \A s \in DOMAIN d.txid : d.txid[s] \in Txs
    /\ \A s \in DOMAIN d.list : d.list[s] \in Lists

\* A set of numbers up to a bound has a greatest one.
LEMMA GreatestIndex ==
    ASSUME NEW N \in Nat, NEW S \in SUBSET (1..N), S # {}
    PROVE  Max(S) \in S /\ \A y \in S : Max(S) >= y
<1> DEFINE T == {N - x : x \in S}
<1>1. T \in SUBSET Nat /\ T # {}
  <2>1. \A x \in S : N - x \in Nat
    OBVIOUS
  <2> QED
    BY <2>1
<1>2. PICK z \in T : \A y \in T : ~ (<<y, z>> \in OpToRel(<, Nat))
  BY <1>1, NatLessThanWellFounded, WFMin
<1>3. \A y \in T : z \in Nat /\ y \in Nat /\ ~ (y < z)
  BY <1>1, <1>2 DEF OpToRel
<1>4. PICK x \in S : z = N - x
  BY <1>2
<1>5. \A y \in S : N - y \in T
  OBVIOUS
<1> HIDE DEF T
<1>6. \A y \in S : x >= y
  BY <1>3, <1>4, <1>5
<1>7. \E v \in S : \A y \in S : v >= y
  BY <1>6
<1> QED
  BY <1>7, Zenon DEF Max

\* A sequence without one of its elements.
LEMMA ShorterSeq ==
    ASSUME NEW s \in Entries, NEW i \in 1..Len(s)
    PROVE  RemoveAt(s, i) \in Entries
<1>1. Len(s) \in Nat /\ i \in Nat /\ i - 1 \in 0..Len(s) /\ i + 1 \in 1..Len(s) + 1
  BY DEF Entries
<1>2. SubSeq(s, 1, i - 1) \in Entries /\ SubSeq(s, i + 1, Len(s)) \in Entries
  BY <1>1, SMTT(30) DEF Entries
<1> QED
  BY <1>2 DEF RemoveAt, Entries

\* A list without an entry is a list.
LEMMA WithoutType ==
    ASSUME NEW list \in Lists, NEW entry
    PROVE  Without(list, entry) \in Lists
<1> DEFINE at == {i \in DOMAIN list.outs : list.outs[i] = entry}
<1>1. list.outs \in Entries /\ DOMAIN list.outs = 1..Len(list.outs) /\ Len(list.outs) \in Nat
  BY DEF Lists, Entries
<1>2. CASE at = {}
  BY <1>2 DEF Without
<1>3. CASE at # {}
  <2>1. Max(at) \in at
    BY <1>1, <1>3, GreatestIndex
  <2>2. RemoveAt(list.outs, Max(at)) \in Entries
    BY <1>1, <2>1, ShorterSeq
  <2>3. Without(list, entry) = [list EXCEPT !.outs = RemoveAt(list.outs, Max(at))]
    BY <1>3, Zenon DEF Without
  <2> HIDE DEF at
  <2> QED
    BY <2>2, <2>3 DEF Lists, Entries
<1> QED
  BY <1>2, <1>3

\* What is under a symbol is a list.
LEMMA ListOfType ==
    ASSUME NEW d, TypedDb(d), NEW s
    PROVE  ListOf(d, s) \in Lists
<1>1. [address |-> NoAddress, outs |-> <<>>] \in Lists
  BY DEF Lists
<1> QED
  BY <1>1 DEF ListOf, TypedDb

\* From m to n, what waits to be added and the block cache stay, and types do.
StaysTyped(m, n) ==
    /\ IsMem(n)
    /\ n.added = m.added /\ n.seenBlock = m.seenBlock
    /\ n.ops.at = m.ops.at /\ n.ops.txid = m.ops.txid
    /\ Typed(m) => Typed(n)

\* Which composes.
LEMMA TypedOn ==
    ASSUME NEW m, NEW n, NEW o, StaysTyped(m, n), StaysTyped(n, o)
    PROVE  StaysTyped(m, o)
  BY DEF StaysTyped

\* One input.
LEMMA RevalidateTyped ==
    ASSUME NEW m, NEW d, IsMem(m), NEW ref
    PROVE  StaysTyped(m, RevalidateUtxo(m, d, ref)) /\ SameListOps(m, RevalidateUtxo(m, d, ref))
<1> DEFINE n == RevalidateUtxo(m, d, ref)
           key == UtxoKey(m, d, ref)
           freed == [UtxoValue(m, d, ref) EXCEPT !.spentIn = NoSymbol, !.spentOn = NoSymbol]
<1>1. n = [m EXCEPT !.failed = TRUE] \/ n = [m EXCEPT !.ops.utxo = With(@, key, freed)]
  BY Zenon DEF RevalidateUtxo
<1> HIDE DEF n, key, freed
<1>2. CASE n = [m EXCEPT !.failed = TRUE]
  BY <1>2 DEF IsMem, StaysTyped, Typed, SameListOps, n
<1>3. CASE n = [m EXCEPT !.ops.utxo = With(@, key, freed)]
  BY <1>3 DEF IsMem, StaysTyped, Typed, SameListOps, n
<1> QED
  BY <1>1, <1>2, <1>3

\* One output.
LEMMA RemoveOutputTyped ==
    ASSUME NEW m, NEW d, IsMem(m), TypedDb(d), NEW ref, NEW symbol
    PROVE  StaysTyped(m, RemoveOutput(m, d, ref, symbol))
<1> DEFINE n       == RemoveOutput(m, d, ref, symbol)
           out     == Outs[ref[1]][ref[2]]
           entry   == <<symbol, ref[2]>>
           known   == WithSymbol(m, d, out.address)
           holder  == AddressSymbol(known, d, out.address)
           deleted == With(m.ops.utxo, entry, Deleted)
           list    == Without(ListOf(d, holder), entry)
<1>1. n = IF out.address = NoAddress THEN [m EXCEPT !.ops.utxo = deleted]
          ELSE [known EXCEPT !.ops.utxo = deleted, !.ops.list = With(@, holder, list)]
  BY Zenon DEF RemoveOutput
<1>2. list \in Lists
  BY ListOfType, WithoutType
<1>3. /\ IsMem(known) /\ known.added = m.added /\ known.ops.list = m.ops.list
      /\ known.seenBlock = m.seenBlock /\ known.ops.at = m.ops.at
      /\ known.ops.txid = m.ops.txid /\ known.seenTx = m.seenTx
  BY LookedUp
<1> HIDE DEF n, out, entry, known, holder, deleted, list
<1>4. CASE out.address = NoAddress
  <2>1. n = [m EXCEPT !.ops.utxo = deleted]
    BY <1>1, <1>4
  <2> QED
    BY <2>1 DEF IsMem, StaysTyped, Typed, n
<1>5. CASE out.address # NoAddress
  <2>1. n = [known EXCEPT !.ops.utxo = deleted, !.ops.list = With(@, holder, list)]
    BY <1>1, <1>5
  <2>2. /\ IsMem(n) /\ n.added = known.added /\ n.ops.at = known.ops.at
        /\ n.ops.txid = known.ops.txid /\ n.seenTx = known.seenTx /\ n.seenBlock = known.seenBlock
        /\ n.ops.list = With(known.ops.list, holder, list)
    BY <1>3, <2>1 DEF IsMem
  <2>3. Typed(m) => \A s \in DOMAIN n.ops.list : n.ops.list[s] \in Lists
    BY <1>2, <1>3, <2>2 DEF Typed, With
  <2>4. Typed(m) => Typed(n)
    BY <1>3, <2>2, <2>3 DEF Typed
  <2> QED
    BY <1>3, <2>2, <2>4 DEF StaysTyped, n
<1> QED
  BY <1>4, <1>5

\* The inputs of a transaction.
LEMMA RevalidatedTyped ==
    ASSUME NEW m, NEW d, IsMem(m), NEW t \in Txs
    PROVE  StaysTyped(m, RevalidateInputs(m, d, t)) /\ SameListOps(m, RevalidateInputs(m, d, t))
<1> DEFINE N == Len(Ins[t])
<1>1. N \in Nat
  BY UtxoIndexerAssumption DEF UtxoIndexerAssumption
<1>2. PICK f : RevalidatedRun(f, m, d, t) /\ RevalidateInputs(m, d, t) = f[N]
  BY <1>1, RevalidatedUnfolds
<1> DEFINE S == {k \in 0..N : StaysTyped(m, f[k]) /\ SameListOps(m, f[k])}
<1>3. 0 \in S
  BY <1>1, <1>2 DEF RevalidatedRun, StaysTyped, SameListOps
<1>4. ASSUME NEW k \in S, k < N PROVE k + 1 \in S
  <2>1. k \in 0..N /\ k + 1 \in 0..N
    BY <1>1, <1>4
  <2>2. f[k + 1] = RevalidateUtxo(f[k], d, Ins[t][k + 1])
    BY <1>2, <1>4, <2>1 DEF RevalidatedRun
  <2>3. StaysTyped(m, f[k]) /\ IsMem(f[k]) /\ SameListOps(m, f[k])
    BY DEF StaysTyped
  <2> HIDE DEF N
  <2>4. StaysTyped(f[k], f[k + 1]) /\ SameListOps(f[k], f[k + 1])
    BY <2>2, <2>3, RevalidateTyped
  <2>5. SameListOps(m, f[k + 1])
    BY <2>3, <2>4 DEF SameListOps
  <2> QED
    BY <2>1, <2>3, <2>4, <2>5, TypedOn
<1>5. N \in S
  <2>1. S \in SUBSET (0..N) /\ \A k \in S : k < N => k + 1 \in S
    BY <1>4
  <2> HIDE DEF S, N
  <2> QED
    BY <1>1, <1>3, <2>1, UpTo
<1> QED
  BY <1>2, <1>5

\* The outputs of a transaction.
LEMMA RemovedTyped ==
    ASSUME NEW m, NEW d, IsMem(m), TypedDb(d), NEW t \in Txs, NEW symbol
    PROVE  StaysTyped(m, RemoveOutputs(m, d, t, symbol))
<1> DEFINE N == Len(Outs[t])
<1>1. N \in Nat
  BY UtxoIndexerAssumption DEF UtxoIndexerAssumption
<1>2. PICK f : RemovedRun(f, m, d, t, symbol) /\ RemoveOutputs(m, d, t, symbol) = f[N]
  BY <1>1, RemovedUnfolds
<1> DEFINE S == {k \in 0..N : StaysTyped(m, f[k])}
<1>3. 0 \in S
  BY <1>1, <1>2 DEF RemovedRun, StaysTyped
<1>4. ASSUME NEW k \in S, k < N PROVE k + 1 \in S
  <2>1. k \in 0..N /\ k + 1 \in 0..N
    BY <1>1, <1>4
  <2>2. f[k + 1] = RemoveOutput(f[k], d, <<t, k + 1>>, symbol)
    BY <1>2, <1>4, <2>1 DEF RemovedRun
  <2>3. StaysTyped(m, f[k]) /\ IsMem(f[k])
    BY DEF StaysTyped
  <2> HIDE DEF N
  <2>4. StaysTyped(f[k], f[k + 1])
    BY <2>2, <2>3, RemoveOutputTyped
  <2> QED
    BY <2>1, <2>3, <2>4, TypedOn
<1>5. N \in S
  <2>1. S \in SUBSET (0..N) /\ \A k \in S : k < N => k + 1 \in S
    BY <1>4
  <2> HIDE DEF S, N
  <2> QED
    BY <1>1, <1>3, <2>1, UpTo
<1> QED
  BY <1>2, <1>5

\* One transaction.
LEMMA RemoveTxTyped ==
    ASSUME NEW m, NEW d, IsMem(m), TypedDb(d), NEW t \in Txs
    PROVE  StaysTyped(m, RemoveTx(m, d, t))
<1> DEFINE s == GetTxSymbol(m, d, t)
           back == RevalidateInputs(m, d, t)
           gone == RemoveOutputs(back, d, t, s)
           n == RemoveTx(m, d, t)
<1>1. n = IF s = NoSymbol THEN m ELSE [gone EXCEPT !.ops.tx = With(@, t, Deleted)]
  BY Zenon DEF RemoveTx
<1>2. StaysTyped(m, back) /\ IsMem(back)
  BY RevalidatedTyped DEF StaysTyped
<1> HIDE DEF back
<1>3. StaysTyped(back, gone) /\ IsMem(gone)
  BY <1>2, RemovedTyped DEF StaysTyped
<1> HIDE DEF s, gone, n
<1>4. CASE s = NoSymbol
  BY <1>1, <1>4 DEF StaysTyped, n
<1>5. CASE s # NoSymbol
  <2>1. n = [gone EXCEPT !.ops.tx = With(@, t, Deleted)]
    BY <1>1, <1>5
  <2>2. StaysTyped(gone, n)
    BY <1>3, <2>1 DEF StaysTyped, IsMem, Typed
  <2> QED
    BY <1>2, <1>3, <2>2, TypedOn DEF n
<1> QED
  BY <1>4, <1>5

\* removeBlock.
LEMMA RemoveBlockTyped ==
    ASSUME NEW m, NEW d, IsMem(m), TypedDb(d), NEW b \in Blocks
    PROVE  StaysTyped(m, RemoveBlock(m, d, b))
<1> DEFINE N == Len(TxsOf[b])
           n == RemoveBlock(m, d, b)
<1>1. N \in Nat /\ \A i \in 1..N : TxsOf[b][i] \in Txs
  BY FirstAll
<1>2. PICK f : UndoneRun(f, m, d, b) /\ n = Unnamed(f[N], m, d, b)
  BY <1>1, UndoneUnfolds
<1> DEFINE S == {k \in 0..N : StaysTyped(m, f[k])}
<1>3. 0 \in S
  BY <1>1, <1>2 DEF UndoneRun, StaysTyped
<1>4. ASSUME NEW k \in S, k < N PROVE k + 1 \in S
  <2>1. k \in 0..N /\ k + 1 \in 0..N /\ k + 1 \in 1..N
    BY <1>1, <1>4
  <2>2. f[k + 1] = RemoveTx(f[k], d, TxsOf[b][k + 1]) /\ TxsOf[b][k + 1] \in Txs
    BY <1>1, <1>2, <1>4, <2>1 DEF UndoneRun
  <2>3. StaysTyped(m, f[k]) /\ IsMem(f[k])
    BY DEF StaysTyped
  <2> HIDE DEF N
  <2>4. StaysTyped(f[k], f[k + 1])
    BY <2>2, <2>3, RemoveTxTyped
  <2> QED
    BY <2>1, <2>3, <2>4, TypedOn
<1>5. N \in S
  <2>1. S \in SUBSET (0..N) /\ \A k \in S : k < N => k + 1 \in S
    BY <1>4
  <2> HIDE DEF S, N
  <2> QED
    BY <1>1, <1>3, <2>1, UpTo
<1>6. StaysTyped(m, f[N]) /\ IsMem(f[N])
  BY <1>5 DEF StaysTyped
<1> HIDE DEF S, N, n
<1>7. StaysTyped(f[N], n)
  BY <1>2, <1>6 DEF Unnamed, StaysTyped, IsMem, Typed
<1> QED
  BY <1>6, <1>7, TypedOn DEF n

------------------------------------------------------------------------------
(* Types: the inductive invariant *)

\* In memory, in the batch in flight and on disk, what a symbol stands for has its type.
TypedInv == Typed(mem) /\ TypedDb(inflight.ops) /\ TypedDb(db)

\* The list of address a, which has symbol s, with the entries that wait for a.
Longer(m, d, s, a) == [address |-> a, outs |-> ListOf(d, s).outs \o m.added[a]]

\* The lists that a batch has for the addresses that were added to.
LEMMA ListsGathered ==
    ASSUME NEW m, NEW d
    PROVE  /\ \A s : s \in DOMAIN UtxoLists(m, d)
                        <=> \E a \in DOMAIN m.added : s = AddressSymbol(m, d, a)
           /\ \A s \in DOMAIN UtxoLists(m, d) : \E a \in DOMAIN m.added :
                 s = AddressSymbol(m, d, a) /\ UtxoLists(m, d)[s] = Longer(m, d, s, a)
<1> DEFINE symbolOf == [a \in DOMAIN m.added |-> AddressSymbol(m, d, a)]
           pick(s) == CHOOSE x \in DOMAIN symbolOf : symbolOf[x] = s
<1>1. UtxoLists(m, d) = [s \in Range(symbolOf) |-> Longer(m, d, s, pick(s))]
  BY Zenon DEF UtxoLists, Longer
<1>2. \A s : s \in Range(symbolOf) <=> \E a \in DOMAIN m.added : s = AddressSymbol(m, d, a)
  BY DEF Range
<1>3. ASSUME NEW s \in Range(symbolOf)
      PROVE  pick(s) \in DOMAIN m.added /\ s = AddressSymbol(m, d, pick(s))
  <2>1. \E x \in DOMAIN symbolOf : symbolOf[x] = s
    BY DEF Range
  <2>2. pick(s) \in DOMAIN symbolOf /\ symbolOf[pick(s)] = s
    BY <2>1, Zenon
  <2> QED
    BY <2>2
<1> HIDE DEF symbolOf, pick
<1> QED
  BY <1>1, <1>2, <1>3

\* Each is a list.
LEMMA ListsGatheredType ==
    ASSUME NEW m, NEW d, Typed(m), TypedDb(d), NEW s \in DOMAIN UtxoLists(m, d)
    PROVE  UtxoLists(m, d)[s] \in Lists /\ UtxoLists(m, d)[s] # Deleted
<1>1. PICK a \in DOMAIN m.added : UtxoLists(m, d)[s] = Longer(m, d, s, a)
  BY ListsGathered
<1>2. a \in Addresses /\ m.added[a] \in Entries /\ ListOf(d, s).outs \in Entries
  BY ListOfType DEF Typed, Lists, Entries
<1>3. ListOf(d, s).outs \o m.added[a] \in Entries
  BY <1>2 DEF Entries
<1>4. UtxoLists(m, d)[s] \in Lists
  BY <1>1, <1>2, <1>3 DEF Lists, Entries, Longer
<1>5. Deleted \notin Lists
  BY UtxoIndexerAssumption DEF UtxoIndexerAssumption
<1> QED
  BY <1>4, <1>5

\* The operations on lists in a batch: those gathered, and those that wait.
LEMMA GatheredLists ==
    ASSUME NEW b, NEW m, NEW d, IsMem(m), Typed(m), TypedDb(d)
    PROVE  LET g == Gather(b, m, d).ops.list
           IN  /\ \A s \in DOMAIN UtxoLists(m, d) : s \in DOMAIN g /\ g[s] = UtxoLists(m, d)[s]
               /\ \A s \in DOMAIN g \ DOMAIN UtxoLists(m, d) :
                     s \in DOMAIN m.ops.list /\ g[s] = m.ops.list[s]
               /\ DOMAIN m.ops.list \subseteq DOMAIN g
<1> DEFINE l == UtxoLists(m, d)
           lists == Apply(l, m.ops.list)
           g == Gather(b, m, d)
<1>1. g = [best |-> b, lastTx |-> m.lastTx, lastAddress |-> m.lastAddress,
           ops |-> [m.ops EXCEPT !.list = lists]]
  BY Zenon DEF Gather
<1>2. \A s \in DOMAIN l : l[s] # Deleted
  BY ListsGatheredType
<1> HIDE DEF l
<1>3. /\ \A s \in DOMAIN l : s \in DOMAIN lists /\ lists[s] = l[s]
      /\ \A s \in DOMAIN lists \ DOMAIN l : s \in DOMAIN m.ops.list /\ lists[s] = m.ops.list[s]
      /\ DOMAIN m.ops.list \subseteq DOMAIN lists
  BY <1>2, ApplyTable
<1> HIDE DEF lists
<1>4. g.ops.list = lists
  <2> HIDE DEF g
  <2> QED
    BY <1>1 DEF IsMem
<1> QED
  BY <1>3, <1>4 DEF l

\* A batch is typed.
LEMMA GatherTyped ==
    ASSUME NEW b, NEW m, NEW d, IsMem(m), Typed(m), TypedDb(d)
    PROVE  TypedDb(Gather(b, m, d).ops)
<1> DEFINE g == Gather(b, m, d).ops
<1>1. g.at = m.ops.at /\ g.txid = m.ops.txid
  BY GatherParts
<1>2. /\ \A s \in DOMAIN UtxoLists(m, d) : g.list[s] = UtxoLists(m, d)[s]
      /\ \A s \in DOMAIN g.list \ DOMAIN UtxoLists(m, d) :
            s \in DOMAIN m.ops.list /\ g.list[s] = m.ops.list[s]
  BY GatheredLists
<1>3. \A s \in DOMAIN UtxoLists(m, d) : UtxoLists(m, d)[s] \in Lists
  BY ListsGatheredType
<1> HIDE DEF g
<1>4. \A s \in DOMAIN g.list : g.list[s] \in Lists
  BY <1>2, <1>3 DEF Typed
<1>5. TypedDb(g)
  BY <1>1, <1>4 DEF TypedDb, Typed
<1> QED
  BY <1>5 DEF g

\* Typed operations make typed tables.
LEMMA WrittenTyped ==
    ASSUME NEW d, NEW g, TypedDb(d), TypedDb(g.ops)
    PROVE  TypedDb(Written(d, g))
<1> DEFINE w == Written(d, g)
<1>1. /\ w.at = Apply(g.ops.at, d.at) /\ w.txid = Apply(g.ops.txid, d.txid)
      /\ w.list = Apply(g.ops.list, d.list)
  BY DEF Written
<1>2. ASSUME NEW ops, NEW table, NEW V, \A k \in DOMAIN ops : ops[k] \in V,
             \A k \in DOMAIN table : table[k] \in V, NEW k \in DOMAIN Apply(ops, table)
      PROVE  Apply(ops, table)[k] \in V
  BY <1>2, ApplyTable
<1> HIDE DEF w
<1>3. /\ \A k \in DOMAIN w.at : w.at[k] \in Blocks
      /\ \A k \in DOMAIN w.txid : w.txid[k] \in Txs
      /\ \A k \in DOMAIN w.list : w.list[k] \in Lists
  BY <1>1, <1>2 DEF TypedDb
<1> QED
  BY <1>3 DEF TypedDb, w

\* Nothing is typed.
LEMMA EmptyTyped ==
    /\ TypedDb(EmptyOps) /\ TypedDb(EmptyDb)
    /\ \A d : Typed(MemoryOf(d))
  BY EmptyTableIsEmpty DEF TypedDb, Typed, EmptyOps, EmptyDb, MemoryOf

\* The invariant holds at the start.
LEMMA TypedInvInit == Init => TypedInv
<1>1. Nothing.ops = EmptyOps
  BY DEF Nothing
<1> QED
  BY <1>1, EmptyTyped DEF Init, TypedInv

\* Memory whose operations are gathered, and whose last-seen caches are dropped.
LEMMA DroppedTyped ==
    ASSUME NEW m, IsMem(m), Typed(m)
    PROVE  /\ Typed([m EXCEPT !.ops = EmptyOps])
           /\ Typed([m EXCEPT !.seenBlock = EmptyTable, !.seenTx = EmptyTable,
                              !.seenAddress = EmptyTable, !.seenUtxo = EmptyTable,
                              !.added = EmptyTable])
  BY EmptyTableIsEmpty DEF IsMem, Typed, EmptyOps

\* Every step preserves it.
LEMMA TypedInvNext == FlushInv /\ SymbolInv /\ RecordInv /\ TypedInv /\ [Next]_vars => TypedInv'
<1> SUFFICES ASSUME FlushInv, SymbolInv, RecordInv, TypedInv, [Next]_vars PROVE TypedInv'
  OBVIOUS
<1>1. Typed(mem) /\ TypedDb(inflight.ops) /\ TypedDb(db)
  BY DEF TypedInv
<1>2. CASE AddBlock
  <2>1. PICK b \in Blocks : Parent[b] = best /\ mem' = SaveBlock(mem, db, b)
    BY <1>2 DEF AddBlock
  <2>2. pc = "idle" /\ UNCHANGED <<inflight, db>>
    BY <1>2 DEF AddBlock
  <2>3. Sound(mem, db.address) /\ DOMAIN db.utxo \subseteq Nat \X Nat
    BY <2>2, RestingTable DEF SymbolInv, SoundInv, Flushing
  <2>4. mem.seenTx = mem.ops.tx /\ mem.ops.tx \in [DOMAIN mem.ops.tx -> Nat]
        /\ Names(mem.ops, mem.lastTx, db, Parent[b])
    BY <2>1, <2>2 DEF SymbolInv, NameInv
  <2>5. /\ Readies(db) /\ ~mem.failed
        /\ Saving(mem, db, Apply(mem.ops.tx, db.tx), OutputsOf(Mined(Parent[b])))
    BY <2>1, <2>2 DEF RecordInv
  <2>6. Typed(mem')
    BY <1>1, <2>1, <2>3, <2>4, <2>5, SaveBlockLists
  <2> QED
    BY <1>1, <2>2, <2>6 DEF TypedInv
<1>3. CASE Flush \/ StartRemoval
  <2>1. /\ pc = "idle" /\ db' = db
        /\ inflight' = Gather(best, mem, db) /\ mem' = [mem EXCEPT !.ops = EmptyOps]
    BY <1>3 DEF Flush, StartRemoval, BeginFlush
  <2>2. IsMem(mem)
    BY <2>1 DEF SymbolInv, SoundInv, Sound
  <2> QED
    BY <1>1, <2>1, <2>2, GatherTyped, DroppedTyped DEF TypedInv
<1>4. CASE FlushEnds
  <2>1. /\ pc # "aborted" /\ db' = Written(db, inflight) /\ inflight' = Nothing
        /\ mem' = [mem EXCEPT !.seenBlock = EmptyTable, !.seenTx = EmptyTable,
                              !.seenAddress = EmptyTable, !.seenUtxo = EmptyTable,
                              !.added = EmptyTable]
    BY <1>4 DEF FlushEnds
  <2>2. IsMem(mem) /\ inflight'.ops = EmptyOps
    BY <2>1 DEF SymbolInv, SoundInv, Sound, Nothing
  <2> QED
    BY <1>1, <2>1, <2>2, WrittenTyped, DroppedTyped, EmptyTyped DEF TypedInv
<1>5. CASE RemoveBest
  <2> DEFINE m == RemoveBlock(mem, db, best)
  <2>1. pc = "removing" /\ best \in Blocks /\ db' = db
    BY <1>5 DEF RemoveBest, FlushInv, BlockOrNone
  <2>2. \/ mem' = m /\ inflight' = inflight
        \/ \E b : inflight' = Gather(b, m, db) /\ mem' = [m EXCEPT !.ops = EmptyOps]
    BY <1>5 DEF RemoveBest, BeginFlush
  <2>3. IsMem(mem)
    BY <2>1 DEF SymbolInv, SoundInv, Sound
  <2>4. Typed(m) /\ IsMem(m)
    BY <1>1, <2>1, <2>3, RemoveBlockTyped DEF StaysTyped
  <2> HIDE DEF m
  <2> QED
    BY <1>1, <2>1, <2>2, <2>4, GatherTyped, DroppedTyped DEF TypedInv
<1>6. CASE Query
  <2>1. pc # "aborted" /\ UNCHANGED <<inflight, db>>
    BY <1>6, QueryStep
  <2>2. IsMem(mem)
    BY <2>1 DEF SymbolInv, SoundInv, Sound
  <2>3. /\ mem'.added = mem.added /\ mem'.ops.list = mem.ops.list
        /\ mem'.seenBlock = mem.seenBlock /\ mem'.ops.at = mem.ops.at
        /\ mem'.ops.txid = mem.ops.txid /\ mem'.seenTx = mem.seenTx
    <3>1. CASE \E x : mem' = [mem EXCEPT !.asking = x]
      BY <2>2, <3>1 DEF IsMem
    <3>2. CASE \E x, a : mem' = [NewSymbol(mem, a) EXCEPT !.asking = x]
      BY <2>2, <3>2 DEF IsMem, NewSymbol
    <3> QED
      BY <1>6, <3>1, <3>2, QueryStep
  <2> QED
    BY <1>1, <2>1, <2>3 DEF TypedInv, Typed
<1>7. CASE Restart
  <2>1. /\ db' = db \/ db' = Written(db, inflight)
        /\ mem' = MemoryOf(db') /\ inflight' = Nothing
    BY <1>7 DEF Restart
  <2>2. inflight'.ops = EmptyOps
    BY <2>1 DEF Nothing
  <2> QED
    BY <1>1, <2>1, <2>2, WrittenTyped, EmptyTyped DEF TypedInv
<1>8. CASE UNCHANGED vars
  BY <1>1, <1>8 DEF vars, TypedInv
<1> QED
  BY <1>2, <1>3, <1>4, <1>5, <1>6, <1>7, <1>8 DEF Next

------------------------------------------------------------------------------
(* Lists: what removeBlock takes from them *)

\* A list without one of its entries, none of which it has twice, has the others.
LEMMA OneLess ==
    ASSUME NEW s \in Entries, IsInjective(s), NEW i \in 1..Len(s)
    PROVE  LET n == RemoveAt(s, i)
           IN  n \in Entries /\ IsInjective(n) /\ ToSet(n) = ToSet(s) \ {s[i]}
<1> DEFINE n == RemoveAt(s, i)
           before == SubSeq(s, 1, i - 1)
           after == SubSeq(s, i + 1, Len(s))
           from(j) == IF j < i THEN j ELSE j + 1
<1>1. Len(s) \in Nat /\ i \in Nat /\ i >= 1 /\ i <= Len(s) /\ DOMAIN s = 1..Len(s)
  BY DEF Entries
<1>2. /\ before \in Entries /\ Len(before) = i - 1
      /\ \A j \in 1..i - 1 : before[j] = s[j]
  BY <1>1 DEF Entries
<1>3. /\ after \in Entries /\ Len(after) = Len(s) - i
      /\ \A j \in 1..Len(s) - i : after[j] = s[i + j]
  <2>1. i + 1 \in 1..Len(s) + 1 /\ Len(s) \in Nat
    BY <1>1
  <2>2. after \in Entries
    BY <2>1 DEF Entries
  <2>3. Len(after) = IF i + 1 <= Len(s) THEN Len(s) - (i + 1) + 1 ELSE 0
    BY <2>1 DEF Entries
  <2>4. \A j \in 1..Len(s) - i : after[j] = s[(i + 1) + j - 1]
    BY <1>1, <2>1 DEF Entries
  <2>5. \A j \in 1..Len(s) - i : (i + 1) + j - 1 = i + j
    BY <1>1
  <2> HIDE DEF after
  <2>6. Len(after) = Len(s) - i
    <3>1. CASE i + 1 <= Len(s)
      BY <1>1, <2>3, <3>1
    <3>2. CASE ~(i + 1 <= Len(s))
      <4> DEFINE k == Len(s)
      <4>1. k \in Nat /\ i \in Nat /\ i <= k /\ ~(i + 1 <= k)
        BY <1>1, <3>2
      <4> HIDE DEF k
      <4>2. i = k
        BY <4>1
      <4>3. k - i = 0
        BY <4>1, <4>2
      <4> QED
        BY <2>3, <3>2, <4>3 DEF k
    <3> QED
      BY <3>1, <3>2
  <2>7. \A j \in 1..Len(s) - i : after[j] = s[i + j]
    BY <2>4, <2>5
  <2> QED
    BY <2>2, <2>6, <2>7
<1>4. n = before \o after
  BY DEF RemoveAt
<1> HIDE DEF before, after, n
<1>5. n \in Entries /\ Len(n) = Len(s) - 1 /\ DOMAIN n = 1..Len(s) - 1
  <2>1. n \in Entries /\ Len(n) = Len(before) + Len(after)
    <3>1. before \in Seq(Nat \X Nat) /\ after \in Seq(Nat \X Nat)
      BY <1>2, <1>3 DEF Entries
    <3> QED
      BY <1>4, <3>1 DEF Entries
  <2>2. Len(n) = Len(s) - 1
    BY <1>1, <1>2, <1>3, <2>1
  <2> QED
    BY <2>1, <2>2 DEF Entries
<1>6. ASSUME NEW j \in 1..Len(s) - 1 PROVE n[j] = s[from(j)]
  <2>1. CASE j < i
    <3>1. j \in 1..Len(before) /\ Len(before) \in Nat /\ Len(after) \in Nat
      BY <1>1, <1>2, <1>3, <2>1
    <3>2. n[j] = before[j]
      BY <1>2, <1>3, <1>4, <3>1 DEF Entries
    <3> QED
      BY <1>1, <1>2, <2>1, <3>2
  <2>2. CASE j >= i
    <3>1. n[j] = after[j - (i - 1)]
      <4>1. /\ j \in Len(before) + 1 .. Len(before) + Len(after)
            /\ Len(before) \in Nat /\ Len(after) \in Nat
        BY <1>1, <1>2, <1>3, <2>2
      <4>2. n[j] = after[j - Len(before)]
        <5>1. before \in Seq(Nat \X Nat) /\ after \in Seq(Nat \X Nat)
          BY <1>2, <1>3 DEF Entries
        <5>2. /\ Len(before \o after) = Len(before) + Len(after)
              /\ before \o after \in Seq(Nat \X Nat)
          BY <5>1
        <5>3. (before \o after)[j] = after[j - Len(before)]
          BY <4>1, <5>1, <5>2
        <5> QED
          BY <1>4, <5>3
      <4> QED
        BY <1>2, <4>2
    <3>2. j - (i - 1) \in 1..Len(s) - i /\ i + (j - (i - 1)) = j + 1
      BY <1>1, <2>2
    <3> QED
      BY <1>1, <1>3, <2>2, <3>1, <3>2
  <2> QED
    BY <1>1, <2>1, <2>2
<1>7. /\ \A j \in 1..Len(s) - 1 : from(j) \in 1..Len(s) /\ from(j) # i
      /\ \A j, k \in 1..Len(s) - 1 : from(j) = from(k) => j = k
      /\ \A k \in 1..Len(s) : k # i => \E j \in 1..Len(s) - 1 : k = from(j)
  <2>1. /\ \A j \in 1..Len(s) - 1 : from(j) \in 1..Len(s) /\ from(j) # i
        /\ \A j, k \in 1..Len(s) - 1 : from(j) = from(k) => j = k
    BY <1>1
  <2>2. ASSUME NEW k \in 1..Len(s), k # i PROVE \E j \in 1..Len(s) - 1 : k = from(j)
    <3>1. CASE k < i
      <4>1. k \in 1..Len(s) - 1 /\ k = from(k)
        BY <1>1, <3>1
      <4> QED
        BY <4>1
    <3>2. CASE k > i
      <4>1. k - 1 \in 1..Len(s) - 1 /\ k = from(k - 1)
        BY <1>1, <3>2
      <4> QED
        BY <4>1
    <3> QED
      BY <1>1, <2>2, <3>1, <3>2
  <2> QED
    BY <2>1, <2>2
<1> HIDE DEF from
<1>8. \A j, k \in 1..Len(s) : s[j] = s[k] => j = k
  BY <1>1 DEF IsInjective
<1>9. IsInjective(n)
  <2>1. ASSUME NEW j \in 1..Len(s) - 1, NEW k \in 1..Len(s) - 1, n[j] = n[k] PROVE j = k
    BY <1>6, <1>7, <1>8, <2>1
  <2> QED
    BY <1>5, <2>1 DEF IsInjective
<1>10. ToSet(n) = {n[j] : j \in 1..Len(s) - 1} /\ ToSet(s) = {s[j] : j \in 1..Len(s)}
  BY <1>1, <1>5 DEF ToSet
<1>11. ASSUME NEW e \in ToSet(n) PROVE e \in ToSet(s) /\ e # s[i]
  <2>1. PICK j \in 1..Len(s) - 1 : e = n[j]
    BY <1>10
  <2> QED
    BY <1>6, <1>7, <1>8, <1>10, <2>1
<1>12. ASSUME NEW e \in ToSet(s), e # s[i] PROVE e \in ToSet(n)
  <2>1. PICK k \in 1..Len(s) : e = s[k]
    BY <1>10
  <2>2. PICK j \in 1..Len(s) - 1 : k = from(j)
    BY <1>7, <1>12, <2>1
  <2> QED
    BY <1>6, <1>10, <2>1, <2>2
<1>13. ToSet(n) = ToSet(s) \ {s[i]}
  BY <1>11, <1>12
<1> QED
  BY <1>5, <1>9, <1>13 DEF n

\* The list of an address without the entry of the one output in R that is gone.
LEMMA OneEntryLess ==
    ASSUME NEW list \in Lists, NEW tx, NEW R, NEW a, HasEntries(list.outs, tx, R, a),
           NEW ref \in PaidTo(R, a), OneKey(tx, R), NEW P, P \subseteq R,
           PaidTo(R, a) = PaidTo(P, a) \cup {ref}, ref \notin P
    PROVE  HasEntries(Without(list, Key(tx, ref)).outs, tx, P, a)
<1> DEFINE s == list.outs
           e == Key(tx, ref)
           at == {i \in DOMAIN s : s[i] = e}
<1>1. /\ s \in Entries /\ DOMAIN s = 1..Len(s) /\ Len(s) \in Nat /\ IsInjective(s)
      /\ ToSet(s) = {Key(tx, r) : r \in PaidTo(R, a)}
  BY DEF HasEntries, Entries
<1>2. at # {}
  <2>1. e \in ToSet(s)
    BY <1>1
  <2> QED
    BY <2>1 DEF ToSet
<1>3. Max(at) \in at
  BY <1>1, <1>2, GreatestIndex
<1>4. Without(list, e) = [list EXCEPT !.outs = RemoveAt(s, Max(at))]
  BY <1>2, Zenon DEF Without
<1> DEFINE i == Max(at)
           n == RemoveAt(s, i)
<1>5. i \in 1..Len(s) /\ s[i] = e
  BY <1>1, <1>3
<1> HIDE DEF i, at
<1>6. n \in Entries /\ IsInjective(n) /\ ToSet(n) = ToSet(s) \ {e}
  BY <1>1, <1>5, OneLess
<1> HIDE DEF n
<1>7. Without(list, e).outs = n
  <2>1. Without(list, e) = [list EXCEPT !.outs = n]
    BY <1>4 DEF n, i
  <2> QED
    BY <2>1 DEF Lists
<1>8. {Key(tx, r) : r \in PaidTo(R, a)} \ {e} = {Key(tx, r) : r \in PaidTo(P, a)}
  <2>1. \A r \in PaidTo(P, a) : r \in PaidTo(R, a) /\ r \in R /\ r # ref /\ ref \in R
    BY DEF PaidTo
  <2>2. \A r \in PaidTo(P, a) : Key(tx, r) # e
    BY <2>1 DEF OneKey
  <2> HIDE DEF e
  <2> QED
    BY <2>2 DEF e
<1> QED
  BY <1>1, <1>6, <1>7, <1>8 DEF HasEntries
\* The lists that are put while a block is taken back: of each output in O that has one
\* address, the list of that address on disk, without the entry of an output in O.
ListsTaken(m, d, O) ==
    /\ \A ref \in O : Addressed(ref) => d.address[Payee(ref)] \in DOMAIN m.ops.list
    /\ \A s \in DOMAIN m.ops.list : \E ref \in O :
          /\ Addressed(ref) /\ s = d.address[Payee(ref)]
          /\ m.ops.list[s] = Without(ListOf(d, s), Key(d.tx, ref))

\* One output. What is in the cache of addresses is not on disk.
LEMMA RemoveOutputLists ==
    ASSUME NEW m, NEW d, IsMem(m), DOMAIN m.seenAddress \cap DOMAIN d.address = {},
           NEW ref, Addressed(ref) => Payee(ref) \in DOMAIN d.address, NEW O
    PROVE  LET n == RemoveOutput(m, d, ref, d.tx[ref[1]])
           IN  Quiet(m, n) /\ (ListsTaken(m, d, O) => ListsTaken(n, d, O \cup {ref}))
<1> DEFINE n == RemoveOutput(m, d, ref, d.tx[ref[1]])
           R == {ref}
           a == Payee(ref)
           s == d.address[a]
           list == Without(ListOf(d, s), Key(d.tx, ref))
<1>1. Quiet(m, n)
  <2> DEFINE I == {}
  <2>1. OneKey(d.tx, R) /\ I \in SUBSET R /\ ref \in R /\ ref \notin I
    BY DEF OneKey
  <2> HIDE DEF R, I
  <2> QED
    BY <2>1, RemoveOutputTakes
<1>2. CASE ~Addressed(ref)
  <2>1. Outs[ref[1]][ref[2]].address = NoAddress
    BY <1>2 DEF Addressed
  <2>2. n = [m EXCEPT !.ops.utxo = With(m.ops.utxo, <<d.tx[ref[1]], ref[2]>>, Deleted)]
    BY <2>1, Zenon DEF RemoveOutput
  <2> HIDE DEF n
  <2>3. n.ops.list = m.ops.list
    BY <2>2 DEF IsMem
  <2>4. ListsTaken(m, d, O) => ListsTaken(n, d, O \cup {ref})
    BY <1>2, <2>3 DEF ListsTaken
  <2> QED
    BY <1>1, <2>4 DEF n
<1>3. CASE Addressed(ref)
  <2> DEFINE x == Outs[ref[1]][ref[2]].address
             known == WithSymbol(m, d, x)
             holder == AddressSymbol(known, d, x)
             entry == <<d.tx[ref[1]], ref[2]>>
             taken == Without(ListOf(d, holder), entry)
  <2>1. x # NoAddress /\ x = a /\ a \in DOMAIN d.address /\ a \notin DOMAIN m.seenAddress
    BY <1>3 DEF Addressed, Payee
  <2>2. n = [known EXCEPT !.ops.utxo = With(m.ops.utxo, entry, Deleted),
                          !.ops.list = With(@, holder, taken)]
    <3>1. Outs[ref[1]][ref[2]].address # NoAddress
      BY <2>1
    <3> QED
      BY <3>1, Zenon DEF RemoveOutput
  <2>3. known = m
    <3>1. HasSymbol(m, d, x)
      BY <2>1 DEF HasSymbol
    <3> QED
      BY <3>1, Zenon DEF WithSymbol
  <2>4. holder = s /\ entry = Key(d.tx, ref)
    BY <2>1, <2>3 DEF AddressSymbol, Key
  <2>5. taken = list
    BY <2>4
  <2> HIDE DEF x, known, holder, entry, taken, list, s, n
  <2>6. n.ops.list = With(m.ops.list, s, list)
    BY <2>2, <2>3, <2>4, <2>5 DEF IsMem
  <2>7. /\ DOMAIN n.ops.list = DOMAIN m.ops.list \cup {s} /\ n.ops.list[s] = list
        /\ \A k \in DOMAIN m.ops.list : k # s => n.ops.list[k] = m.ops.list[k]
    BY <2>6 DEF With
  <2>8. ASSUME ListsTaken(m, d, O) PROVE ListsTaken(n, d, O \cup {ref})
    <3>1. ASSUME NEW r \in O \cup {ref}, Addressed(r)
          PROVE  d.address[Payee(r)] \in DOMAIN n.ops.list
      BY <2>7, <2>8, <3>1 DEF ListsTaken, s
    <3>2. ASSUME NEW k \in DOMAIN n.ops.list
          PROVE  \E r \in O \cup {ref} :
                    /\ Addressed(r) /\ k = d.address[Payee(r)]
                    /\ n.ops.list[k] = Without(ListOf(d, k), Key(d.tx, r))
      <4>1. CASE k = s
        BY <1>3, <2>7, <4>1 DEF s, list
      <4>2. CASE k # s
        <5>1. k \in DOMAIN m.ops.list /\ n.ops.list[k] = m.ops.list[k]
          BY <2>7, <4>2
        <5> QED
          BY <2>8, <5>1 DEF ListsTaken
      <4> QED
        BY <4>1, <4>2
    <3> QED
      BY <3>1, <3>2 DEF ListsTaken
  <2> QED
    BY <1>1, <2>8 DEF n
<1> QED
  BY <1>2, <1>3

\* The outputs of a transaction.
LEMMA RemovedLists ==
    ASSUME NEW m, NEW d, IsMem(m), DOMAIN m.seenAddress \cap DOMAIN d.address = {},
           NEW t \in Txs, NEW T,
           \A ref \in OutputsOf({t}) : Addressed(ref) => Payee(ref) \in DOMAIN d.address
    PROVE  LET n == RemoveOutputs(m, d, t, d.tx[t])
           IN  /\ Quiet(m, n)
               /\ ListsTaken(m, d, OutputsOf(T)) => ListsTaken(n, d, OutputsOf(T \cup {t}))
<1> DEFINE N == Len(Outs[t])
           Out(k) == OutputsOf(T) \cup {<<t, n>> : n \in 1..k}
<1>1. N \in Nat /\ \A n \in 1..N : <<t, n>> \in OutputsOf({t})
  BY UtxoIndexerAssumption DEF UtxoIndexerAssumption, OutputRefs, OutputsOf
<1>2. PICK f : RemovedRun(f, m, d, t, d.tx[t]) /\ RemoveOutputs(m, d, t, d.tx[t]) = f[N]
  BY <1>1, RemovedUnfolds
<1>3. Out(N) = OutputsOf(T \cup {t})
  BY OutputsOfOne
<1> DEFINE Good(k) == /\ Quiet(m, f[k])
                      /\ ListsTaken(m, d, OutputsOf(T)) => ListsTaken(f[k], d, Out(k))
           S == {k \in 0..N : Good(k)}
<1>4. 0 \in S
  <2>1. f[0] = m /\ 0 \in 0..N /\ Out(0) = OutputsOf(T)
    BY <1>1, <1>2 DEF RemovedRun
  <2>2. Quiet(m, m)
    BY DEF Quiet
  <2> HIDE DEF Out, N
  <2> QED
    BY <2>1, <2>2
<1>5. ASSUME NEW k \in S, k < N PROVE k + 1 \in S
  <2> DEFINE ref == <<t, k + 1>>
             g == f[k]
             O == Out(k)
  <2>1. k \in 0..N /\ k + 1 \in 0..N /\ k + 1 \in 1..N /\ Good(k)
    <3> HIDE DEF Good
    <3> QED
      BY <1>1, <1>5
  <2>2. f[k + 1] = RemoveOutput(g, d, ref, d.tx[ref[1]])
    <3>1. f[k + 1] = RemoveOutput(g, d, <<t, k + 1>>, d.tx[t])
      BY <1>2, <1>5, <2>1 DEF RemovedRun
    <3>2. ref[1] = t
      OBVIOUS
    <3> QED
      BY <3>1, <3>2
  <2>3. Out(k + 1) = O \cup {ref}
    BY <2>1
  <2>4. Addressed(ref) => Payee(ref) \in DOMAIN d.address
    <3>1. ref \in OutputsOf({t})
      BY <1>1, <2>1
    <3> HIDE DEF ref
    <3> QED
      BY <3>1
  <2>5. /\ Quiet(m, g) /\ (ListsTaken(m, d, OutputsOf(T)) => ListsTaken(g, d, O))
        /\ IsMem(g) /\ DOMAIN g.seenAddress \cap DOMAIN d.address = {}
    BY <2>1 DEF Quiet
  <2> HIDE DEF ref, O, g, N, S, Good
  <2>6. LET n == RemoveOutput(g, d, ref, d.tx[ref[1]])
        IN  Quiet(g, n) /\ (ListsTaken(g, d, O) => ListsTaken(n, d, O \cup {ref}))
    BY <2>4, <2>5, RemoveOutputLists
  <2>7. Quiet(m, f[k + 1])
    BY <2>2, <2>5, <2>6, QuietOn
  <2> HIDE DEF Out
  <2>8. ListsTaken(m, d, OutputsOf(T)) => ListsTaken(f[k + 1], d, Out(k + 1))
    BY <2>2, <2>3, <2>5, <2>6
  <2> QED
    BY <2>1, <2>7, <2>8 DEF S, Good
<1>6. S = 0..N
  <2>1. S \in SUBSET (0..N)
    OBVIOUS
  <2>2. N \in Nat
    BY <1>1
  <2> HIDE DEF S, N, Good
  <2>3. \A k \in S : k < N => k + 1 \in S
    BY <1>5
  <2> QED
    BY <1>4, <2>1, <2>2, <2>3, UpTo
<1>7. Good(N)
  <2>1. N \in 0..N
    BY <1>1
  <2> HIDE DEF N, Good
  <2> QED
    BY <1>6, <2>1
<1> HIDE DEF Out, N
<1> QED
  BY <1>2, <1>3, <1>7

\* One transaction of removeBlock.
LEMMA RemoveTxLists ==
    ASSUME NEW m, NEW d, IsMem(m), DOMAIN m.seenAddress \cap DOMAIN d.address = {},
           m.seenTx = EmptyTable, m.seenUtxo = EmptyTable,
           NEW R, OneKey(d.tx, R), NEW T, NEW t \in Txs, t \in DOMAIN d.tx, d.tx[t] \in Nat,
           \A ref \in ToSet(Ins[t]) : ref \in R /\ ref[1] \in DOMAIN d.tx,
           \A ref \in OutputsOf({t}) : Addressed(ref) => Payee(ref) \in DOMAIN d.address
    PROVE  LET n == RemoveTx(m, d, t)
           IN  /\ Quiet(m, n)
               /\ ListsTaken(m, d, OutputsOf(T)) => ListsTaken(n, d, OutputsOf(T \cup {t}))
<1> DEFINE s == GetTxSymbol(m, d, t)
           back == RevalidateInputs(m, d, t)
           gone == RemoveOutputs(back, d, t, d.tx[t])
           n == RemoveTx(m, d, t)
<1>1. \A u \in DOMAIN d.tx : GetTxSymbol(m, d, u) = d.tx[u]
  BY EmptyTableIsEmpty DEF GetTxSymbol
<1>2. s = d.tx[t] /\ s # NoSymbol
  BY <1>1 DEF NoSymbol
<1>3. n = [gone EXCEPT !.ops.tx = With(@, t, Deleted)]
  <2>1. n = [RemoveOutputs(back, d, t, s) EXCEPT !.ops.tx = With(@, t, Deleted)]
    BY <1>2, Zenon DEF RemoveTx
  <2> QED
    BY <1>2, <2>1
<1> HIDE DEF s, back, gone, n
<1>4. Quiet(m, back) /\ back.ops.list = m.ops.list
  <2> DEFINE I == {}
  <2>1. \A ref \in ToSet(Ins[t]) : ref \in R /\ ref \notin I /\ GetTxSymbol(m, d, ref[1]) = d.tx[ref[1]]
    BY <1>1
  <2>2. I \in SUBSET R
    OBVIOUS
  <2> HIDE DEF I
  <2>3. Quiet(m, back)
    BY <2>1, <2>2, RevalidatedTakes DEF back
  <2> QED
    BY <2>3, RevalidatedTyped DEF back, SameListOps
<1>5. IsMem(back) /\ DOMAIN back.seenAddress \cap DOMAIN d.address = {}
  BY <1>4 DEF Quiet
<1>6. /\ Quiet(back, gone)
      /\ ListsTaken(back, d, OutputsOf(T)) => ListsTaken(gone, d, OutputsOf(T \cup {t}))
  BY <1>5, RemovedLists DEF gone
<1>7. Quiet(gone, n) /\ n.ops.list = gone.ops.list
  BY <1>3, <1>6 DEF IsMem, Quiet
<1>8. Quiet(m, n)
  BY <1>4, <1>6, <1>7, QuietOn
<1>9. ListsTaken(m, d, OutputsOf(T)) => ListsTaken(back, d, OutputsOf(T))
  BY <1>4 DEF ListsTaken
<1>10. ListsTaken(gone, d, OutputsOf(T \cup {t})) => ListsTaken(n, d, OutputsOf(T \cup {t}))
  BY <1>7 DEF ListsTaken
<1> QED
  BY <1>6, <1>8, <1>9, <1>10 DEF n
\* removeBlock takes the entries of what the block made out of the lists on disk.
LEMMA RemoveBlockLists ==
    ASSUME NEW m, NEW d, IsMem(m), DOMAIN m.seenAddress \cap DOMAIN d.address = {},
           NEW b \in Blocks, NoNames(m), m.seenTx = m.ops.tx, NEW last,
           TxNames(d.tx, d.txid, last, b),
           \A ref \in OutputsOf(Mined(b)) : Addressed(ref) => Payee(ref) \in DOMAIN d.address,
           m.ops.list = EmptyTable, m.seenUtxo = EmptyTable
    PROVE  ListsTaken(RemoveBlock(m, d, b), d, OutputsOf(ToSet(TxsOf[b])))
<1> DEFINE N == Len(TxsOf[b])
           R == OutputsOf(Mined(b))
           B == ToSet(TxsOf[b])
           n == RemoveBlock(m, d, b)
<1>1. /\ N \in Nat /\ N \in 0..N /\ 0 \in 0..N /\ B = First(b, N) /\ First(b, 0) = {}
      /\ \A i \in 1..N : TxsOf[b][i] \in Txs /\ TxsOf[b][i] \in B
  <2>1. \A i \in 1..N : TxsOf[b][i] \in First(b, N)
    BY DEF First
  <2> QED
    BY <2>1, FirstAll
<1>2. Mined(b) = Mined(Parent[b]) \cup B
  BY MinedSplit
<1>3. /\ DOMAIN d.tx = Mined(b)
      /\ \A t \in Mined(b) : d.tx[t] \in Nat /\ d.txid[d.tx[t]] = t
  BY DEF TxNames
<1>4. OneKey(d.tx, R)
  BY <1>3, OwnKeys
<1>5. b \in BlockOrNone /\ Closed(Mined(b))
  BY MinedClosed DEF BlockOrNone
<1>6. ASSUME NEW t \in B, NEW ref \in ToSet(Ins[t]) PROVE ref \in R /\ ref[1] \in DOMAIN d.tx
  <2>1. t \in Txs
    BY <1>1 DEF First
  <2>2. ref \in OutputRefs
    BY <2>1, UtxoIndexerAssumption DEF UtxoIndexerAssumption, ToSet
  <2>3. ref[1] \in Mined(b)
    BY <1>2, <1>5 DEF Closed
  <2> QED
    BY <1>3, <2>2, <2>3 DEF OutputsOf
<1>7. PICK f : UndoneRun(f, m, d, b) /\ n = Unnamed(f[N], m, d, b)
  BY <1>1, UndoneUnfolds
<1> DEFINE Good(k) == Quiet(m, f[k]) /\ ListsTaken(f[k], d, OutputsOf(First(b, k)))
           S == {k \in 0..N : Good(k)}
<1>8. 0 \in S
  <2>1. f[0] = m /\ 0 \in 0..N /\ OutputsOf(First(b, 0)) = {}
    BY <1>1, <1>7 DEF UndoneRun, OutputsOf
  <2>2. Quiet(m, m)
    BY DEF Quiet
  <2>3. ListsTaken(m, d, {})
    BY EmptyTableIsEmpty DEF ListsTaken
  <2> HIDE DEF N
  <2> QED
    BY <2>1, <2>2, <2>3
<1>9. ASSUME NEW k \in S, k < N PROVE k + 1 \in S
  <2> DEFINE t == TxsOf[b][k + 1]
             T == First(b, k)
             g == f[k]
  <2>1. k \in 0..N /\ k + 1 \in 0..N /\ k + 1 \in 1..N /\ Good(k)
    <3> HIDE DEF Good
    <3> QED
      BY <1>1, <1>9
  <2>2. f[k + 1] = RemoveTx(g, d, t)
    BY <1>7, <1>9, <2>1 DEF UndoneRun
  <2>3. t \in Txs /\ t \in B /\ t \in DOMAIN d.tx /\ d.tx[t] \in Nat
    BY <1>1, <1>2, <1>3, <2>1
  <2>4. First(b, k + 1) = T \cup {t}
    BY <2>1 DEF First
  <2>5. /\ IsMem(g) /\ g.seenTx = EmptyTable /\ g.seenUtxo = EmptyTable
        /\ DOMAIN g.seenAddress \cap DOMAIN d.address = {}
    BY <2>1 DEF Quiet, NoNames
  <2>6. Quiet(m, g) /\ ListsTaken(g, d, OutputsOf(T))
    BY <2>1
  <2> HIDE DEF t, T, g, N, B, Good, S
  <2>7. \A ref \in ToSet(Ins[t]) : ref \in R /\ ref[1] \in DOMAIN d.tx
    BY <1>6, <2>3
  <2>8. \A ref \in OutputsOf({t}) : Addressed(ref) => Payee(ref) \in DOMAIN d.address
    BY <1>2, <2>3 DEF OutputsOf
  <2> HIDE DEF R
  <2>9. LET o == RemoveTx(g, d, t)
        IN  /\ Quiet(g, o)
            /\ ListsTaken(g, d, OutputsOf(T)) => ListsTaken(o, d, OutputsOf(T \cup {t}))
    BY <1>4, <2>3, <2>5, <2>7, <2>8, RemoveTxLists
  <2>10. Quiet(m, f[k + 1])
    BY <2>2, <2>6, <2>9, QuietOn
  <2>11. ListsTaken(f[k + 1], d, OutputsOf(First(b, k + 1)))
    BY <2>2, <2>4, <2>6, <2>9
  <2> QED
    BY <2>1, <2>10, <2>11 DEF S, Good
<1>10. S = 0..N
  <2>1. S \in SUBSET (0..N)
    OBVIOUS
  <2>2. N \in Nat
    BY <1>1
  <2> HIDE DEF S, N, Good
  <2>3. \A k \in S : k < N => k + 1 \in S
    BY <1>9
  <2> QED
    BY <1>8, <2>1, <2>2, <2>3, UpTo
<1> DEFINE g == f[N]
<1>11. Quiet(m, g) /\ ListsTaken(g, d, OutputsOf(B))
  <2>1. Good(N)
    <3> HIDE DEF N, Good
    <3> QED
      BY <1>1, <1>10
  <2> HIDE DEF N, B
  <2> QED
    BY <1>1, <2>1
<1> HIDE DEF g, S, Good, N, B, R
<1>12. n = Unnamed(g, m, d, b)
  BY <1>7 DEF g
<1> HIDE DEF n
<1>13. n.ops.list = g.ops.list
  BY <1>11, <1>12 DEF Quiet, IsMem, Unnamed
<1>14. ListsTaken(n, d, OutputsOf(B))
  BY <1>11, <1>13 DEF ListsTaken
<1> QED
  BY <1>14 DEF n, B

------------------------------------------------------------------------------
(* Lists: the table on disk *)

\* No block pays an address twice.
PaysOnce(b) ==
    \A ref, other \in OutputsOf(ToSet(TxsOf[b])) :
       Addressed(ref) /\ Payee(ref) = Payee(other) => ref = other

\* The list of an address in the table of lists, by the table of address symbols.
ListAt(list, address, a) == IF a \in DOMAIN address THEN OutsAt(list, address[a]) ELSE <<>>

\* The table of lists has, for each address, the outputs in R that pay it.
ListsExact(list, tx, address, R) ==
    /\ \A s \in DOMAIN list : \E a \in DOMAIN address : s = address[a]
    /\ \A a \in Addresses : HasEntries(ListAt(list, address, a), tx, R, a)

\* A symbol that is only in memory is new on disk.
LEMMA NewOnDisk ==
    ASSUME NEW ops, NEW address, IsInjective(Apply(ops, address)),
           DOMAIN ops \cap DOMAIN address = {}, \A a \in DOMAIN ops : ops[a] # Deleted
    PROVE  LET A == Apply(ops, address)
           IN  /\ \A a \in DOMAIN address : a \in DOMAIN A /\ A[a] = address[a]
               /\ \A a \in DOMAIN A \ DOMAIN address, x \in DOMAIN address : A[a] # address[x]
               /\ \A a : a \in DOMAIN A <=> a \in DOMAIN ops \cup DOMAIN address
<1> DEFINE A == Apply(ops, address)
<1>1. /\ \A a : a \in DOMAIN A <=> a \in DOMAIN ops \/ a \in DOMAIN address
      /\ \A a \in DOMAIN A : A[a] = IF a \in DOMAIN ops THEN ops[a] ELSE address[a]
  BY ApplyTable
<1> HIDE DEF A
<1>2. \A a \in DOMAIN address : a \in DOMAIN A /\ A[a] = address[a]
  BY <1>1
<1>3. \A a \in DOMAIN A \ DOMAIN address, x \in DOMAIN address : A[a] # address[x]
  BY <1>2 DEF IsInjective, A
<1> QED
  BY <1>1, <1>2, <1>3 DEF A
\* A batch has the lists that make the table exact.
LEMMA GatherExact ==
    ASSUME NEW m, NEW d, NEW b, Sound(m, d.address), Typed(m), TypedDb(d), Linked(m, d),
           NEW tx, NEW R, Listing(m, d, tx, R), m.ops.list = EmptyTable,
           \A s \in DOMAIN d.list : \E a \in DOMAIN d.address : s = d.address[a]
    PROVE  ListsExact(Apply(Gather(b, m, d).ops.list, d.list), tx,
                      Apply(m.ops.address, d.address), R)
<1> DEFINE A == Apply(m.ops.address, d.address)
           g == Gather(b, m, d).ops.list
           L == Apply(g, d.list)
<1>1. /\ IsMem(m) /\ IsInjective(A)
      /\ \A a \in DOMAIN m.ops.address : m.ops.address[a] # Deleted
  <2>1. IsMem(m) /\ IsInjective(A) /\ m.ops.address \in [DOMAIN m.ops.address -> Nat]
    BY DEF Sound, Symbols
  <2>2. Deleted \notin Nat
    BY UtxoIndexerAssumption DEF UtxoIndexerAssumption
  <2> HIDE DEF A
  <2> QED
    BY <2>1, <2>2
<1>2. /\ \A a \in DOMAIN d.address : a \in DOMAIN A /\ A[a] = d.address[a]
      /\ \A a \in DOMAIN A \ DOMAIN d.address, x \in DOMAIN d.address : A[a] # d.address[x]
      /\ \A a : a \in DOMAIN A <=> a \in DOMAIN m.ops.address \cup DOMAIN d.address
  <2>1. DOMAIN m.ops.address \cap DOMAIN d.address = {}
    BY DEF Linked
  <2> QED
    BY <1>1, <2>1, NewOnDisk
<1>3. \A a \in DOMAIN m.ops.address : A[a] = m.ops.address[a]
  <2>1. \A a \in DOMAIN A : A[a] = IF a \in DOMAIN m.ops.address THEN m.ops.address[a] ELSE d.address[a]
    BY ApplyTable
  <2> HIDE DEF A
  <2> QED
    BY <1>2, <2>1
<1> HIDE DEF A
<1>4. \A a : HasSymbol(m, d, a) => a \in DOMAIN A /\ AddressSymbol(m, d, a) = A[a]
  BY <1>2, <1>3 DEF HasSymbol, AddressSymbol, Linked
<1>5. ASSUME NEW a \in DOMAIN m.added
      PROVE  a \in DOMAIN A /\ AddressSymbol(m, d, a) = A[a]
  BY <1>4 DEF Listing
<1>6. /\ \A s \in DOMAIN UtxoLists(m, d) : s \in DOMAIN g /\ g[s] = UtxoLists(m, d)[s]
      /\ \A s \in DOMAIN g : s \in DOMAIN UtxoLists(m, d)
  BY <1>1, GatheredLists, EmptyTableIsEmpty
<1>7. \A s \in DOMAIN g : g[s] \in Lists /\ g[s] # Deleted
  <2>1. TypedDb(Gather(b, m, d).ops)
    BY <1>1, GatherTyped
  <2>2. Deleted \notin Lists
    BY UtxoIndexerAssumption DEF UtxoIndexerAssumption
  <2> QED
    BY <2>1, <2>2 DEF TypedDb
<1> HIDE DEF g
<1>8. \A s : s \in DOMAIN g <=> \E a \in DOMAIN m.added : s = A[a]
  BY <1>5, <1>6, ListsGathered
<1>9. ASSUME NEW a \in DOMAIN m.added
      PROVE  A[a] \in DOMAIN g /\ g[A[a]].outs = ListOf(d, A[a]).outs \o m.added[a]
  <2>1. A[a] \in DOMAIN g /\ A[a] \in DOMAIN UtxoLists(m, d)
    BY <1>6, <1>8
  <2>2. PICK x \in DOMAIN m.added : /\ A[a] = AddressSymbol(m, d, x)
                                    /\ UtxoLists(m, d)[A[a]] = Longer(m, d, A[a], x)
    BY <2>1, ListsGathered
  <2>3. x = a
    <3>1. a \in DOMAIN A /\ x \in DOMAIN A /\ A[x] = A[a]
      BY <1>5, <2>2
    <3> QED
      BY <1>1, <3>1 DEF IsInjective
  <2>4. g[A[a]] = Longer(m, d, A[a], a)
    BY <1>6, <2>1, <2>2, <2>3
  <2>5. Longer(m, d, A[a], a).outs = ListOf(d, A[a]).outs \o m.added[a]
    BY Zenon DEF Longer
  <2> QED
    BY <2>1, <2>4, <2>5
<1>10. /\ \A s : s \in DOMAIN L <=> s \in DOMAIN g \/ s \in DOMAIN d.list
       /\ \A s \in DOMAIN g : L[s] = g[s]
       /\ \A s \in DOMAIN d.list : s \notin DOMAIN g => L[s] = d.list[s]
  BY <1>7, ApplyTable
<1> HIDE DEF L
<1>11. \A s : ListOf(d, s).outs = OutsAt(d.list, s)
  BY DEF ListOf, OutsAt
<1>12. ASSUME NEW a \in DOMAIN A PROVE OutsAt(d.list, A[a]) = OnDisk(d, a)
  <2>1. CASE a \in DOMAIN d.address
    BY <1>2, <2>1 DEF OnDisk
  <2>2. CASE a \notin DOMAIN d.address
    <3>1. A[a] \notin DOMAIN d.list
      BY <1>2, <2>2
    <3> QED
      BY <2>2, <3>1 DEF OnDisk, OutsAt
  <2> QED
    BY <2>1, <2>2
<1>13. ASSUME NEW a \in Addresses PROVE ListAt(L, A, a) = OnDisk(d, a) \o Added(m, a)
  <2>1. OnDisk(d, a) \in Entries /\ OnDisk(d, a) \o <<>> = OnDisk(d, a)
    <3>1. OnDisk(d, a) \in Entries
      BY DEF Listing
    <3> QED
      BY <3>1 DEF Entries
  <2>2. CASE a \in DOMAIN m.added
    <3>1. a \in DOMAIN A /\ A[a] \in DOMAIN g /\ A[a] \in DOMAIN L /\ L[A[a]] = g[A[a]]
      BY <1>5, <1>9, <1>10, <2>2
    <3>2. ListAt(L, A, a) = g[A[a]].outs
      BY <3>1 DEF ListAt, OutsAt
    <3> QED
      BY <1>9, <1>11, <1>12, <2>2, <3>1, <3>2 DEF Added
  <2>3. CASE a \notin DOMAIN m.added /\ a \in DOMAIN A
    <3>1. A[a] \notin DOMAIN g
      BY <1>1, <1>5, <1>8, <2>3 DEF IsInjective
    <3>2. OutsAt(L, A[a]) = OutsAt(d.list, A[a])
      BY <1>10, <3>1 DEF OutsAt
    <3> QED
      BY <1>12, <2>1, <2>3, <3>2 DEF ListAt, Added
  <2>4. CASE a \notin DOMAIN m.added /\ a \notin DOMAIN A
    <3>1. a \notin DOMAIN d.address
      BY <1>2, <2>4
    <3> QED
      BY <2>1, <2>4, <3>1 DEF ListAt, Added, OnDisk
  <2> QED
    BY <2>2, <2>3, <2>4
<1>14. ASSUME NEW s \in DOMAIN L PROVE \E a \in DOMAIN A : s = A[a]
  BY <1>2, <1>5, <1>8, <1>10
<1>15. \A a \in Addresses : HasEntries(ListAt(L, A, a), tx, R, a)
  BY <1>13 DEF Listing
<1> QED
  BY <1>14, <1>15 DEF ListsExact, L, A, g

\* What waits after removeBlock makes the table of lists that of the parent.
LEMMA TakenListsExact ==
    ASSUME NEW m, NEW d, NEW c, NEW b \in Blocks, Sound(m, d.address), Typed(m), TypedDb(d),
           NEW last, TxNames(d.tx, d.txid, last, b), PaysOnce(b),
           Symbols(d.address, d.lastAddress),
           ListsExact(d.list, d.tx, d.address, OutputsOf(Mined(b))),
           ListsTaken(m, d, OutputsOf(ToSet(TxsOf[b]))),
           \A ref \in OutputsOf(Mined(b)) : Addressed(ref) => Payee(ref) \in DOMAIN d.address,
           m.added = EmptyTable, DOMAIN m.ops.address \cap DOMAIN d.address = {},
           DOMAIN m.ops.tx \subseteq ToSet(TxsOf[b])
    PROVE  ListsExact(Apply(Gather(c, m, d).ops.list, d.list), Apply(m.ops.tx, d.tx),
                      Apply(m.ops.address, d.address), OutputsOf(Mined(Parent[b])))
<1> DEFINE A == Apply(m.ops.address, d.address)
           tx == Apply(m.ops.tx, d.tx)
           g == Gather(c, m, d).ops.list
           L == Apply(g, d.list)
           B == ToSet(TxsOf[b])
           R == OutputsOf(Mined(b))
           P == OutputsOf(Mined(Parent[b]))
<1>1. /\ IsMem(m) /\ IsInjective(A)
      /\ \A a \in DOMAIN m.ops.address : m.ops.address[a] # Deleted
  <2>1. IsMem(m) /\ IsInjective(A) /\ m.ops.address \in [DOMAIN m.ops.address -> Nat]
    BY DEF Sound, Symbols
  <2>2. Deleted \notin Nat
    BY UtxoIndexerAssumption DEF UtxoIndexerAssumption
  <2> HIDE DEF A
  <2> QED
    BY <2>1, <2>2
<1>2. /\ \A a \in DOMAIN d.address : a \in DOMAIN A /\ A[a] = d.address[a]
      /\ \A a \in DOMAIN A \ DOMAIN d.address, x \in DOMAIN d.address : A[a] # d.address[x]
  BY <1>1, NewOnDisk
<1> HIDE DEF A
<1>3. /\ \A s : s \in DOMAIN g <=> s \in DOMAIN m.ops.list
      /\ \A s \in DOMAIN g : g[s] = m.ops.list[s] /\ g[s] # Deleted
  <2>1. \A s : s \notin DOMAIN UtxoLists(m, d)
    BY ListsGathered, EmptyTableIsEmpty
  <2>2. /\ \A s \in DOMAIN g \ DOMAIN UtxoLists(m, d) :
              s \in DOMAIN m.ops.list /\ g[s] = m.ops.list[s]
        /\ DOMAIN m.ops.list \subseteq DOMAIN g
    BY <1>1, GatheredLists
  <2>3. \A s \in DOMAIN m.ops.list : m.ops.list[s] # Deleted
    BY UtxoIndexerAssumption DEF UtxoIndexerAssumption, Typed
  <2> HIDE DEF g
  <2> QED
    BY <2>1, <2>2, <2>3
<1> HIDE DEF g
<1>4. /\ \A s : s \in DOMAIN L <=> s \in DOMAIN g \/ s \in DOMAIN d.list
      /\ \A s \in DOMAIN g : L[s] = g[s]
      /\ \A s \in DOMAIN d.list : s \notin DOMAIN g => L[s] = d.list[s]
  BY <1>3, ApplyTable
<1> HIDE DEF L
<1>5. /\ R = P \cup OutputsOf(B) /\ P \cap OutputsOf(B) = {}
      /\ Mined(b) = Mined(Parent[b]) \cup B
  BY MinedSplit DEF OutputsOf
<1>6. \A ref \in P : tx[ref[1]] = d.tx[ref[1]]
  <2>1. \A t \in Mined(Parent[b]) : t \in DOMAIN d.tx /\ t \notin DOMAIN m.ops.tx
    BY MinedSplit DEF TxNames
  <2>2. \A t \in Mined(Parent[b]) : tx[t] = d.tx[t]
    BY <2>1, ApplyTable
  <2> HIDE DEF tx
  <2> QED
    BY <2>2 DEF OutputsOf
<1>7. OneKey(d.tx, R)
  <2>1. \A t \in Mined(b) : d.tx[t] \in Nat /\ d.txid[d.tx[t]] = t
    BY DEF TxNames
  <2> QED
    BY <2>1, OwnKeys
<1>8. ASSUME NEW ref \in OutputsOf(B), Addressed(ref)
      PROVE  Payee(ref) \in DOMAIN d.address /\ d.address[Payee(ref)] \in DOMAIN g
  BY <1>3, <1>5, <1>8 DEF ListsTaken
<1>9. ASSUME NEW s \in DOMAIN g
      PROVE  \E ref \in OutputsOf(B) :
                /\ Addressed(ref) /\ Payee(ref) \in DOMAIN d.address /\ s = d.address[Payee(ref)]
                /\ g[s] = Without(ListOf(d, s), Key(d.tx, ref))
  BY <1>3, <1>8 DEF ListsTaken
<1>10. \A s : ListOf(d, s).outs = OutsAt(d.list, s)
  BY DEF ListOf, OutsAt
<1>11. NoAddress \notin Addresses
  BY UtxoIndexerAssumption DEF UtxoIndexerAssumption
<1> HIDE DEF B, R, P, tx
<1>12. ASSUME NEW a \in Addresses PROVE HasEntries(ListAt(L, A, a), d.tx, P, a)
  <2>1. HasEntries(ListAt(d.list, d.address, a), d.tx, R, a)
    BY DEF ListsExact, R
  <2>2. CASE a \in DOMAIN d.address /\ d.address[a] \in DOMAIN g
    <3> DEFINE s == d.address[a]
               list == ListOf(d, s)
    <3>1. PICK ref \in OutputsOf(B) : /\ Addressed(ref) /\ Payee(ref) \in DOMAIN d.address
                                       /\ s = d.address[Payee(ref)]
                                       /\ g[s] = Without(list, Key(d.tx, ref))
      BY <1>9, <2>2
    <3>2. Payee(ref) = a
      BY <2>2, <3>1 DEF Symbols, IsInjective
    <3>3. ListAt(L, A, a) = g[s].outs
      BY <1>2, <1>4, <2>2 DEF ListAt, OutsAt
    <3>4. list \in Lists /\ HasEntries(list.outs, d.tx, R, a)
      BY <1>10, <2>1, <2>2, ListOfType DEF ListAt
    <3>5. \A r \in OutputsOf(B) : Payee(r) = a => r = ref
      BY <3>1, <3>2 DEF PaysOnce, B
    <3>6. /\ ref \in PaidTo(R, a) /\ P \subseteq R /\ ref \notin P
          /\ PaidTo(R, a) = PaidTo(P, a) \cup {ref}
      BY <1>5, <3>2, <3>5 DEF PaidTo
    <3> HIDE DEF list, s
    <3>7. HasEntries(Without(list, Key(d.tx, ref)).outs, d.tx, P, a)
      BY <1>7, <3>4, <3>6, OneEntryLess
    <3> QED
      BY <3>1, <3>3, <3>7
  <2>3. CASE a \in DOMAIN d.address /\ d.address[a] \notin DOMAIN g
    <3>1. \A ref \in OutputsOf(B) : Payee(ref) # a
      <4>1. \A ref : Payee(ref) = a => Addressed(ref)
        BY <1>11 DEF Payee, Addressed
      <4> QED
        BY <1>8, <2>3, <4>1
    <3>2. PaidTo(R, a) = PaidTo(P, a)
      BY <1>5, <3>1 DEF PaidTo
    <3>3. ListAt(L, A, a) = ListAt(d.list, d.address, a)
      BY <1>2, <1>4, <2>3 DEF ListAt, OutsAt
    <3> QED
      BY <2>1, <3>2, <3>3 DEF HasEntries
  <2>4. CASE a \notin DOMAIN d.address
    <3>1. PaidTo(R, a) = {} /\ PaidTo(P, a) = {}
      <4>1. \A ref \in R : Payee(ref) # a
        BY <1>11, <2>4 DEF Payee, Addressed, R
      <4> QED
        BY <1>5, <4>1 DEF PaidTo
    <3>2. ListAt(d.list, d.address, a) = <<>>
      BY <2>4 DEF ListAt
    <3>3. a \in DOMAIN A => A[a] \notin DOMAIN L
      BY <1>2, <1>4, <1>9, <2>4 DEF ListsExact
    <3>4. ListAt(L, A, a) = <<>>
      BY <3>3 DEF ListAt, OutsAt
    <3> QED
      BY <2>1, <3>1, <3>2, <3>4 DEF HasEntries
  <2> QED
    BY <2>2, <2>3, <2>4
<1>13. \A a \in Addresses : HasEntries(ListAt(L, A, a), tx, P, a)
  BY <1>6, <1>12, SameEntries
<1>14. ASSUME NEW s \in DOMAIN L PROVE \E a \in DOMAIN A : s = A[a]
  <2>1. \E a \in DOMAIN d.address : s = d.address[a]
    BY <1>4, <1>9 DEF ListsExact
  <2> QED
    BY <1>2, <2>1
<1> QED
  BY <1>13, <1>14 DEF ListsExact, L, A, g, P, tx
------------------------------------------------------------------------------
(* Lists: the inductive invariant *)

\* If no block is taken back, or none spends what it makes and none pays an address twice,
\* and as long as no client asks for an address too early: the lists on disk have the outputs
\* of the indexed chain, the batch in flight makes them so for the chain memory is at, and
\* between blocks what waits in memory does.
Plain == Ordinary /\ (Removals = 0 \/ \A b \in Blocks : PaysOnce(b))

ListInv ==
    /\ ListsExact(db.list, db.tx, db.address, OutputsOf(Mined(db.best)))
    /\ Flushing => ListsExact(Apply(inflight.ops.list, db.list), Apply(inflight.ops.tx, db.tx),
                              Apply(inflight.ops.address, db.address), OutputsOf(Mined(best)))
    /\ pc # "aborted" => mem.ops.list = EmptyTable
    /\ pc = "idle" => Listing(mem, db, Apply(mem.ops.tx, db.tx), OutputsOf(Mined(best)))
    /\ pc = "removing" => mem.added = EmptyTable

\* Memory to which nothing was added, behind exact lists.
LEMMA FreshLists ==
    ASSUME NEW m, NEW d, NEW R, ListsExact(d.list, d.tx, d.address, R), m.added = EmptyTable
    PROVE  Listing(m, d, d.tx, R)
<1>1. \A a : a \notin DOMAIN m.added /\ Added(m, a) = <<>>
  BY EmptyTableIsEmpty DEF Added
<1>2. ASSUME NEW a \in Addresses
      PROVE  /\ OnDisk(d, a) \in Entries /\ Added(m, a) \in Entries
             /\ HasEntries(OnDisk(d, a) \o Added(m, a), d.tx, R, a)
  <2>1. OnDisk(d, a) = ListAt(d.list, d.address, a)
    BY DEF OnDisk, ListAt
  <2>2. HasEntries(OnDisk(d, a), d.tx, R, a)
    BY <2>1 DEF ListsExact
  <2>3. OnDisk(d, a) \in Entries
    BY <2>2 DEF HasEntries
  <2>4. OnDisk(d, a) \o <<>> = OnDisk(d, a) /\ <<>> \in Entries
    BY <2>3 DEF Entries
  <2> QED
    BY <1>1, <2>2, <2>3, <2>4
<1> QED
  BY <1>1, <1>2 DEF Listing

\* The invariant holds at the start.
LEMMA ListInvInit == Init => ListInv
<1> SUFFICES ASSUME Init PROVE ListInv
  OBVIOUS
<1>1. /\ db.list = EmptyTable /\ db.tx = EmptyTable /\ db.address = EmptyTable
      /\ db.best = NoBlock /\ best = NoBlock /\ pc = "idle"
      /\ mem.ops.list = EmptyTable /\ mem.added = EmptyTable /\ mem.ops.tx = EmptyTable
  BY DEF Init, EmptyDb, MemoryOf, EmptyOps
<1> DEFINE R == OutputsOf(Mined(NoBlock))
<1>2. R = {}
  BY ChainEnds DEF Mined, OutputsOf
<1> HIDE DEF R
<1>3. ASSUME NEW a \in Addresses PROVE HasEntries(ListAt(db.list, db.address, a), db.tx, R, a)
  <2>1. ListAt(db.list, db.address, a) = <<>>
    BY <1>1, EmptyTableIsEmpty DEF ListAt
  <2>2. PaidTo(R, a) = {}
    BY <1>2 DEF PaidTo
  <2>3. <<>> \in Entries /\ IsInjective(<<>>) /\ ToSet(<<>>) = {}
    BY DEF Entries, IsInjective, ToSet
  <2> QED
    BY <2>1, <2>2, <2>3 DEF HasEntries
<1>4. ListsExact(db.list, db.tx, db.address, R)
  BY <1>1, <1>3, EmptyTableIsEmpty DEF ListsExact
<1>5. Apply(mem.ops.tx, db.tx) = db.tx
  BY <1>1, ApplyNothing, EmptyTableIsEmpty
<1>6. Listing(mem, db, db.tx, R)
  BY <1>1, <1>4, FreshLists
<1> QED
  BY <1>1, <1>4, <1>5, <1>6 DEF ListInv, Flushing, R

\* Then a lemma for each action. AddBlock.
LEMMA AddBlockListed ==
    ASSUME FlushInv, SymbolInv, RecordInv, ListInv, AddBlock PROVE ListInv'
<1>1. PICK b \in Blocks : Parent[b] = best /\ best' = b /\ mem' = SaveBlock(mem, db, b)
  BY DEF AddBlock
<1>2. /\ pc = "idle" /\ pc' = (IF mem'.failed THEN "aborted" ELSE "idle")
      /\ UNCHANGED <<inflight, db>>
  BY DEF AddBlock
<1>3. Sound(mem, db.address) /\ DOMAIN db.utxo \subseteq Nat \X Nat
  BY <1>2, RestingTable DEF SymbolInv, SoundInv, Flushing
<1>4. mem.seenTx = mem.ops.tx /\ mem.ops.tx \in [DOMAIN mem.ops.tx -> Nat]
      /\ Names(mem.ops, mem.lastTx, db, Parent[b])
  BY <1>1, <1>2 DEF SymbolInv, NameInv
<1>5. /\ Readies(db) /\ ~mem.failed
      /\ Saving(mem, db, Apply(mem.ops.tx, db.tx), OutputsOf(Mined(Parent[b])))
  BY <1>1, <1>2 DEF RecordInv
<1>6. /\ ListsExact(db.list, db.tx, db.address, OutputsOf(Mined(db.best)))
      /\ mem.ops.list = EmptyTable
      /\ Listing(mem, db, Apply(mem.ops.tx, db.tx), OutputsOf(Mined(Parent[b])))
  BY <1>1, <1>2 DEF ListInv
<1>7. LET n == SaveBlock(mem, db, b)
      IN  SameListOps(mem, n) /\ Listing(n, db, Apply(n.ops.tx, db.tx), OutputsOf(Mined(b)))
  BY <1>3, <1>4, <1>5, <1>6, SaveBlockLists
<1>8. /\ Listing(mem', db', Apply(mem'.ops.tx, db'.tx), OutputsOf(Mined(best')))
      /\ mem'.ops.list = EmptyTable
  BY <1>1, <1>2, <1>6, <1>7 DEF SameListOps
<1>9. pc' # "removing" /\ ~Flushing'
  BY <1>2 DEF Flushing
<1> QED
  BY <1>2, <1>6, <1>8, <1>9 DEF ListInv

\* Gathering a batch that makes the lists exact for the chain of b.
LEMMA FlushBeginsListed ==
    ASSUME NEW m, NEW b, IsMem(m), ListInv,
           ListsExact(Apply(Gather(b, m, db).ops.list, db.list), Apply(m.ops.tx, db.tx),
                      Apply(m.ops.address, db.address), OutputsOf(Mined(b))),
           best' = b, db' = db, pc' \in {"flush", "removalFlush"},
           inflight' = Gather(b, m, db), mem' = [m EXCEPT !.ops = EmptyOps]
    PROVE  ListInv'
<1>1. inflight'.ops.tx = m.ops.tx /\ inflight'.ops.address = m.ops.address
  BY GatherParts
<1>2. mem'.ops.list = EmptyTable
  BY DEF IsMem, EmptyOps
<1>3. ListsExact(Apply(inflight'.ops.list, db'.list), Apply(inflight'.ops.tx, db'.tx),
                 Apply(inflight'.ops.address, db'.address), OutputsOf(Mined(best')))
  BY <1>1
<1>4. ListsExact(db.list, db.tx, db.address, OutputsOf(Mined(db.best)))
  BY DEF ListInv
<1> QED
  BY <1>2, <1>3, <1>4 DEF ListInv

\* Flush and StartRemoval.
LEMMA FlushListed ==
    ASSUME FlushInv, SymbolInv, RecordInv, TableInv, TypedInv, ListInv, Flush \/ StartRemoval
    PROVE  ListInv'
<1>1. /\ pc = "idle" /\ pc' \in {"flush", "removalFlush"} /\ best' = best /\ db' = db
      /\ inflight' = Gather(best, mem, db) /\ mem' = [mem EXCEPT !.ops = EmptyOps]
  BY DEF Flush, StartRemoval, BeginFlush
<1>2. Sound(mem, db.address) /\ IsMem(mem)
  BY <1>1, RestingTable DEF SymbolInv, SoundInv, Flushing, Sound
<1>3. Linked(mem, db)
  BY <1>1 DEF TableInv, Writing
<1>4. Typed(mem) /\ TypedDb(db)
  BY DEF TypedInv
<1>5. /\ Listing(mem, db, Apply(mem.ops.tx, db.tx), OutputsOf(Mined(best)))
      /\ mem.ops.list = EmptyTable
      /\ \A s \in DOMAIN db.list : \E a \in DOMAIN db.address : s = db.address[a]
  BY <1>1 DEF ListInv, ListsExact
<1>6. ListsExact(Apply(Gather(best, mem, db).ops.list, db.list), Apply(mem.ops.tx, db.tx),
                 Apply(mem.ops.address, db.address), OutputsOf(Mined(best)))
  BY <1>2, <1>3, <1>4, <1>5, GatherExact
<1> QED
  BY <1>1, <1>2, <1>6, FlushBeginsListed

\* What is on disk after the batch in flight is written.
LEMMA WrittenListed ==
    ASSUME FlushInv, SymbolInv, ListInv, Flushing
    PROVE  LET d == Written(db, inflight)
           IN  ListsExact(d.list, d.tx, d.address, OutputsOf(Mined(d.best)))
<1> DEFINE d == Written(db, inflight)
<1>1. d.best = best
  BY WrittenNamed
<1>2. /\ d.list = Apply(inflight.ops.list, db.list) /\ d.tx = Apply(inflight.ops.tx, db.tx)
      /\ d.address = Apply(inflight.ops.address, db.address)
  BY DEF Written
<1> HIDE DEF d
<1>3. ListsExact(d.list, d.tx, d.address, OutputsOf(Mined(d.best)))
  BY <1>1, <1>2 DEF ListInv
<1> QED
  BY <1>3 DEF d

\* FlushEnds.
LEMMA FlushEndsListed ==
    ASSUME FlushInv, SymbolInv, ListInv, FlushEnds PROVE ListInv'
<1>1. /\ Flushing /\ pc \in {"flush", "removalFlush"} /\ pc' \in {"idle", "removing"}
      /\ best' = best /\ db' = Written(db, inflight)
      /\ mem' = [mem EXCEPT !.seenBlock = EmptyTable, !.seenTx = EmptyTable,
                            !.seenAddress = EmptyTable, !.seenUtxo = EmptyTable,
                            !.added = EmptyTable]
  BY DEF FlushEnds, Flushing
<1>2. /\ db'.best = best /\ TxNames(db'.tx, db'.txid, db'.lastTx, best)
  BY <1>1, WrittenNamed
<1>3. ListsExact(db'.list, db'.tx, db'.address, OutputsOf(Mined(best)))
  BY <1>1, <1>2, WrittenListed
<1>4. IsMem(mem) /\ mem.ops.tx = EmptyTable /\ mem.ops.list = EmptyTable
  BY <1>1 DEF SymbolInv, SoundInv, Sound, NameInv, NoNames, ListInv
<1>5. mem'.ops = mem.ops /\ mem'.added = EmptyTable
  BY <1>1, <1>4 DEF IsMem
<1>6. Apply(mem'.ops.tx, db'.tx) = db'.tx
  BY <1>2, <1>4, <1>5, ApplyNothing DEF TxNames
<1>7. Listing(mem', db', db'.tx, OutputsOf(Mined(best)))
  BY <1>3, <1>5, FreshLists
<1>8. ~Flushing'
  BY <1>1 DEF Flushing
<1> QED
  BY <1>1, <1>2, <1>3, <1>4, <1>5, <1>6, <1>7, <1>8 DEF ListInv
\* RemoveBest.
LEMMA RemoveBestListed ==
    ASSUME Plain, FlushInv, BudgetInv, SymbolInv, RecordInv, TableInv, TypedInv, ListInv, RemoveBest
    PROVE  ListInv'
<1> DEFINE m == RemoveBlock(mem, db, best)
           B == ToSet(TxsOf[best])
<1>1. /\ pc = "removing" /\ best \in Blocks /\ db' = db /\ db.best = best
  BY DEF RemoveBest, FlushInv, BlockOrNone
<1>2. IsMem(mem) /\ Sound(mem, db.address) /\ DOMAIN db.utxo \subseteq Nat \X Nat
  BY <1>1, RestingTable DEF SymbolInv, SoundInv, Flushing, Sound
<1>3. /\ NoNames(mem) /\ mem.seenTx = mem.ops.tx
      /\ TxNames(db.tx, db.txid, db.lastTx, best)
      /\ Names(mem.ops, mem.lastTx, db, best)
      /\ Symbols(db.address, db.lastAddress)
  BY <1>1 DEF SymbolInv, SoundInv, NameInv
<1>4. /\ Readies(db) /\ mem.ops.utxo = EmptyTable /\ mem.seenUtxo = EmptyTable
  BY <1>1 DEF RecordInv
<1>5. /\ ExactTable(db.utxo, db.tx, db.address, best)
      /\ Linked(mem, db)
  BY <1>1 DEF TableInv
<1>6. Ordinary /\ SpendsOlder(best) /\ PaysOnce(best)
  BY <1>1 DEF Plain, Ordinary, BudgetInv
<1>7. Typed(mem) /\ TypedDb(db)
  BY DEF TypedInv
<1>8. /\ mem.ops.list = EmptyTable /\ mem.added = EmptyTable
      /\ ListsExact(db.list, db.tx, db.address, OutputsOf(Mined(best)))
  BY <1>1 DEF ListInv
<1>9. \A ref \in OutputsOf(Mined(best)) : Addressed(ref) => Payee(ref) \in DOMAIN db.address
  BY <1>5 DEF ExactTable
<1>10. LET n == RemoveBlock(mem, db, best)
       IN  Quiet(mem, n) /\ DOMAIN n.ops.tx \subseteq ToSet(TxsOf[best])
  BY <1>1, <1>2, <1>3, <1>4, <1>6, <1>9, RemoveBlockTakes
<1>11. ListsTaken(RemoveBlock(mem, db, best), db, OutputsOf(ToSet(TxsOf[best])))
  <2>1. DOMAIN mem.seenAddress \cap DOMAIN db.address = {}
    BY <1>5 DEF Linked
  <2> QED
    BY <1>1, <1>2, <1>3, <1>4, <1>8, <1>9, <2>1, RemoveBlockLists
<1>12. LET n == RemoveBlock(mem, db, best) IN Sound(n, db.address)
  BY <1>1, <1>2, <1>3, RemoveBlockNames
<1>13. StaysTyped(mem, RemoveBlock(mem, db, best))
  BY <1>1, <1>2, <1>7, RemoveBlockTyped
<1> HIDE DEF m
<1>14. /\ Quiet(mem, m) /\ DOMAIN m.ops.tx \subseteq B /\ ListsTaken(m, db, OutputsOf(B))
       /\ Sound(m, db.address) /\ StaysTyped(mem, m)
  BY <1>10, <1>11, <1>12, <1>13 DEF m
<1>15. IsMem(m) /\ Typed(m) /\ m.added = EmptyTable
  BY <1>7, <1>8, <1>14 DEF StaysTyped
<1>16. DOMAIN m.ops.address \cap DOMAIN db.address = {}
  BY <1>5, <1>14 DEF Linked, Quiet
<1>17. CASE m.failed
  <2>1. mem' = m /\ pc' = "aborted" /\ best' = best
    BY <1>17 DEF RemoveBest, m
  <2> QED
    BY <1>1, <1>8, <2>1 DEF ListInv, Flushing
<1>18. CASE ~m.failed
  <2>1. /\ best' = Parent[best] /\ pc' = "flush"
        /\ inflight' = Gather(Parent[best], m, db) /\ mem' = [m EXCEPT !.ops = EmptyOps]
    BY <1>18 DEF RemoveBest, BeginFlush, m
  <2>2. ListsExact(Apply(Gather(Parent[best], m, db).ops.list, db.list), Apply(m.ops.tx, db.tx),
                   Apply(m.ops.address, db.address), OutputsOf(Mined(Parent[best])))
    BY <1>1, <1>3, <1>6, <1>7, <1>8, <1>9, <1>14, <1>15, <1>16, TakenListsExact
  <2> QED
    BY <1>1, <1>15, <2>1, <2>2, FlushBeginsListed
<1> QED
  BY <1>17, <1>18

\* Restart.
LEMMA RestartsListed ==
    ASSUME FlushInv, SymbolInv, ListInv, Restart PROVE ListInv'
<1>1. db' = db \/ (db' = Written(db, inflight) /\ Flushing)
  BY DEF Restart, Flushing
<1>2. /\ ListsExact(db'.list, db'.tx, db'.address, OutputsOf(Mined(db'.best)))
      /\ TxNames(db'.tx, db'.txid, db'.lastTx, db'.best)
  <2>1. CASE db' = db
    BY <2>1 DEF SymbolInv, NameInv, ListInv
  <2>2. CASE db' = Written(db, inflight) /\ Flushing
    BY <2>2, WrittenNamed, WrittenListed
  <2> QED
    BY <1>1, <2>1, <2>2
<1>3. best' = db'.best /\ mem' = MemoryOf(db') /\ pc' = "idle"
  BY DEF Restart
<1>4. mem'.ops.tx = EmptyTable /\ mem'.ops.list = EmptyTable /\ mem'.added = EmptyTable
  BY <1>3 DEF MemoryOf, EmptyOps
<1>5. Apply(mem'.ops.tx, db'.tx) = db'.tx
  BY <1>2, <1>4, ApplyNothing DEF TxNames
<1>6. Listing(mem', db', db'.tx, OutputsOf(Mined(best')))
  BY <1>2, <1>3, <1>4, FreshLists
<1> QED
  BY <1>2, <1>3, <1>4, <1>5, <1>6 DEF ListInv, Flushing

\* So every step preserves it, but one of a client's look-up.
LEMMA ListInvNext ==
    Plain /\ AllInv /\ RecordInv /\ TypedInv /\ TableInv /\ ListInv /\ [Next]_vars /\ ~Query
       => ListInv'
<1> SUFFICES ASSUME Plain, FlushInv, BudgetInv, SymbolInv, RecordInv, TypedInv, TableInv, ListInv,
                    [Next]_vars, ~Query
             PROVE  ListInv'
  BY DEF AllInv
<1>1. CASE UNCHANGED vars
  BY <1>1 DEF vars, ListInv, Flushing
<1> QED
  BY <1>1, AddBlockListed, FlushListed, FlushEndsListed, RemoveBestListed, RestartsListed
  DEF Next

------------------------------------------------------------------------------
(* Sums *)

\* h has the sum of the weights w of each subset of U, as MapThenSumSet computes it.
Chosen(s) == CHOOSE x \in s : TRUE

SumRun(h, w, U) ==
    h = [s \in SUBSET U |-> IF s = {} THEN 0 ELSE w[Chosen(s)] + h[s \ {Chosen(s)}]]

LEMMA ChosenIn == ASSUME NEW s, s # {} PROVE Chosen(s) \in s
  BY Zenon DEF Chosen

\* The subsets up to a size.
Small(U, n) == {s \in SUBSET U : Cardinality(s) <= n}

LEMMA SmallEnds ==
    ASSUME NEW U, IsFiniteSet(U)
    PROVE  /\ Cardinality(U) \in Nat
           /\ \A s \in Small(U, 0) : s = {}
           /\ Small(U, Cardinality(U)) = SUBSET U
           /\ \A n \in Nat : Small(U, n) \subseteq Small(U, n + 1)
<1>1. ASSUME NEW s \in SUBSET U
      PROVE  /\ IsFiniteSet(s) /\ Cardinality(s) \in Nat
             /\ Cardinality(s) <= Cardinality(U)
  BY FS_Subset, FS_CardinalityType
<1>2. ASSUME NEW s \in Small(U, 0) PROVE s = {}
  <2>1. s \in SUBSET U /\ Cardinality(s) <= 0
    BY DEF Small
  <2>2. Cardinality(s) = 0
    BY <1>1, <2>1
  <2> QED
    BY <1>1, <2>1, <2>2, FS_EmptySet
<1>3. ASSUME NEW n \in Nat, NEW s \in Small(U, n) PROVE s \in Small(U, n + 1)
  <2>1. s \in SUBSET U /\ Cardinality(s) <= n
    BY DEF Small
  <2>2. Cardinality(s) <= n + 1
    BY <1>1, <2>1
  <2> QED
    BY <2>1, <2>2 DEF Small
<1> QED
  BY <1>1, <1>2, <1>3, FS_CardinalityType DEF Small

\* Without one of its elements, a set is smaller.
LEMMA OneAway ==
    ASSUME NEW U, IsFiniteSet(U), NEW n \in Nat, NEW s \in Small(U, n + 1), NEW x \in s
    PROVE  s \ {x} \in Small(U, n)
<1>1. s \in SUBSET U /\ IsFiniteSet(s) /\ Cardinality(s) <= n + 1
  BY FS_Subset DEF Small
<1>2. Cardinality(s) \in Nat
  BY <1>1, FS_CardinalityType
<1>3. Cardinality(s \ {x}) = Cardinality(s) - 1
  BY <1>1, FS_RemoveElement
<1>4. Cardinality(s \ {x}) <= n
  BY <1>1, <1>2, <1>3
<1> QED
  BY <1>1, <1>4 DEF Small

\* There is such an h.
LEMMA SumExists ==
    ASSUME NEW w, NEW U, IsFiniteSet(U)
    PROVE  \E h : SumRun(h, w, U)
<1> DEFINE N == Cardinality(U)
           Step(h, s) == IF s = {} THEN 0 ELSE w[Chosen(s)] + h[s \ {Chosen(s)}]
           Solves(h, n) == h = [s \in Small(U, n) |-> Step(h, s)]
           S == {n \in 0..N : \E h : Solves(h, n)}
<1>1. N \in Nat
  BY SmallEnds
<1>2. 0 \in S
  <2> DEFINE h == [s \in Small(U, 0) |-> 0]
  <2>1. \A s \in Small(U, 0) : Step(h, s) = 0
    BY SmallEnds
  <2> HIDE DEF Step
  <2>2. Solves(h, 0)
    BY <2>1
  <2> HIDE DEF Solves, N
  <2> QED
    BY <1>1, <2>2
<1>3. ASSUME NEW n \in S, n < N PROVE n + 1 \in S
  <2>1. n \in Nat /\ n + 1 \in 0..N
    BY <1>1, <1>3
  <2>2. PICK f : Solves(f, n)
    BY <1>3
  <2> DEFINE g == [s \in Small(U, n + 1) |-> Step(f, s)]
  <2> HIDE DEF Step
  <2>3. \A s \in Small(U, n) : g[s] = f[s]
    BY <2>1, <2>2, SmallEnds
  <2>4. ASSUME NEW s \in Small(U, n + 1) PROVE Step(f, s) = Step(g, s)
    <3>1. CASE s = {}
      BY <3>1 DEF Step
    <3>2. CASE s # {}
      <4>1. s \ {Chosen(s)} \in Small(U, n)
        BY <2>1, <3>2, ChosenIn, OneAway
      <4>2. g[s \ {Chosen(s)}] = f[s \ {Chosen(s)}]
        BY <2>3, <4>1
      <4> HIDE DEF g
      <4> QED
        BY <4>2 DEF Step
    <3> QED
      BY <3>1, <3>2
  <2>5. Solves(g, n + 1)
    BY <2>4
  <2> HIDE DEF g, Solves, N
  <2> QED
    BY <2>1, <2>5
<1>4. \E h : Solves(h, N)
  <2>1. S \in SUBSET (0..N)
    OBVIOUS
  <2> HIDE DEF S, N, Solves
  <2>2. \A n \in S : n < N => n + 1 \in S
    BY <1>3
  <2>3. N \in 0..N
    BY <1>1
  <2>4. S = 0..N
    BY <1>1, <1>2, <2>1, <2>2, UpTo
  <2> QED
    BY <2>3, <2>4 DEF S
<1>5. PICK h : Solves(h, N)
  BY <1>4
<1>6. h = [s \in SUBSET U |-> Step(h, s)]
  BY <1>5, SmallEnds
<1> QED
  BY <1>6 DEF SumRun

\* Any element may be the first to be added.
LEMMA SumSplits ==
    ASSUME NEW w, NEW U, IsFiniteSet(U), \A x \in U : w[x] \in Nat, NEW h, SumRun(h, w, U)
    PROVE  /\ h[{}] = 0
           /\ \A s \in SUBSET U : h[s] \in Nat /\ \A x \in s : h[s] = w[x] + h[s \ {x}]
<1> DEFINE N == Cardinality(U)
           Good(s) == h[s] \in Nat /\ \A x \in s : h[s] = w[x] + h[s \ {x}]
           S == {n \in 0..N : \A s \in Small(U, n) : Good(s)}
<1>1. N \in Nat /\ Small(U, N) = SUBSET U
  BY SmallEnds
<1>2. \A s \in SUBSET U : h[s] = IF s = {} THEN 0 ELSE w[Chosen(s)] + h[s \ {Chosen(s)}]
  BY DEF SumRun
<1>3. h[{}] = 0
  BY <1>2
<1>4. 0 \in S
  <2>1. ASSUME NEW s \in Small(U, 0) PROVE Good(s)
    <3>1. s = {}
      BY SmallEnds
    <3> QED
      BY <1>3, <3>1
  <2> HIDE DEF Good, N
  <2> QED
    BY <1>1, <2>1
<1>5. ASSUME NEW n \in S, n < N PROVE n + 1 \in S
  <2>1. n \in Nat /\ n + 1 \in 0..N
    BY <1>1, <1>5
  <2>2. \A s \in Small(U, n) : Good(s)
    BY <1>5
  <2>3. ASSUME NEW s \in Small(U, n + 1) PROVE Good(s)
    <3>1. s \in SUBSET U /\ \A x \in s : s \ {x} \in Small(U, n)
      BY <2>1, OneAway DEF Small
    <3>2. CASE s = {}
      BY <1>3, <3>2
    <3>3. CASE s # {}
      <4> DEFINE c == Chosen(s)
      <4>1. c \in s /\ w[c] \in Nat /\ h[s] = w[c] + h[s \ {c}]
        BY <1>2, <3>1, <3>3, ChosenIn
      <4> HIDE DEF c
      <4>2. h[s \ {c}] \in Nat
        BY <2>2, <3>1, <4>1
      <4>3. h[s] \in Nat
        BY <4>1, <4>2
      <4>4. ASSUME NEW x \in s PROVE h[s] = w[x] + h[s \ {x}]
        <5>1. CASE x = c
          BY <4>1, <5>1
        <5>2. CASE x # c
          <6> DEFINE r == (s \ {c}) \ {x}
          <6>1. r = (s \ {x}) \ {c} /\ x \in s \ {c} /\ c \in s \ {x}
            BY <4>1, <5>2
          <6>2. h[s \ {c}] = w[x] + h[r]
            BY <2>2, <3>1, <4>1, <6>1
          <6>3. h[s \ {x}] = w[c] + h[r]
            BY <2>2, <3>1, <4>1, <6>1
          <6>4. h[r] \in Nat /\ w[x] \in Nat
            <7>1. s \ {c} \in Small(U, n)
              BY <3>1, <4>1
            <7>2. r \in Small(U, n)
              <8>1. s \ {c} \in Small(U, n + 1)
                BY <2>1, <7>1, SmallEnds
              <8> QED
                BY <2>1, <6>1, <8>1, OneAway
            <7> QED
              BY <2>2, <3>1, <7>2
          <6> HIDE DEF r
          <6> QED
            BY <4>1, <6>2, <6>3, <6>4
        <5> QED
          BY <5>1, <5>2
      <4> QED
        BY <4>3, <4>4
    <3> QED
      BY <3>2, <3>3
  <2> HIDE DEF N, Good
  <2> QED
    BY <2>1, <2>3
<1>6. N \in S
  <2>1. S \in SUBSET (0..N)
    OBVIOUS
  <2> HIDE DEF S, N, Good
  <2>2. \A n \in S : n < N => n + 1 \in S
    BY <1>5
  <2>3. N \in 0..N
    BY <1>1
  <2>4. S = 0..N
    BY <1>1, <1>4, <2>1, <2>2, UpTo
  <2> QED
    BY <2>3, <2>4
<1>7. \A s \in SUBSET U : Good(s)
  BY <1>1, <1>6
<1> QED
  BY <1>3, <1>7

\* What is paired one to one has one sum.
LEMMA SumMapped ==
    ASSUME NEW w, NEW U, IsFiniteSet(U), \A x \in U : w[x] \in Nat, NEW h, SumRun(h, w, U),
           NEW v, NEW V, NEW k, SumRun(k, v, V), IsFiniteSet(V),
           NEW p, \A x \in U : v[p[x]] = w[x],
           \A x, y \in U : p[x] = p[y] => x = y, V = {p[x] : x \in U}
    PROVE  h[U] = k[V]
<1> DEFINE N == Cardinality(U)
           Image(s) == {p[x] : x \in s}
           Good(s) == h[s] = k[Image(s)]
           S == {n \in 0..N : \A s \in Small(U, n) : Good(s)}
<1>1. N \in Nat /\ Small(U, N) = SUBSET U
  BY SmallEnds
<1>2. /\ h[{}] = 0
      /\ \A s \in SUBSET U : h[s] \in Nat /\ \A x \in s : h[s] = w[x] + h[s \ {x}]
  BY SumSplits
<1>3. \A y \in V : v[y] \in Nat
  OBVIOUS
<1>4. /\ k[{}] = 0
      /\ \A s \in SUBSET V : k[s] \in Nat /\ \A x \in s : k[s] = v[x] + k[s \ {x}]
  BY <1>3, SumSplits
<1>5. Image({}) = {}
  OBVIOUS
<1>6. 0 \in S
  <2>1. ASSUME NEW s \in Small(U, 0) PROVE Good(s)
    <3>1. s = {}
      BY SmallEnds
    <3> QED
      BY <1>2, <1>4, <1>5, <3>1
  <2> HIDE DEF Good, N
  <2> QED
    BY <1>1, <2>1
<1>7. ASSUME NEW n \in S, n < N PROVE n + 1 \in S
  <2>1. n \in Nat /\ n + 1 \in 0..N
    BY <1>1, <1>7
  <2>2. \A s \in Small(U, n) : Good(s)
    BY <1>7
  <2>3. ASSUME NEW s \in Small(U, n + 1) PROVE Good(s)
    <3>1. s \in SUBSET U /\ \A x \in s : s \ {x} \in Small(U, n)
      BY <2>1, OneAway DEF Small
    <3>2. CASE s = {}
      BY <1>2, <1>4, <1>5, <3>2
    <3>3. CASE s # {}
      <4>1. PICK x \in s : TRUE
        BY <3>3
      <4>2. h[s] = w[x] + h[s \ {x}] /\ h[s \ {x}] = k[Image(s \ {x})]
        BY <1>2, <2>2, <3>1
      <4>3. Image(s) \in SUBSET V /\ p[x] \in Image(s) /\ Image(s \ {x}) = Image(s) \ {p[x]}
        BY <3>1
      <4>4. k[Image(s)] = v[p[x]] + k[Image(s) \ {p[x]}]
        BY <1>4, <4>3
      <4>5. v[p[x]] = w[x]
        BY <3>1
      <4> HIDE DEF Image
      <4> QED
        BY <4>2, <4>3, <4>4, <4>5
    <3> QED
      BY <3>2, <3>3
  <2> HIDE DEF N, Good
  <2> QED
    BY <2>1, <2>3
<1>8. N \in S
  <2>1. S \in SUBSET (0..N)
    OBVIOUS
  <2> HIDE DEF S, N, Good
  <2>2. \A n \in S : n < N => n + 1 \in S
    BY <1>7
  <2>3. N \in 0..N
    BY <1>1
  <2>4. S = 0..N
    BY <1>1, <1>6, <2>1, <2>2, UpTo
  <2> QED
    BY <2>3, <2>4
<1>9. \A s \in SUBSET U : Good(s)
  BY <1>1, <1>8
<1> HIDE DEF N
<1> QED
  BY <1>9
\* The places in the list of a symbol of the outputs that count at a height, and what is
\* on them.
Counted(d, symbol, height) ==
    {i \in DOMAIN d.list[symbol].outs : Counts(d.utxo[d.list[symbol].outs[i]], height)}

SatsAt(d, symbol, height) ==
    [i \in Counted(d, symbol, height) |-> d.utxo[d.list[symbol].outs[i]].sats]

\* The balance is their sum,
LEMMA BalanceSums ==
    ASSUME NEW d, NEW symbol, NEW height, IsFiniteSet(Counted(d, symbol, height))
    PROVE  \E h : /\ SumRun(h, SatsAt(d, symbol, height), Counted(d, symbol, height))
                  /\ BalanceOf(d, symbol, height) = h[Counted(d, symbol, height)]
<1> DEFINE U == Counted(d, symbol, height)
           Sats(i) == d.utxo[d.list[symbol].outs[i]].sats
           w == [i \in U |-> Sats(i)]
           Solves(h) == h = [s \in SUBSET U |-> IF s = {} THEN 0
                                                ELSE Sats(Chosen(s)) + h[s \ {Chosen(s)}]]
           sum == CHOOSE h : Solves(h)
<1>1. BalanceOf(d, symbol, height) = sum[U]
  BY Zenon DEF BalanceOf, MapThenSumSet, MapThenFoldSet, Chosen, Counted
<1>2. \A s \in SUBSET U : s # {} => w[Chosen(s)] = Sats(Chosen(s))
  BY ChosenIn
<1> HIDE DEF Sats, w, U
<1>3. \A h : SumRun(h, w, U) <=> Solves(h)
  BY <1>2 DEF SumRun
<1>4. \E h : Solves(h)
  BY <1>3, SumExists DEF U
<1> HIDE DEF Solves
<1>5. Solves(sum)
  BY <1>4
<1>6. SumRun(sum, w, U)
  BY <1>3, <1>5
<1> HIDE DEF sum
<1> QED
  BY <1>1, <1>6 DEF w, Sats, U, SatsAt

\* and what the chain leaves an address a sum over outputs.
LEMMA LedgerSums ==
    ASSUME NEW b, NEW a, IsFiniteSet(Unspent(b, a))
    PROVE  \E h : /\ SumRun(h, [ref \in Unspent(b, a) |-> Outs[ref[1]][ref[2]].sats], Unspent(b, a))
                  /\ Ledger(b, a) = h[Unspent(b, a)]
<1> DEFINE U == Unspent(b, a)
           Sats(ref) == Outs[ref[1]][ref[2]].sats
           w == [ref \in U |-> Sats(ref)]
           Solves(h) == h = [s \in SUBSET U |-> IF s = {} THEN 0
                                                ELSE Sats(Chosen(s)) + h[s \ {Chosen(s)}]]
           sum == CHOOSE h : Solves(h)
<1>1. Ledger(b, a) = sum[U]
  BY Zenon DEF Ledger, MapThenSumSet, MapThenFoldSet, Chosen
<1>2. \A s \in SUBSET U : s # {} => w[Chosen(s)] = Sats(Chosen(s))
  BY ChosenIn
<1> HIDE DEF Sats, w, U
<1>3. \A h : SumRun(h, w, U) <=> Solves(h)
  BY <1>2 DEF SumRun
<1>4. \E h : Solves(h)
  BY <1>3, SumExists DEF U
<1> HIDE DEF Solves
<1>5. Solves(sum)
  BY <1>4
<1>6. SumRun(sum, w, U)
  BY <1>3, <1>5
<1> HIDE DEF sum
<1> QED
  BY <1>1, <1>6 DEF w, Sats, U
------------------------------------------------------------------------------
(* Lists: what the chain leaves an address at a height *)

\* The blocks of a chain up to one of them are the chain of that one.
LEMMA ChainBefore ==
    ASSUME NEW b \in BlockOrNone, NEW c \in Chain[b]
    PROVE  /\ c \in Blocks /\ Chain[c] \subseteq Chain[b]
           /\ \A e \in Chain[b] : Height[e] <= Height[c] => e \in Chain[c]
<1> DEFINE S == {x \in Blocks : /\ Chain[x] \subseteq Chain[b]
                                /\ \A e \in Chain[b] : Height[e] <= Height[x] => e \in Chain[x]}
<1>1. b \in Blocks
  BY ChainEnds DEF BlockOrNone
<1>2. b \in S
  BY <1>1
<1>3. ASSUME NEW x \in S PROVE Parent[x] \in S \cup {NoBlock}
  <2>1. CASE x = Genesis
    BY <2>1, BlockTreeAssumption DEF BlockTreeAssumption
  <2>2. CASE x # Genesis
    <3>1. /\ x \in Blocks /\ Parent[x] \in Blocks /\ Height[x] = Height[Parent[x]] + 1
          /\ Height[Parent[x]] \in Nat
      BY <2>2, BlockTreeAssumption DEF BlockTreeAssumption
    <3>2. Chain[x] = Chain[Parent[x]] \cup {x}
      BY ChainEnds, <3>1
    <3>3. ASSUME NEW e \in Chain[b], Height[e] <= Height[Parent[x]] PROVE e \in Chain[Parent[x]]
      <4>1. Height[e] \in Nat
        BY ChainHeight, BlockTreeAssumption DEF BlockTreeAssumption
      <4>2. Height[e] <= Height[x] /\ e # x
        BY <3>1, <3>3, <4>1
      <4> QED
        BY <3>2, <4>2
    <3> QED
      BY <3>1, <3>2, <3>3
  <2> QED
    BY <2>1, <2>2
<1>4. ParentClosed(S) /\ S \in SUBSET Blocks
  BY <1>3 DEF ParentClosed
<1> HIDE DEF S
<1>5. c \in S
  BY <1>2, <1>4 DEF Chain
<1> QED
  BY <1>5 DEF S

\* An output counts at the height of a block if that block's chain leaves it unspent.
LEMMA CountsUnspent ==
    ASSUME NEW top \in BlockOrNone, NEW c \in Chain[top], NEW ref \in OutputsOf(Mined(top)),
           NEW tx, NEW s
    PROVE  Counts(RecordIn(s, LifeOf(tx, top, Mined(top)), ref), Height[c])
              <=> ref[1] \in Mined(c) /\ \A t \in Mined(c) : ref \notin ToSet(Ins[t])
<1> DEFINE spenders == Spenders(Mined(top), ref)
           last == CHOOSE t \in spenders : TRUE
           life == LifeOf(tx, top, Mined(top))
           record == RecordIn(s, life, ref)
<1>1. /\ top \in Blocks /\ c \in Blocks /\ Chain[c] \subseteq Chain[top] /\ Height[c] \in Nat
      /\ \A e \in Chain[top] : Height[e] <= Height[c] => e \in Chain[c]
  BY ChainBefore, ChainEnds, BlockTreeAssumption DEF BlockOrNone, BlockTreeAssumption
<1>2. ASSUME NEW t \in Mined(top)
      PROVE  /\ MinedOn(top, t) \in Nat
             /\ MinedOn(top, t) <= Height[c] <=> t \in Mined(c)
  <2>1. PICK e \in Chain[top] : t \in ToSet(TxsOf[e])
    BY DEF Mined
  <2>2. MinedOn(top, t) = Height[e] /\ Height[e] \in Nat
    BY <2>1, MinedOnIs
  <2>3. MinedOn(top, t) <= Height[c] => t \in Mined(c)
    BY <1>1, <2>1, <2>2 DEF Mined
  <2>4. ASSUME t \in Mined(c) PROVE MinedOn(top, t) <= Height[c]
    <3>1. PICK f \in Chain[c] : t \in ToSet(TxsOf[f])
      BY <2>4 DEF Mined
    <3>2. MinedOn(top, t) = Height[f]
      BY <1>1, <3>1, MinedOnIs
    <3>3. Height[f] <= HeightOf(c) /\ HeightOf(c) = Height[c]
      BY <1>1, ChainHeight, BlockTreeAssumption DEF BlockOrNone, HeightOf, BlockTreeAssumption
    <3> QED
      BY <3>2, <3>3
  <2> QED
    BY <2>2, <2>3, <2>4
<1>3. ref \in OutputRefs /\ ref[1] \in Mined(top)
  BY DEF OutputsOf
<1>4. life[ref] = LifeWith(tx, top, ref, spenders)
  BY <1>3 DEF LifeOf
<1>5. record.createdOn = life[ref].created /\ record.spentOn = life[ref].at
  BY Zenon DEF RecordIn
<1> HIDE DEF record, life
<1>6. /\ record.createdOn = MinedOn(top, ref[1])
      /\ record.spentOn = IF spenders = {} THEN NoSymbol ELSE MinedOn(top, last)
  <2> HIDE DEF spenders, last
  <2> QED
    BY <1>4, <1>5 DEF LifeWith, last
<1>7. Mined(c) \subseteq Mined(top)
  BY <1>1 DEF Mined
<1>8. CASE spenders = {}
  <2>1. record.spentOn = NoSymbol
    BY <1>6, <1>8
  <2>2. \A t \in Mined(c) : ref \notin ToSet(Ins[t])
    BY <1>7, <1>8 DEF Spenders
  <2> QED
    BY <1>2, <1>3, <1>6, <2>1, <2>2 DEF Counts, record, life
<1>9. CASE spenders # {}
  <2>1. last \in spenders
    BY <1>9
  <2>2. last \in Mined(top) /\ ref \in ToSet(Ins[last])
    BY <2>1 DEF Spenders
  <2>3. ASSUME NEW t \in Mined(top), ref \in ToSet(Ins[t]) PROVE t = last
    <3>1. PICK e \in Chain[top] : t \in ToSet(TxsOf[e])
      BY DEF Mined
    <3>2. PICK f \in Chain[top] : last \in ToSet(TxsOf[f])
      BY <2>2 DEF Mined
    <3>3. ToSet(Ins[t]) \cap ToSet(Ins[last]) # {}
      BY <2>2, <2>3
    <3> HIDE DEF last, spenders
    <3> QED
      BY <1>1, <3>1, <3>2, <3>3, SpentOnce
  <2>4. (\A t \in Mined(c) : ref \notin ToSet(Ins[t])) <=> last \notin Mined(c)
    BY <1>7, <2>2, <2>3
  <2>5. record.spentOn = MinedOn(top, last) /\ MinedOn(top, last) \in Nat
    BY <1>2, <1>6, <1>9, <2>2
  <2>6. record.spentOn # NoSymbol /\ (Height[c] < record.spentOn <=> last \notin Mined(c))
    BY <1>1, <1>2, <2>2, <2>5 DEF NoSymbol
  <2> HIDE DEF last
  <2> QED
    BY <1>2, <1>3, <1>6, <2>4, <2>6 DEF Counts, record, life
<1> QED
  BY <1>8, <1>9
------------------------------------------------------------------------------
(* What is on disk and stays keeps its symbols *)

\* The outputs of a transaction leave the block cache alone.
LEMMA OutputsLeave ==
    ASSUME NEW m, NEW d, IsMem(m), NEW t \in Txs, NEW symbol, NEW height
    PROVE  LET n == BatchTransactionOutputs(m, d, t, symbol, height)
           IN  IsMem(n) /\ n.seenBlock = m.seenBlock /\ n.ops.tx = m.ops.tx
<1> DEFINE N == Len(Outs[t])
           Same(x, y) == IsMem(y) /\ y.seenBlock = x.seenBlock /\ y.ops.tx = x.ops.tx
<1>1. N \in Nat
  BY UtxoIndexerAssumption DEF UtxoIndexerAssumption
<1>2. PICK f : /\ OutputsRun(f, m, d, t, symbol, height)
               /\ BatchTransactionOutputs(m, d, t, symbol, height) = f[N]
  BY <1>1, OutputsUnfolds
<1>3. ASSUME NEW x, IsMem(x), NEW ref PROVE Same(x, BatchOutput(x, d, ref, symbol, height))
  <2> DEFINE n == BatchOutput(x, d, ref, symbol, height)
             out == Outs[ref[1]][ref[2]]
             known == WithSymbol(x, d, out.address)
  <2>1. PICK u, s, l :
           \/ n = x
           \/ n = [known EXCEPT !.failed = TRUE]
           \/ n = [known EXCEPT !.ops.utxo = u, !.seenUtxo = s, !.added = l]
    BY Zenon DEF BatchOutput
  <2>2. IsMem(known) /\ known.seenBlock = x.seenBlock
    BY <1>3, LookedUp
  <2>3. known.ops.tx = x.ops.tx
    BY <1>3 DEF WithSymbol, NewSymbol, IsMem
  <2> HIDE DEF n, known
  <2>4. CASE n = x
    BY <1>3, <2>4 DEF n
  <2>5. CASE n = [known EXCEPT !.failed = TRUE]
    <3>1. IsMem(n) /\ n.seenBlock = x.seenBlock /\ n.ops.tx = x.ops.tx
      BY <2>2, <2>3, <2>5 DEF IsMem
    <3> QED
      BY <3>1 DEF n
  <2>6. CASE n = [known EXCEPT !.ops.utxo = u, !.seenUtxo = s, !.added = l]
    <3>1. IsMem(n) /\ n.seenBlock = x.seenBlock
      BY <2>2, <2>6 DEF IsMem
    <3>2. n.ops.tx = x.ops.tx
      BY <2>2, <2>3, <2>6 DEF IsMem
    <3> QED
      BY <3>1, <3>2 DEF n
  <2> QED
    BY <2>1, <2>4, <2>5, <2>6
<1> HIDE DEF Same
<1> DEFINE S == {k \in 0..N : Same(m, f[k])}
<1>4. 0 \in S
  BY <1>1, <1>2 DEF OutputsRun, Same
<1>5. ASSUME NEW k \in S, k < N PROVE k + 1 \in S
  <2>1. k \in 0..N /\ k + 1 \in 0..N
    BY <1>1, <1>5
  <2>2. f[k + 1] = BatchOutput(f[k], d, <<t, k + 1>>, symbol, height)
    BY <1>2, <1>5, <2>1 DEF OutputsRun
  <2>3. Same(m, f[k]) /\ IsMem(f[k])
    BY DEF Same
  <2>4. Same(f[k], f[k + 1])
    BY <1>3, <2>2, <2>3
  <2> QED
    BY <2>1, <2>3, <2>4 DEF Same
<1>6. S = 0..N
  <2>1. S \in SUBSET (0..N)
    OBVIOUS
  <2> HIDE DEF S, N
  <2>2. \A k \in S : k < N => k + 1 \in S
    BY <1>5
  <2> QED
    BY <1>1, <1>4, <2>1, <2>2, UpTo
<1>7. N \in S
  BY <1>1, <1>6
<1> QED
  BY <1>2, <1>7 DEF Same

\* The operations that wait give no transaction on disk another symbol.
NewTxs(m, d) == DOMAIN m.ops.tx \cap DOMAIN d.tx = {}

\* One transaction of a block behind p.
LEMMA BatchTxNew ==
    ASSUME NEW m, NEW d, NEW table, Sound(m, table), DOMAIN d.utxo \subseteq Nat \X Nat,
           NEW p, NEW done, Adding(m, d, p, done), NEW t \in Txs, NEW height
    PROVE  LET n == BatchTx(m, d, t, height)
           IN  n.seenBlock = m.seenBlock /\ (NewTxs(m, d) => NewTxs(n, d))
<1> DEFINE tx == Apply(m.ops.tx, d.tx)
           n == BatchTx(m, d, t, height)
<1>1. m.seenTx = m.ops.tx /\ m.ops.tx \in [DOMAIN m.ops.tx -> Nat] /\ IsMem(m)
      /\ m.lastTx \in Nat \cup {NoSymbol} /\ \A u \in DOMAIN tx : tx[u] \in Nat
  BY DEF Adding, Sound
<1>2. GetTxSymbol(m, d, t) = IF t \in DOMAIN tx THEN tx[t] ELSE NoSymbol
  BY <1>1, TxSymbol
<1>3. CASE GetTxSymbol(m, d, t) # NoSymbol
  <2>1. n = m
    BY <1>3, Zenon DEF BatchTx
  <2> QED
    BY <2>1
<1>4. CASE GetTxSymbol(m, d, t) = NoSymbol
  <2> DEFINE s == m.lastTx + 1
             named == [m EXCEPT !.lastTx = s, !.seenTx = With(@, t, s),
                                !.ops.tx = With(@, t, s), !.ops.txid = With(@, s, t)]
             spent == BatchTransactionInputs(named, d, t, s, height)
  <2>1. n = BatchTransactionOutputs(spent, d, t, s, height)
    BY <1>4, Zenon DEF BatchTx
  <2>2. t \notin DOMAIN d.tx
    <3>1. t \notin DOMAIN tx
      BY <1>1, <1>2, <1>4 DEF NoSymbol
    <3>2. \A u \in DOMAIN m.ops.tx : m.ops.tx[u] # Deleted
      BY <1>1, UtxoIndexerAssumption DEF UtxoIndexerAssumption
    <3> QED
      BY <3>1, <3>2, ApplyTable DEF tx
  <2>3. s \in Nat
    BY <1>1 DEF NoSymbol
  <2> HIDE DEF n, spent, s
  <2>4. /\ IsMem(named) /\ named.lastAddress = m.lastAddress
        /\ named.ops.address = m.ops.address /\ named.ops.utxo = m.ops.utxo
        /\ named.seenUtxo = m.seenUtxo /\ named.seenBlock = m.seenBlock
        /\ named.ops.tx = With(m.ops.tx, t, s)
    BY <1>1 DEF IsMem
  <2> HIDE DEF named
  <2>5. Sound(named, table)
    BY <2>4, UtxoChangeSound
  <2>6. SameNames(named, spent)
    BY <2>3, <2>5, InputsSound DEF spent
  <2>7. IsMem(spent) /\ ListsStay(named, spent)
    BY <2>4, InputsLeave DEF spent
  <2>8. n.seenBlock = spent.seenBlock /\ n.ops.tx = spent.ops.tx
    BY <2>1, <2>7, OutputsLeave
  <2>9. n.seenBlock = m.seenBlock /\ n.ops.tx = With(m.ops.tx, t, s)
    BY <2>4, <2>6, <2>7, <2>8 DEF SameNames, ListsStay
  <2> QED
    BY <2>2, <2>9 DEF NewTxs, With, n
<1> QED
  BY <1>3, <1>4

\* saveBlock enters its block into the cache, and names only transactions that are new.
LEMMA SaveBlockNew ==
    ASSUME NEW m, NEW d, NEW table, Sound(m, table), DOMAIN d.utxo \subseteq Nat \X Nat, Readies(d),
           NEW b \in Blocks, m.seenTx = m.ops.tx, m.ops.tx \in [DOMAIN m.ops.tx -> Nat],
           Names(m.ops, m.lastTx, d, Parent[b]), ~m.failed,
           Saving(m, d, Apply(m.ops.tx, d.tx), OutputsOf(Mined(Parent[b])))
    PROVE  LET n == SaveBlock(m, d, b)
           IN  /\ n.seenBlock = With(m.seenBlock, b, Height[b])
               /\ NewTxs(m, d) => NewTxs(n, d)
<1> DEFINE N == Len(TxsOf[b])
           B == With(m.seenBlock, b, Height[b])
<1>1. N \in Nat /\ 0 \in 0..N /\ N \in 0..N /\ \A i \in 1..N : TxsOf[b][i] \in Txs
  BY FirstAll
<1>2. PICK f :
         /\ SavedRun(f, m, d, b) /\ SaveBlock(m, d, b) = f[N]
         /\ \A k \in 0..N : Sound(f[k], table) /\ Adding(f[k], d, Parent[b], First(b, k))
  BY SaveBlockRuns
<1> HIDE DEF B
<1> DEFINE S == {k \in 0..N : f[k].seenBlock = B /\ (NewTxs(m, d) => NewTxs(f[k], d))}
<1>3. 0 \in S
  <2>1. IsMem(m)
    BY DEF Sound
  <2>2. Begun(m, b).seenBlock = B /\ Begun(m, b).ops.tx = m.ops.tx
    BY <2>1 DEF IsMem, Begun, B
  <2>3. f[0] = Begun(m, b)
    BY <1>2 DEF SavedRun
  <2> QED
    BY <1>1, <2>2, <2>3 DEF NewTxs
<1>4. ASSUME NEW k \in S, k < N PROVE k + 1 \in S
  <2> DEFINE t == TxsOf[b][k + 1]
  <2>1. k \in 0..N /\ k + 1 \in 0..N /\ k + 1 \in 1..N
    BY <1>1, <1>4
  <2>2. f[k + 1] = BatchTx(f[k], d, t, Height[b])
    BY <1>2, <1>4, <2>1 DEF SavedRun
  <2>3. t \in Txs
    BY <1>1, <2>1
  <2>4. Sound(f[k], table) /\ Adding(f[k], d, Parent[b], First(b, k))
    BY <1>2, <2>1
  <2>5. LET n == BatchTx(f[k], d, t, Height[b])
        IN  n.seenBlock = f[k].seenBlock /\ (NewTxs(f[k], d) => NewTxs(n, d))
    <3> HIDE DEF t, S, N
    <3> QED
      BY <2>3, <2>4, BatchTxNew
  <2>6. f[k + 1].seenBlock = f[k].seenBlock /\ (NewTxs(f[k], d) => NewTxs(f[k + 1], d))
    BY <2>2, <2>5
  <2> QED
    BY <2>1, <2>6
<1>5. S = 0..N
  <2>1. S \in SUBSET (0..N)
    OBVIOUS
  <2> HIDE DEF S, N
  <2>2. \A k \in S : k < N => k + 1 \in S
    BY <1>4
  <2> QED
    BY <1>1, <1>3, <2>1, <2>2, UpTo
<1>6. N \in S
  BY <1>1, <1>5
<1> QED
  BY <1>2, <1>6 DEF B

\* The block cache has the heights of its blocks, and neither the cache of addresses nor what
\* waits or is in flight has another symbol for what is on disk and stays there.
StayInv ==
    /\ pc # "aborted" =>
          /\ \A b \in DOMAIN mem.seenBlock : mem.seenBlock[b] = Height[b]
          /\ DOMAIN mem.seenAddress \cap DOMAIN db.address = {}
    /\ pc = "idle" => NewTxs(mem, db)
    /\ Flushing =>
          /\ \A c \in Chain[db.best] \cap Chain[best] : Mined(c) \cap DOMAIN inflight.ops.tx = {}
          /\ DOMAIN inflight.ops.address \cap DOMAIN db.address = {}

\* The invariant holds at the start.
LEMMA StayInvInit == Init => StayInv
  BY EmptyTableIsEmpty DEF Init, StayInv, MemoryOf, EmptyOps, NewTxs, Flushing

\* Then a lemma for each action. AddBlock.
LEMMA AddBlockStays ==
    ASSUME FlushInv, SymbolInv, RecordInv, TableInv', StayInv, AddBlock PROVE StayInv'
<1>1. PICK b \in Blocks : Parent[b] = best /\ best' = b /\ mem' = SaveBlock(mem, db, b)
  BY DEF AddBlock
<1>2. /\ pc = "idle" /\ pc' = (IF mem'.failed THEN "aborted" ELSE "idle")
      /\ UNCHANGED <<inflight, db>>
  BY DEF AddBlock
<1>3. Sound(mem, db.address) /\ DOMAIN db.utxo \subseteq Nat \X Nat
  BY <1>2, RestingTable DEF SymbolInv, SoundInv, Flushing
<1>4. mem.seenTx = mem.ops.tx /\ mem.ops.tx \in [DOMAIN mem.ops.tx -> Nat]
      /\ Names(mem.ops, mem.lastTx, db, Parent[b])
  BY <1>1, <1>2 DEF SymbolInv, NameInv
<1>5. /\ Readies(db) /\ ~mem.failed
      /\ Saving(mem, db, Apply(mem.ops.tx, db.tx), OutputsOf(Mined(Parent[b])))
  BY <1>1, <1>2 DEF RecordInv
<1>6. mem'.seenBlock = With(mem.seenBlock, b, Height[b]) /\ (NewTxs(mem, db) => NewTxs(mem', db))
  BY <1>1, <1>3, <1>4, <1>5, SaveBlockNew
<1>7. /\ \A c \in DOMAIN mem.seenBlock : mem.seenBlock[c] = Height[c]
      /\ NewTxs(mem, db)
  BY <1>2 DEF StayInv
<1>8. \A c \in DOMAIN mem'.seenBlock : mem'.seenBlock[c] = Height[c]
  BY <1>6, <1>7 DEF With
<1>9. pc' = "idle" => DOMAIN mem'.seenAddress \cap DOMAIN db'.address = {}
  BY DEF TableInv, Writing, Linked
<1>10. NewTxs(mem', db') /\ ~Flushing'
  BY <1>2, <1>6, <1>7 DEF Flushing
<1> QED
  BY <1>2, <1>8, <1>9, <1>10 DEF StayInv

\* Flush and StartRemoval.
LEMMA FlushStays ==
    ASSUME FlushInv, SymbolInv, TableInv, StayInv, Flush \/ StartRemoval PROVE StayInv'
<1>1. /\ pc = "idle" /\ pc' \in {"flush", "removalFlush"} /\ best' = best /\ db' = db
      /\ inflight' = Gather(best, mem, db) /\ mem' = [mem EXCEPT !.ops = EmptyOps]
  BY DEF Flush, StartRemoval, BeginFlush
<1>2. Sound(mem, db.address) /\ IsMem(mem)
  BY <1>1, RestingTable DEF SymbolInv, SoundInv, Flushing, Sound
<1>3. /\ DOMAIN mem.ops.address \cap DOMAIN db.address = {}
      /\ \A b \in DOMAIN mem.seenBlock : mem.seenBlock[b] = Height[b]
      /\ DOMAIN mem.seenAddress \cap DOMAIN db.address = {}
      /\ DOMAIN mem.ops.tx \cap DOMAIN db.tx = {}
  BY <1>1 DEF TableInv, Writing, Linked, StayInv, NewTxs
<1>4. inflight'.ops.tx = mem.ops.tx /\ inflight'.ops.address = mem.ops.address
  BY <1>1, <1>2, GatherParts
<1>5. mem'.seenBlock = mem.seenBlock /\ mem'.seenAddress = mem.seenAddress
  BY <1>1, <1>2 DEF IsMem
<1>6. ASSUME NEW c \in Chain[db.best] PROVE Mined(c) \subseteq DOMAIN db.tx
  <2>1. DOMAIN db.tx = Mined(db.best)
    BY DEF SymbolInv, NameInv, TxNames
  <2>2. Chain[c] \subseteq Chain[db.best]
    BY ChainBefore DEF FlushInv
  <2> QED
    BY <2>1, <2>2 DEF Mined
<1>7. \A c \in Chain[db'.best] \cap Chain[best'] : Mined(c) \cap DOMAIN inflight'.ops.tx = {}
  BY <1>1, <1>3, <1>4, <1>6
<1> QED
  BY <1>1, <1>3, <1>4, <1>5, <1>7 DEF StayInv

\* FlushEnds.
LEMMA FlushEndsStays ==
    ASSUME FlushInv, SymbolInv, FlushEnds PROVE StayInv'
<1>1. /\ Flushing /\ pc' \in {"idle", "removing"}
      /\ mem' = [mem EXCEPT !.seenBlock = EmptyTable, !.seenTx = EmptyTable,
                            !.seenAddress = EmptyTable, !.seenUtxo = EmptyTable,
                            !.added = EmptyTable]
  BY DEF FlushEnds, Flushing
<1>2. IsMem(mem) /\ mem.ops.tx = EmptyTable
  BY <1>1 DEF SymbolInv, SoundInv, NameInv, NoNames, Flushing, Sound
<1>3. mem'.seenBlock = EmptyTable /\ mem'.seenAddress = EmptyTable /\ mem'.ops.tx = EmptyTable
  BY <1>1, <1>2 DEF IsMem
<1>4. ~Flushing'
  BY <1>1 DEF Flushing
<1> QED
  BY <1>1, <1>3, <1>4, EmptyTableIsEmpty DEF StayInv, NewTxs

\* RemoveBest.
LEMMA RemoveBestStays ==
    ASSUME Plain, FlushInv, BudgetInv, SymbolInv, RecordInv, TableInv, TypedInv, StayInv, RemoveBest
    PROVE  StayInv'
<1> DEFINE m == RemoveBlock(mem, db, best)
           B == ToSet(TxsOf[best])
<1>1. /\ pc = "removing" /\ best \in Blocks /\ db' = db /\ db.best = best
  BY DEF RemoveBest, FlushInv, BlockOrNone
<1>2. IsMem(mem)
  BY <1>1 DEF SymbolInv, SoundInv, Sound
<1>3. /\ NoNames(mem) /\ mem.seenTx = mem.ops.tx
      /\ TxNames(db.tx, db.txid, db.lastTx, best)
  BY <1>1 DEF SymbolInv, NameInv
<1>4. mem.ops.utxo = EmptyTable /\ mem.seenUtxo = EmptyTable
  BY <1>1 DEF RecordInv
<1>5. /\ ExactTable(db.utxo, db.tx, db.address, best)
      /\ Linked(mem, db)
  BY <1>1 DEF TableInv
<1>6. SpendsOlder(best)
  BY <1>1 DEF Plain, Ordinary, BudgetInv
<1>7. Typed(mem) /\ TypedDb(db)
  BY DEF TypedInv
<1>8. \A ref \in OutputsOf(Mined(best)) : Addressed(ref) => Payee(ref) \in DOMAIN db.address
  BY <1>5 DEF ExactTable
<1>9. Quiet(mem, RemoveBlock(mem, db, best))
      /\ DOMAIN RemoveBlock(mem, db, best).ops.tx \subseteq ToSet(TxsOf[best])
  BY <1>1, <1>2, <1>3, <1>4, <1>6, <1>8, RemoveBlockTakes
<1>10. StaysTyped(mem, RemoveBlock(mem, db, best))
  BY <1>1, <1>2, <1>7, RemoveBlockTyped
<1> HIDE DEF m
<1>11. /\ Quiet(mem, m) /\ DOMAIN m.ops.tx \subseteq B /\ StaysTyped(mem, m)
  BY <1>9, <1>10 DEF m
<1>12. /\ IsMem(m) /\ m.seenBlock = mem.seenBlock /\ m.seenAddress = mem.seenAddress
       /\ m.ops.address = mem.ops.address
  BY <1>11 DEF StaysTyped, Quiet
<1>13. /\ \A b \in DOMAIN mem.seenBlock : mem.seenBlock[b] = Height[b]
       /\ DOMAIN mem.seenAddress \cap DOMAIN db.address = {}
       /\ DOMAIN mem.ops.address \cap DOMAIN db.address = {}
  BY <1>1, <1>5 DEF StayInv, Linked
<1>14. CASE m.failed
  <2>1. pc' = "aborted"
    BY <1>14 DEF RemoveBest, m
  <2> QED
    BY <2>1 DEF StayInv, Flushing
<1>15. CASE ~m.failed
  <2>1. /\ best' = Parent[best] /\ pc' = "flush"
        /\ inflight' = Gather(Parent[best], m, db) /\ mem' = [m EXCEPT !.ops = EmptyOps]
    BY <1>15 DEF RemoveBest, BeginFlush, m
  <2>2. inflight'.ops.tx = m.ops.tx /\ inflight'.ops.address = m.ops.address
    BY <1>12, <2>1, GatherParts
  <2>3. mem'.seenBlock = m.seenBlock /\ mem'.seenAddress = m.seenAddress
    BY <1>12, <2>1 DEF IsMem
  <2>4. ASSUME NEW c \in Chain[Parent[best]] PROVE Mined(c) \cap B = {}
    <3>1. Parent[best] \in BlockOrNone /\ Mined(Parent[best]) \cap B = {}
      BY <1>1, ChainEnds, MinedSplit
    <3>2. Chain[c] \subseteq Chain[Parent[best]]
      BY <3>1, ChainBefore
    <3> QED
      BY <3>1, <3>2 DEF Mined
  <2>5. \A c \in Chain[db'.best] \cap Chain[best'] : Mined(c) \cap DOMAIN inflight'.ops.tx = {}
    BY <1>11, <2>1, <2>2, <2>4
  <2> QED
    BY <1>1, <1>12, <1>13, <2>1, <2>2, <2>3, <2>5 DEF StayInv
<1> QED
  BY <1>14, <1>15

\* So every step preserves it.
LEMMA StayInvNext ==
    Plain /\ AllInv /\ RecordInv /\ TypedInv /\ TableInv /\ TableInv' /\ StayInv /\ [Next]_vars
        /\ ~Query => StayInv'
<1> SUFFICES ASSUME Plain, AllInv, RecordInv, TypedInv, TableInv, TableInv', StayInv, [Next]_vars,
                    ~Query
             PROVE  StayInv'
  OBVIOUS
<1>1. FlushInv /\ BudgetInv /\ SymbolInv
  BY DEF AllInv
<1>2. CASE AddBlock
  BY <1>1, <1>2, AddBlockStays
<1>3. CASE Flush \/ StartRemoval
  BY <1>1, <1>3, FlushStays
<1>4. CASE FlushEnds
  BY <1>1, <1>4, FlushEndsStays
<1>5. CASE RemoveBest
  BY <1>1, <1>5, RemoveBestStays
<1>7. CASE Restart
  BY <1>7, EmptyTableIsEmpty DEF Restart, StayInv, MemoryOf, EmptyOps, NewTxs, Flushing
<1>8. CASE UNCHANGED vars
  BY <1>8 DEF vars, StayInv, NewTxs, Flushing
<1> QED
  BY <1>2, <1>3, <1>4, <1>5, <1>7, <1>8 DEF Next

\* The symbols on disk of the transactions of a block that stays, and those of addresses, are
\* the same after a step.
LEMMA SymbolsPersist ==
    ASSUME FlushInv, SymbolInv, StayInv, [Next]_vars
    PROVE  /\ \A c \in Chain[db.best] \cap Chain[db'.best] :
                 \A t \in Mined(c) : t \in DOMAIN db.tx /\ db'.tx[t] = db.tx[t]
           /\ \A a \in DOMAIN db.address : a \in DOMAIN db'.address /\ db'.address[a] = db.address[a]
<1>1. ASSUME NEW c \in Chain[db.best] PROVE Mined(c) \subseteq DOMAIN db.tx
  <2>1. DOMAIN db.tx = Mined(db.best)
    BY DEF SymbolInv, NameInv, TxNames
  <2>2. Chain[c] \subseteq Chain[db.best]
    BY ChainBefore DEF FlushInv
  <2> QED
    BY <2>1, <2>2 DEF Mined
<1>2. db' = db \/ (Flushing /\ db' = Written(db, inflight))
  BY QueryStep DEF Next, vars, AddBlock, Flush, StartRemoval, FlushEnds, RemoveBest, Restart, Flushing
<1>3. CASE db' = db
  BY <1>1, <1>3
<1>4. CASE Flushing /\ db' = Written(db, inflight)
  <2>1. /\ db'.best = best /\ db'.tx = Apply(inflight.ops.tx, db.tx)
        /\ db'.address = Apply(inflight.ops.address, db.address)
    BY <1>4, WrittenNamed DEF Written
  <2>2. /\ \A c \in Chain[db.best] \cap Chain[best] : Mined(c) \cap DOMAIN inflight.ops.tx = {}
        /\ DOMAIN inflight.ops.address \cap DOMAIN db.address = {}
    BY <1>4 DEF StayInv
  <2>3. ASSUME NEW c \in Chain[db.best] \cap Chain[db'.best], NEW t \in Mined(c)
        PROVE  t \in DOMAIN db.tx /\ db'.tx[t] = db.tx[t]
    <3>1. t \in DOMAIN db.tx /\ t \notin DOMAIN inflight.ops.tx
      BY <1>1, <2>1, <2>2
    <3> QED
      BY <2>1, <3>1, ApplyTable
  <2>4. ASSUME NEW a \in DOMAIN db.address
        PROVE  a \in DOMAIN db'.address /\ db'.address[a] = db.address[a]
    <3>1. a \notin DOMAIN inflight.ops.address
      BY <2>2
    <3> QED
      BY <2>1, <3>1, ApplyTable
  <2> QED
    BY <2>3, <2>4
<1> QED
  BY <1>2, <1>3, <1>4
------------------------------------------------------------------------------
(* Lists: what the queries answer *)

\* An address of the chain has a symbol, and under it a list that can be read: with one entry
\* for each output that pays it, from which the way back to the output leads.
LEMMA ListedOutputs ==
    ASSUME AllInv, TableInv, ListInv, NEW a \in Addresses, Owned(db.best, a) # {}
    PROVE  LET b    == db.best
               outs == db.list[db.address[a]].outs
           IN  /\ Readable(db, db.address[a])
               /\ outs \in Entries /\ IsInjective(outs)
               /\ ToSet(outs) = {Key(db.tx, ref) : ref \in Owned(b, a)}
               /\ \A ref \in Owned(b, a) :
                     /\ ref \in OutputsOf(Mined(b))
                     /\ <<db.txid[Key(db.tx, ref)[1]], Key(db.tx, ref)[2]>> = ref
                     /\ db.utxo[Key(db.tx, ref)]
                           = RecordIn(db.address[a], LifeOf(db.tx, b, Mined(b)), ref)
<1> DEFINE b == db.best
           R == OutputsOf(Mined(b))
           s == db.address[a]
           outs == db.list[s].outs
           life == LifeOf(db.tx, b, Mined(b))
<1>1. /\ ExactTable(db.utxo, db.tx, db.address, b) /\ b \in BlockOrNone
      /\ ListsExact(db.list, db.tx, db.address, R)
      /\ TxNames(db.tx, db.txid, db.lastTx, b)
  BY DEF AllInv, FlushInv, SymbolInv, NameInv, TableInv, ListInv
<1>2. NoAddress \notin Addresses
  BY UtxoIndexerAssumption DEF UtxoIndexerAssumption
<1>3. Owned(b, a) = PaidTo(R, a)
  BY DEF Owned, PaidTo, Payee, R, OutputsOf
<1>4. ASSUME NEW ref \in Owned(b, a)
      PROVE  /\ ref \in R /\ a \in DOMAIN db.address
             /\ <<db.txid[Key(db.tx, ref)[1]], Key(db.tx, ref)[2]>> = ref
             /\ Key(db.tx, ref) \in DOMAIN db.utxo
             /\ db.utxo[Key(db.tx, ref)] = RecordIn(s, life, ref)
  <2>1. ref \in R /\ Addressed(ref) /\ Payee(ref) = a
    BY <1>2, <1>3 DEF PaidTo, Addressed, Payee
  <2>2. <<db.txid[Key(db.tx, ref)[1]], Key(db.tx, ref)[2]>> = ref
    BY <1>1, <2>1, RefType DEF R, OutputsOf, TxNames, Key
  <2>3. a \in DOMAIN db.address /\ db.utxo[Key(db.tx, ref)] = RecordIn(s, life, ref)
    BY <1>1, <2>1 DEF ExactTable
  <2>4. Key(db.tx, ref) \in DOMAIN db.utxo
    BY <1>1, <2>1 DEF ExactTable, Keys
  <2> QED
    BY <2>1, <2>2, <2>3, <2>4
<1>5. a \in DOMAIN db.address
  BY <1>4
<1>6. HasEntries(OutsAt(db.list, s), db.tx, R, a)
  BY <1>1, <1>5 DEF ListsExact, ListAt
<1>7. s \in DOMAIN db.list
  <2>1. ToSet(<<>>) = {}
    BY DEF ToSet
  <2>2. ToSet(OutsAt(db.list, s)) = {Key(db.tx, ref) : ref \in Owned(b, a)}
    BY <1>3, <1>6 DEF HasEntries
  <2> HIDE DEF s, b
  <2> QED
    BY <2>1, <2>2 DEF OutsAt, b
<1>8. /\ outs \in Entries /\ IsInjective(outs)
      /\ ToSet(outs) = {Key(db.tx, ref) : ref \in Owned(b, a)}
  BY <1>3, <1>6, <1>7 DEF HasEntries, OutsAt
<1> HIDE DEF b, R, life, outs, s
<1>9. Readable(db, s)
  BY <1>4, <1>7, <1>8 DEF Readable, outs
<1> QED
  BY <1>4, <1>8, <1>9 DEF b, R, life, outs, s

\* What is unspent in it is what the chain leaves the address.
LEMMA ListedCoins ==
    ASSUME AllInv, TableInv, ListInv PROVE CoinsCorrect
<1> DEFINE b == db.best
           life == LifeOf(db.tx, b, Mined(b))
<1> SUFFICES ASSUME NEW a \in Addresses, Owned(b, a) # {}
             PROVE  /\ Readable(db, db.address[a])
                    /\ IsInjective(db.list[db.address[a]].outs)
                    /\ GetAccountUtxos(db, db.address[a]) = Coins(Unspent(b, a))
  BY DEF CoinsCorrect
<1> DEFINE s == db.address[a]
           outs == db.list[s].outs
           open == {f \in ToSet(outs) : db.utxo[f].spentOn = NoSymbol}
<1>1. b \in BlockOrNone
  BY DEF AllInv, FlushInv
<1>2. /\ Readable(db, s) /\ IsInjective(outs)
      /\ ToSet(outs) = {Key(db.tx, ref) : ref \in Owned(b, a)}
      /\ \A ref \in Owned(b, a) :
            /\ ref \in OutputsOf(Mined(b))
            /\ <<db.txid[Key(db.tx, ref)[1]], Key(db.tx, ref)[2]>> = ref
            /\ db.utxo[Key(db.tx, ref)] = RecordIn(s, life, ref)
  BY ListedOutputs
<1> HIDE DEF b, life
<1>3. ASSUME NEW ref \in OutputsOf(Mined(b))
      PROVE  RecordIn(s, life, ref).spentOn = NoSymbol
                <=> \A t \in Mined(b) : ref \notin ToSet(Ins[t])
  <2> DEFINE S == Spenders(Mined(b), ref)
             last == CHOOSE t \in S : TRUE
  <2>1. life[ref] = LifeWith(db.tx, b, ref, S)
    BY DEF LifeOf, OutputsOf, life
  <2>2. life[ref].at = IF S = {} THEN NoSymbol ELSE MinedOn(b, last)
    <3> HIDE DEF S
    <3> QED
      BY <2>1 DEF LifeWith
  <2>3. S = {} <=> \A t \in Mined(b) : ref \notin ToSet(Ins[t])
    BY DEF Spenders
  <2>4. ASSUME S # {} PROVE MinedOn(b, last) # NoSymbol
    <3>1. last \in S /\ last \in Mined(b)
      BY <2>4 DEF Spenders
    <3> HIDE DEF last, S
    <3>2. PICK c \in Chain[b] : last \in ToSet(TxsOf[c])
      BY <3>1 DEF Mined
    <3>3. MinedOn(b, last) \in Nat
      BY <1>1, <3>2, MinedOnIs
    <3> QED
      BY <3>3 DEF NoSymbol
  <2>5. RecordIn(s, life, ref).spentOn = life[ref].at
    BY Zenon DEF RecordIn
  <2> QED
    BY <2>2, <2>3, <2>4, <2>5
<1> HIDE DEF outs
<1>4. ASSUME NEW ref \in Owned(b, a) PROVE Key(db.tx, ref) \in open <=> ref \in Unspent(b, a)
  BY <1>2, <1>3 DEF Unspent
<1>5. \A e \in open : \E ref \in Owned(b, a) : e = Key(db.tx, ref)
  BY <1>2
<1>6. Unspent(b, a) \subseteq Owned(b, a)
  BY DEF Unspent
<1> DEFINE coin(e) == <<db.txid[e[1]], e[2], db.utxo[e].sats>>
           paid(ref) == <<ref[1], ref[2], Outs[ref[1]][ref[2]].sats>>
<1>7. GetAccountUtxos(db, s) = {coin(e) : e \in open}
  BY DEF GetAccountUtxos, outs
<1>8. ASSUME NEW ref \in Owned(b, a) PROVE coin(Key(db.tx, ref)) = paid(ref)
  <2> DEFINE e == Key(db.tx, ref)
  <2>1. <<db.txid[e[1]], e[2]>> = ref
    BY <1>2
  <2>2. RecordIn(s, life, ref).sats = Outs[ref[1]][ref[2]].sats
    BY Zenon DEF RecordIn
  <2>3. db.utxo[e].sats = Outs[ref[1]][ref[2]].sats
    BY <1>2, <2>2
  <2> HIDE DEF e
  <2>4. db.txid[e[1]] = ref[1] /\ e[2] = ref[2]
    BY <2>1
  <2> QED
    BY <2>3, <2>4 DEF e
<1> HIDE DEF open, coin, paid
<1>9. ASSUME NEW e \in open PROVE \E ref \in Unspent(b, a) : coin(e) = paid(ref)
  BY <1>4, <1>5, <1>8
<1>10. ASSUME NEW ref \in Unspent(b, a) PROVE \E e \in open : coin(e) = paid(ref)
  BY <1>4, <1>6, <1>8
<1>11. {coin(e) : e \in open} = {paid(ref) : ref \in Unspent(b, a)}
  BY <1>9, <1>10
<1>12. Coins(Unspent(b, a)) = {paid(ref) : ref \in Unspent(b, a)}
  BY DEF Coins, paid
<1> QED
  BY <1>2, <1>7, <1>11, <1>12 DEF outs

\* What counts in it at the height of a block is what that block's chain leaves the address.
LEMMA ListedHistory ==
    ASSUME AllInv, TableInv, ListInv PROVE HistorySupported
<1> DEFINE top == db.best
           life == LifeOf(db.tx, top, Mined(top))
<1> SUFFICES ASSUME NEW b \in Chain[top], NEW a \in Addresses, Owned(b, a) # {}
             PROVE  GetAccountBalance(db, db.address[a], Height[b], db.at[Height[b]])
                       = [balance |-> Ledger(b, a), block |-> b]
  BY DEF HistorySupported
<1> DEFINE s == db.address[a]
           outs == db.list[s].outs
           U == {i \in DOMAIN outs : Counts(db.utxo[outs[i]], Height[b])}
           V == Unspent(b, a)
           ref(i) == <<db.txid[outs[i][1]], outs[i][2]>>
           p == [i \in U |-> ref(i)]
           w == [i \in U |-> db.utxo[outs[i]].sats]
           v == [r \in V |-> Outs[r[1]][r[2]].sats]
<1>1. top \in BlockOrNone /\ db.at[Height[b]] = b
  BY DEF AllInv, FlushInv, SymbolInv, NameInv, BlockNames
<1> HIDE DEF top
<1>2. Chain[b] \subseteq Chain[top] /\ Mined(b) \subseteq Mined(top)
  BY <1>1, ChainBefore DEF Mined
<1>3. Owned(b, a) \subseteq Owned(top, a)
  BY <1>2 DEF Owned
<1>4. /\ Readable(db, s) /\ outs \in Entries /\ IsInjective(outs)
      /\ ToSet(outs) = {Key(db.tx, r) : r \in Owned(top, a)}
      /\ \A r \in Owned(top, a) :
            /\ r \in OutputsOf(Mined(top))
            /\ <<db.txid[Key(db.tx, r)[1]], Key(db.tx, r)[2]>> = r
            /\ db.utxo[Key(db.tx, r)] = RecordIn(s, life, r)
  BY <1>3, ListedOutputs DEF top
<1>5. \A i, j \in DOMAIN outs : outs[i] = outs[j] => i = j
  BY <1>4 DEF IsInjective
<1>6. ToSet(outs) = {outs[i] : i \in DOMAIN outs}
  BY DEF ToSet
<1> HIDE DEF outs, s
<1>7. ASSUME NEW r \in Owned(top, a)
      PROVE  Counts(RecordIn(s, life, r), Height[b]) <=> r \in V
  <2>1. Counts(RecordIn(s, life, r), Height[b])
           <=> r[1] \in Mined(b) /\ \A t \in Mined(b) : r \notin ToSet(Ins[t])
    BY <1>1, <1>4, CountsUnspent
  <2> HIDE DEF life
  <2> QED
    BY <2>1 DEF Unspent, Owned
<1> HIDE DEF life
<1>8. ASSUME NEW i \in DOMAIN outs
      PROVE  /\ ref(i) \in Owned(top, a) /\ outs[i] = Key(db.tx, ref(i))
             /\ i \in U <=> ref(i) \in V
             /\ db.utxo[outs[i]].sats = Outs[ref(i)[1]][ref(i)[2]].sats
  <2>1. PICK r \in Owned(top, a) : outs[i] = Key(db.tx, r)
    BY <1>4, <1>6
  <2>2. ref(i) = r /\ db.utxo[outs[i]] = RecordIn(s, life, r)
    BY <1>4, <2>1
  <2>3. RecordIn(s, life, r).sats = Outs[r[1]][r[2]].sats
    BY Zenon DEF RecordIn
  <2> QED
    BY <1>7, <2>1, <2>2, <2>3
<1>9. ASSUME NEW r \in V PROVE \E i \in U : ref(i) = r
  <2>1. r \in Owned(top, a)
    BY <1>3 DEF Unspent
  <2>2. PICK i \in DOMAIN outs : outs[i] = Key(db.tx, r)
    BY <1>4, <1>6, <2>1
  <2>3. ref(i) = r
    BY <1>4, <2>1, <2>2
  <2> QED
    BY <1>8, <2>3
<1> HIDE DEF V
<1>10. \A i \in U : i \in DOMAIN outs /\ ref(i) \in V
  BY <1>8
<1>11. ASSUME NEW i \in U, NEW j \in U, ref(i) = ref(j) PROVE i = j
  <2>1. outs[i] = Key(db.tx, ref(i)) /\ outs[j] = Key(db.tx, ref(j))
    BY <1>8, <1>10
  <2>2. outs[i] = outs[j]
    BY <1>11, <2>1
  <2> HIDE DEF ref, U
  <2> QED
    BY <1>5, <1>10, <2>2
<1>12. \A i \in U : /\ w[i] = db.utxo[outs[i]].sats /\ v[ref(i)] = w[i] /\ w[i] \in Nat
  <2> SUFFICES ASSUME NEW i \in U
               PROVE  v[ref(i)] = db.utxo[outs[i]].sats /\ db.utxo[outs[i]].sats \in Nat
    OBVIOUS
  <2>1. ref(i) \in OutputRefs
    BY <1>8, <1>10 DEF Owned
  <2>2. Outs[ref(i)[1]][ref(i)[2]].sats \in Nat
    BY <2>1, RefType
  <2> HIDE DEF ref
  <2> QED
    BY <1>8, <1>10, <2>2
<1>13. IsFiniteSet(U)
  <2>1. DOMAIN outs = 1..Len(outs) /\ Len(outs) \in Nat
    BY <1>4 DEF Entries
  <2>2. IsFiniteSet(1..Len(outs))
    BY <2>1, FS_Interval
  <2> QED
    BY <2>1, <2>2, FS_Subset
<1> HIDE DEF U, ref
<1>14. V = {p[i] : i \in U}
  BY <1>9, <1>10
<1>15. IsFiniteSet(V)
  <2>1. p \in Surjection(U, V)
    BY <1>9, <1>10 DEF Surjection
  <2> QED
    BY <1>13, <2>1, FS_Surjection
<1>16. PICK h : SumRun(h, w, U) /\ BalanceOf(db, s, Height[b]) = h[U]
  <2>1. U = Counted(db, s, Height[b])
    BY DEF U, outs, Counted
  <2>2. w = SatsAt(db, s, Height[b])
    BY <2>1 DEF outs, SatsAt
  <2> HIDE DEF w
  <2> QED
    BY <1>13, <2>1, <2>2, BalanceSums
<1>17. PICK k : SumRun(k, v, V) /\ Ledger(b, a) = k[V]
  BY <1>15, LedgerSums DEF V
<1>18. \A i \in U : p[i] = ref(i)
  OBVIOUS
<1>19. h[U] = k[V]
  <2>1. \A i \in U : w[i] \in Nat /\ v[p[i]] = w[i]
    BY <1>12, <1>18
  <2>2. \A i, j \in U : p[i] = p[j] => i = j
    BY <1>11, <1>18
  <2> HIDE DEF p, w, v
  <2> QED
    BY <1>13, <1>14, <1>15, <1>16, <1>17, <2>1, <2>2, SumMapped
<1> HIDE DEF w, v, p
<1> QED
  BY <1>1, <1>4, <1>16, <1>17, <1>19 DEF GetAccountBalance, s

------------------------------------------------------------------------------
(* The theorems *)

\* Tables and lists stay exact.
LEMMA ListsStayExact == Spec => [](AllInv /\ (Plain /\ NoEarly => TableInv /\ ListInv))
<1> DEFINE Inv == /\ AllInv /\ RecordInv /\ TypedInv
                  /\ Plain /\ NoEarly => TableInv /\ ListInv
<1>1. Init => Inv
  BY FlushInvInit, SafeInvInit, BudgetInvInit, SymbolInvInit, EarlyInvInit, RecordInvInit,
     TypedInvInit, TableInvInit, ListInvInit DEF AllInv, Plain
<1>2. Inv /\ [Next]_vars => Inv'
  <2>1. AllInv /\ RecordInv /\ TypedInv /\ [Next]_vars => (AllInv /\ RecordInv /\ TypedInv)'
    BY FlushInvNext, SafeInvNext, BudgetInvNext, SymbolInvNext, EarlyInvNext, RecordInvNext,
       TypedInvNext DEF AllInv
  <2>2. Plain /\ NoEarly' /\ Inv /\ [Next]_vars => TableInv' /\ ListInv'
    BY TableInvNext, ListInvNext, NoEarlyStep DEF Plain, AllInv
  <2>3. Plain' <=> Plain
    BY DEF Plain, Ordinary, SpendsOlder, PaysOnce, OutputsOf, Addressed, Payee
  <2> QED
    BY <2>1, <2>2, <2>3
<1>3. Inv => AllInv /\ (Plain /\ NoEarly => TableInv /\ ListInv)
  OBVIOUS
<1> QED
  BY <1>1, <1>2, <1>3, PTL DEF Spec

\* If no block is taken back, or none spends what it makes and none pays an address twice,
\* and as long as no client asks for an address too early: the list of an address can be read
\* and has each output once, and its coins are exactly the outputs the indexed chain leaves
\* it, each with its amount and under the hash of its transaction; through every flush, crash
\* and restart, with tx symbols used again after a removal
\* (Indexer.js:547-549, 647-652, 859-882, 1088-1124).
THEOREM CoinsStayCorrect == Spec => [](Plain => CoinsCorrect)
<1>1. AllInv /\ (Plain /\ NoEarly => TableInv /\ ListInv) => (Plain => CoinsCorrect)
  BY ListedCoins DEF CoinsCorrect
<1> QED
  BY <1>1, ListsStayExact, PTL

\* Then, too, for every block of the indexed chain and every address it has paid, the
\* database answers with that block and with the sum the chain left the address there,
\* whatever has been spent since (Indexer.js:1126-1204).
THEOREM HistoryStaysCorrect == Spec => [](Plain => HistoryCorrect)
<1>1. AllInv /\ (Plain /\ NoEarly => TableInv /\ ListInv) => (Plain => HistoryCorrect)
  BY ListedHistory DEF HistoryCorrect
<1> QED
  BY <1>1, ListsStayExact, PTL
------------------------------------------------------------------------------
(* What memory knows of transactions and addresses, until it is on disk *)

\* Symbols of addresses start with 1.
Positive(ops) == \A a \in DOMAIN ops.address : ops.address[a] \in Nat \ {0}

\* From m to n, the transactions that wait and the addresses in the cache keep their symbols,
\* symbols start with 1, and an address gets none that was there before.
Keeps(m, n) ==
    /\ IsMem(n) /\ m.lastAddress \in Nat /\ n.lastAddress \in Nat
    /\ m.lastAddress <= n.lastAddress
    /\ \A a \in DOMAIN n.ops.address :
          \/ a \in DOMAIN m.ops.address /\ n.ops.address[a] = m.ops.address[a]
          \/ n.ops.address[a] \in Nat /\ m.lastAddress < n.ops.address[a]
    /\ Positive(m.ops) => Positive(n.ops)
    /\ \A a \in DOMAIN m.seenAddress :
          a \in DOMAIN n.seenAddress /\ n.seenAddress[a] = m.seenAddress[a]
    /\ \A t \in DOMAIN m.ops.tx : t \in DOMAIN n.ops.tx /\ n.ops.tx[t] = m.ops.tx[t]

\* Which composes,
LEMMA KeepsOn ==
    ASSUME NEW m, NEW n, NEW o, Keeps(m, n), Keeps(n, o)
    PROVE  Keeps(m, o)
  BY DEF Keeps

\* and does not depend on the rest of memory.
LEMMA KeepsFrame ==
    ASSUME NEW m, NEW n, IsMem(n), m.lastAddress \in Nat, n.lastAddress = m.lastAddress,
           n.ops.address = m.ops.address, n.seenAddress = m.seenAddress, n.ops.tx = m.ops.tx
    PROVE  Keeps(m, n)
  BY DEF Keeps, Positive

\* An address is looked up.
LEMMA WithSymbolKnown ==
    ASSUME NEW m, NEW d, IsMem(m), m.lastAddress \in Nat, NEW a
    PROVE  Keeps(m, WithSymbol(m, d, a))
<1> DEFINE n == WithSymbol(m, d, a)
           s == m.lastAddress + 1
           w == [m EXCEPT !.lastAddress = s, !.seenAddress = With(@, a, s),
                          !.ops.address = With(@, a, s)]
<1>1. CASE HasSymbol(m, d, a)
  <2>1. n = m
    BY <1>1 DEF WithSymbol
  <2> HIDE DEF n
  <2>2. Keeps(m, n)
    BY <2>1, KeepsFrame
  <2> QED
    BY <2>2 DEF n
<1>2. CASE ~HasSymbol(m, d, a)
  <2>1. n = w
    BY <1>2 DEF WithSymbol, NewSymbol
  <2>2. s \in Nat \ {0}
    OBVIOUS
  <2>3. a \notin DOMAIN m.seenAddress
    BY <1>2 DEF HasSymbol
  <2> HIDE DEF s, n
  <2>4. /\ IsMem(w) /\ w.lastAddress = s /\ w.seenAddress = With(m.seenAddress, a, s)
        /\ w.ops.address = With(m.ops.address, a, s) /\ w.ops.tx = m.ops.tx
    BY DEF IsMem
  <2> HIDE DEF w
  <2>5. Positive(m.ops) => Positive(w.ops)
    BY <2>2, <2>4 DEF Positive, With
  <2>6. \A x \in DOMAIN m.seenAddress :
            x \in DOMAIN w.seenAddress /\ w.seenAddress[x] = m.seenAddress[x]
    BY <2>3, <2>4 DEF With
  <2>7. \A x \in DOMAIN w.ops.address :
            \/ x \in DOMAIN m.ops.address /\ w.ops.address[x] = m.ops.address[x]
            \/ w.ops.address[x] = s
    BY <2>4 DEF With
  <2>8. s \in Nat /\ m.lastAddress < s
    BY DEF s
  <2>9. Keeps(m, w)
    BY <2>2, <2>4, <2>5, <2>6, <2>7, <2>8 DEF Keeps
  <2> QED
    BY <2>1, <2>9 DEF n
<1> QED
  BY <1>1, <1>2

\* One output.
LEMMA OutputKeeps ==
    ASSUME NEW m, NEW d, IsMem(m), m.lastAddress \in Nat, NEW ref, NEW symbol, NEW height
    PROVE  Keeps(m, BatchOutput(m, d, ref, symbol, height))
<1> DEFINE n == BatchOutput(m, d, ref, symbol, height)
           out == Outs[ref[1]][ref[2]]
           known == WithSymbol(m, d, out.address)
<1>1. PICK u, s, l :
         \/ n = m
         \/ n = [known EXCEPT !.failed = TRUE]
         \/ n = [known EXCEPT !.ops.utxo = u, !.seenUtxo = s, !.added = l]
  BY Zenon DEF BatchOutput
<1>2. Keeps(m, known)
  BY WithSymbolKnown
<1> HIDE DEF n, known
<1>3. IsMem(known) /\ known.lastAddress \in Nat
  BY <1>2 DEF Keeps
<1>4. CASE n = m
  <2>1. Keeps(m, n)
    BY <1>4, KeepsFrame
  <2> QED
    BY <2>1 DEF n
<1>5. CASE n # m
  <2>1. /\ IsMem(n) /\ n.lastAddress = known.lastAddress /\ n.ops.address = known.ops.address
        /\ n.seenAddress = known.seenAddress /\ n.ops.tx = known.ops.tx
    <3>1. CASE n = [known EXCEPT !.failed = TRUE]
      BY <1>3, <3>1 DEF IsMem
    <3>2. CASE n = [known EXCEPT !.ops.utxo = u, !.seenUtxo = s, !.added = l]
      <4>1. IsMem(n) /\ n.lastAddress = known.lastAddress
        BY <1>3, <3>2 DEF IsMem
      <4>2. n.ops.address = known.ops.address /\ n.ops.tx = known.ops.tx
        BY <1>3, <3>2 DEF IsMem
      <4>3. n.seenAddress = known.seenAddress
        BY <1>3, <3>2 DEF IsMem
      <4> QED
        BY <4>1, <4>2, <4>3
    <3> QED
      BY <1>1, <1>5, <3>1, <3>2
  <2>2. Keeps(known, n)
    BY <1>3, <2>1, KeepsFrame
  <2>3. Keeps(m, n)
    BY <1>2, <2>2, KeepsOn
  <2> QED
    BY <2>3 DEF n
<1> QED
  BY <1>4, <1>5

\* The outputs of a transaction.
LEMMA OutputsKeep ==
    ASSUME NEW m, NEW d, IsMem(m), m.lastAddress \in Nat, NEW t \in Txs, NEW symbol, NEW height
    PROVE  Keeps(m, BatchTransactionOutputs(m, d, t, symbol, height))
<1> DEFINE N == Len(Outs[t])
<1>1. N \in Nat
  BY UtxoIndexerAssumption DEF UtxoIndexerAssumption
<1>2. PICK f : /\ OutputsRun(f, m, d, t, symbol, height)
               /\ BatchTransactionOutputs(m, d, t, symbol, height) = f[N]
  BY <1>1, OutputsUnfolds
<1> DEFINE S == {k \in 0..N : Keeps(m, f[k])}
<1>3. 0 \in S
  BY <1>1, <1>2, KeepsFrame DEF OutputsRun
<1>4. ASSUME NEW k \in S, k < N PROVE k + 1 \in S
  <2>1. k \in 0..N /\ k + 1 \in 0..N
    BY <1>1, <1>4
  <2>2. f[k + 1] = BatchOutput(f[k], d, <<t, k + 1>>, symbol, height)
    BY <1>2, <1>4, <2>1 DEF OutputsRun
  <2>3. Keeps(m, f[k]) /\ IsMem(f[k]) /\ f[k].lastAddress \in Nat
    BY DEF Keeps
  <2>4. Keeps(f[k], f[k + 1])
    BY <2>2, <2>3, OutputKeeps
  <2>5. Keeps(m, f[k + 1])
    BY <2>3, <2>4, KeepsOn
  <2> QED
    BY <2>1, <2>5
<1>5. S = 0..N
  <2>1. S \in SUBSET (0..N)
    OBVIOUS
  <2> HIDE DEF S, N
  <2>2. \A k \in S : k < N => k + 1 \in S
    BY <1>4
  <2> QED
    BY <1>1, <1>3, <2>1, <2>2, UpTo
<1>6. N \in S
  BY <1>1, <1>5
<1> QED
  BY <1>2, <1>6

\* The inputs of a transaction.
LEMMA InputsKeep ==
    ASSUME NEW m, NEW d, IsMem(m), m.lastAddress \in Nat, NEW t \in Txs, NEW symbol, NEW height
    PROVE  Keeps(m, BatchTransactionInputs(m, d, t, symbol, height))
<1> DEFINE N == Len(Ins[t])
<1>1. N \in Nat
  BY UtxoIndexerAssumption DEF UtxoIndexerAssumption
<1>2. PICK f : /\ InputsRun(f, m, d, t, symbol, height)
               /\ BatchTransactionInputs(m, d, t, symbol, height) = f[N]
  BY <1>1, InputsUnfolds
<1>3. ASSUME NEW x, IsMem(x), x.lastAddress \in Nat, NEW ref
      PROVE  Keeps(x, InvalidateUtxo(x, d, ref, symbol, height))
  <2> DEFINE n == InvalidateUtxo(x, d, ref, symbol, height)
  <2>1. PICK u, s : \/ n = [x EXCEPT !.failed = TRUE]
                    \/ n = [x EXCEPT !.ops.utxo = u, !.seenUtxo = s]
    BY Zenon DEF InvalidateUtxo
  <2> HIDE DEF n
  <2>2. /\ IsMem(n) /\ n.lastAddress = x.lastAddress /\ n.ops.address = x.ops.address
        /\ n.seenAddress = x.seenAddress /\ n.ops.tx = x.ops.tx
    <3>1. CASE n = [x EXCEPT !.failed = TRUE]
      BY <1>3, <3>1 DEF IsMem
    <3>2. CASE n = [x EXCEPT !.ops.utxo = u, !.seenUtxo = s]
      <4>1. IsMem(n) /\ n.lastAddress = x.lastAddress /\ n.seenAddress = x.seenAddress
        BY <1>3, <3>2 DEF IsMem
      <4>2. n.ops.address = x.ops.address /\ n.ops.tx = x.ops.tx
        BY <1>3, <3>2 DEF IsMem
      <4> QED
        BY <4>1, <4>2
    <3> QED
      BY <2>1, <3>1, <3>2
  <2>3. Keeps(x, n)
    BY <1>3, <2>2, KeepsFrame
  <2> QED
    BY <2>3 DEF n
<1> DEFINE S == {k \in 0..N : Keeps(m, f[k])}
<1>4. 0 \in S
  BY <1>1, <1>2, KeepsFrame DEF InputsRun
<1>5. ASSUME NEW k \in S, k < N PROVE k + 1 \in S
  <2>1. k \in 0..N /\ k + 1 \in 0..N
    BY <1>1, <1>5
  <2>2. f[k + 1] = InvalidateUtxo(f[k], d, Ins[t][k + 1], symbol, height)
    BY <1>2, <1>5, <2>1 DEF InputsRun
  <2>3. Keeps(m, f[k]) /\ IsMem(f[k]) /\ f[k].lastAddress \in Nat
    BY DEF Keeps
  <2>4. Keeps(f[k], f[k + 1])
    BY <1>3, <2>2, <2>3
  <2>5. Keeps(m, f[k + 1])
    BY <2>3, <2>4, KeepsOn
  <2> QED
    BY <2>1, <2>5
<1>6. S = 0..N
  <2>1. S \in SUBSET (0..N)
    OBVIOUS
  <2> HIDE DEF S, N
  <2>2. \A k \in S : k < N => k + 1 \in S
    BY <1>5
  <2> QED
    BY <1>1, <1>4, <2>1, <2>2, UpTo
<1>7. N \in S
  BY <1>1, <1>6
<1> QED
  BY <1>2, <1>7

\* One transaction of a block behind p.
LEMMA BatchTxKeeps ==
    ASSUME NEW m, NEW d, NEW table, Sound(m, table), NEW p, NEW done, Adding(m, d, p, done),
           NEW t \in Txs, NEW height
    PROVE  Keeps(m, BatchTx(m, d, t, height))
<1> DEFINE tx == Apply(m.ops.tx, d.tx)
           n == BatchTx(m, d, t, height)
<1>1. /\ m.seenTx = m.ops.tx /\ m.ops.tx \in [DOMAIN m.ops.tx -> Nat] /\ IsMem(m)
      /\ m.lastAddress \in Nat /\ \A u \in DOMAIN tx : tx[u] \in Nat
  BY DEF Adding, Sound, Symbols
<1>2. GetTxSymbol(m, d, t) = IF t \in DOMAIN tx THEN tx[t] ELSE NoSymbol
  BY <1>1, TxSymbol
<1>3. CASE GetTxSymbol(m, d, t) # NoSymbol
  <2>1. n = m
    BY <1>3, Zenon DEF BatchTx
  <2> HIDE DEF n
  <2>2. Keeps(m, n)
    BY <1>1, <2>1, KeepsFrame
  <2> QED
    BY <2>2 DEF n
<1>4. CASE GetTxSymbol(m, d, t) = NoSymbol
  <2> DEFINE s == m.lastTx + 1
             named == [m EXCEPT !.lastTx = s, !.seenTx = With(@, t, s),
                                !.ops.tx = With(@, t, s), !.ops.txid = With(@, s, t)]
             spent == BatchTransactionInputs(named, d, t, s, height)
  <2>1. n = BatchTransactionOutputs(spent, d, t, s, height)
    BY <1>4, Zenon DEF BatchTx
  <2>2. t \notin DOMAIN m.ops.tx
    <3>1. t \notin DOMAIN tx
      BY <1>1, <1>2, <1>4 DEF NoSymbol
    <3>2. \A u \in DOMAIN m.ops.tx : m.ops.tx[u] # Deleted
      BY <1>1, UtxoIndexerAssumption DEF UtxoIndexerAssumption
    <3> QED
      BY <3>1, <3>2, ApplyTable DEF tx
  <2> HIDE DEF n, spent, s
  <2>3. /\ IsMem(named) /\ named.lastAddress = m.lastAddress
        /\ named.ops.address = m.ops.address /\ named.seenAddress = m.seenAddress
        /\ named.ops.tx = With(m.ops.tx, t, s)
    BY <1>1 DEF IsMem
  <2> HIDE DEF named
  <2>4. Keeps(m, named)
    BY <1>1, <2>2, <2>3 DEF Keeps, Positive, With
  <2>5. Keeps(named, spent)
    BY <1>1, <2>3, InputsKeep DEF spent
  <2>6. IsMem(spent) /\ spent.lastAddress \in Nat
    BY <2>5 DEF Keeps
  <2>7. Keeps(spent, n)
    BY <2>1, <2>6, OutputsKeep
  <2>8. Keeps(m, spent)
    BY <2>4, <2>5, KeepsOn
  <2>9. Keeps(m, n)
    BY <2>7, <2>8, KeepsOn
  <2> QED
    BY <2>9 DEF n
<1> QED
  BY <1>3, <1>4

\* saveBlock.
LEMMA SaveBlockKeeps ==
    ASSUME NEW m, NEW d, NEW table, Sound(m, table), DOMAIN d.utxo \subseteq Nat \X Nat, Readies(d),
           NEW b \in Blocks, m.seenTx = m.ops.tx, m.ops.tx \in [DOMAIN m.ops.tx -> Nat],
           Names(m.ops, m.lastTx, d, Parent[b]), ~m.failed,
           Saving(m, d, Apply(m.ops.tx, d.tx), OutputsOf(Mined(Parent[b])))
    PROVE  Keeps(m, SaveBlock(m, d, b))
<1> DEFINE N == Len(TxsOf[b])
<1>1. N \in Nat /\ 0 \in 0..N /\ N \in 0..N /\ \A i \in 1..N : TxsOf[b][i] \in Txs
  BY FirstAll
<1>2. PICK f :
         /\ SavedRun(f, m, d, b) /\ SaveBlock(m, d, b) = f[N]
         /\ \A k \in 0..N : Sound(f[k], table) /\ Adding(f[k], d, Parent[b], First(b, k))
  BY SaveBlockRuns
<1> DEFINE S == {k \in 0..N : Keeps(m, f[k])}
<1>3. 0 \in S
  <2>1. IsMem(m) /\ m.lastAddress \in Nat
    BY DEF Sound, Symbols
  <2> DEFINE n == Begun(m, b)
  <2>2. /\ IsMem(n) /\ n.lastAddress = m.lastAddress /\ n.ops.address = m.ops.address
        /\ n.seenAddress = m.seenAddress /\ n.ops.tx = m.ops.tx
    BY <2>1 DEF IsMem, Begun
  <2> HIDE DEF n
  <2>3. Keeps(m, n)
    BY <2>1, <2>2, KeepsFrame
  <2>4. f[0] = n
    BY <1>2 DEF SavedRun, n
  <2> QED
    BY <1>1, <2>3, <2>4
<1>4. ASSUME NEW k \in S, k < N PROVE k + 1 \in S
  <2> DEFINE t == TxsOf[b][k + 1]
  <2>1. k \in 0..N /\ k + 1 \in 0..N /\ k + 1 \in 1..N
    BY <1>1, <1>4
  <2>2. f[k + 1] = BatchTx(f[k], d, t, Height[b])
    BY <1>2, <1>4, <2>1 DEF SavedRun
  <2>3. t \in Txs
    BY <1>1, <2>1
  <2>4. Sound(f[k], table) /\ Adding(f[k], d, Parent[b], First(b, k))
    BY <1>2, <2>1
  <2>5. Keeps(m, f[k])
    OBVIOUS
  <2>6. Keeps(f[k], BatchTx(f[k], d, t, Height[b]))
    <3> HIDE DEF t, S, N
    <3> QED
      BY <2>3, <2>4, BatchTxKeeps
  <2>7. Keeps(m, f[k + 1])
    <3> HIDE DEF t, S, N
    <3> QED
      BY <2>2, <2>5, <2>6, KeepsOn
  <2> QED
    BY <2>1, <2>7
<1>5. S = 0..N
  <2>1. S \in SUBSET (0..N)
    OBVIOUS
  <2> HIDE DEF S, N
  <2>2. \A k \in S : k < N => k + 1 \in S
    BY <1>4
  <2> QED
    BY <1>1, <1>3, <2>1, <2>2, UpTo
<1>6. N \in S
  BY <1>1, <1>5
<1> QED
  BY <1>2, <1>6

\* Transaction t has symbol s on disk, or in the batch in flight, or only in memory.
TxHere(s, t) ==
    \/ t \in DOMAIN db.tx /\ db.tx[t] = s
    \/ pc = "idle" /\ t \in DOMAIN mem.ops.tx /\ mem.ops.tx[t] = s
    \/ Flushing /\ t \in DOMAIN inflight.ops.tx /\ inflight.ops.tx[t] = s

\* The same of an address.
AddressHere(s, a) ==
    \/ a \in DOMAIN db.address /\ db.address[a] = s
    \/ pc = "idle" /\ a \in DOMAIN mem.seenAddress /\ mem.seenAddress[a] = s
    \/ Flushing /\ a \in DOMAIN inflight.ops.address /\ inflight.ops.address[a] = s

\* The disk is not ahead of memory, but for the block that is being taken back.
AheadInv ==
    /\ pc \in {"idle", "removalFlush"} => db.best \in Chain[best] \cup {NoBlock}
    /\ pc = "flush" =>
          \/ db.best \in Chain[best] \cup {NoBlock}
          \/ db.best \in Blocks /\ best = Parent[db.best]

\* Symbols of addresses start with 1.
PositiveInv ==
    /\ Positive(db) /\ Positive(inflight.ops)
    /\ pc # "aborted" => Positive(mem.ops)

\* Every list is of an address, under whose symbol it is: on disk, and with the batch in
\* flight.
NamedLists(list, address) ==
    \A s \in DOMAIN list : \E a \in DOMAIN address : s = address[a] /\ list[s].address = a

NamedInv ==
    /\ NamedLists(db.list, db.address)
    /\ Flushing => NamedLists(Apply(inflight.ops.list, db.list),
                              Apply(inflight.ops.address, db.address))

\* What a last-seen cache can have of an output that is not taken back.
SeenOutput(ref, value) ==
    /\ Addressed(ref) /\ value.sats = Outs[ref[1]][ref[2]].sats
    /\ AddressHere(value.address, Payee(ref))

\* While a batch is written, the last-seen caches have what is in it, or on disk.
SeenInv ==
    Flushing =>
       /\ \A t \in DOMAIN mem.seenTx :
             t \in DOMAIN inflight.ops.tx /\ inflight.ops.tx[t] = mem.seenTx[t]
       /\ \A ref \in DOMAIN mem.seenUtxo : SeenOutput(ref, mem.seenUtxo[ref].value)

CacheInv == AheadInv /\ PositiveInv /\ NamedInv /\ SeenInv

LEMMA CacheInvInit == Init => CacheInv
  BY EmptyTableIsEmpty
  DEF Init, CacheInv, AheadInv, PositiveInv, NamedInv, SeenInv, Positive, NamedLists, Flushing,
      EmptyDb, Nothing, MemoryOf, EmptyOps

\* A batch takes the disk to where memory is.
LEMMA AheadInvNext == FlushInv /\ AheadInv /\ [Next]_vars => AheadInv'
<1> SUFFICES ASSUME FlushInv, AheadInv, [Next]_vars PROVE AheadInv'
  OBVIOUS
<1>1. best \in BlockOrNone /\ \A b \in BlockOrNone : b \in Chain[b] \cup {NoBlock}
  BY ChainEnds DEF FlushInv, BlockOrNone
<1>2. CASE AddBlock
  <2>1. PICK b \in Blocks : Parent[b] = best /\ best' = b
    BY <1>2 DEF AddBlock
  <2>2. Chain[b] = Chain[best] \cup {b}
    BY <2>1, ChainEnds
  <2> QED
    BY <1>2, <2>1, <2>2 DEF AddBlock, AheadInv
<1>3. CASE Flush \/ StartRemoval
  BY <1>3 DEF Flush, StartRemoval, AheadInv
<1>4. CASE FlushEnds
  <2>1. db'.best = best /\ best' = best /\ pc' \in {"idle", "removing"}
    BY <1>4 DEF FlushEnds, FlushInv, Written
  <2> QED
    BY <1>1, <2>1 DEF AheadInv
<1>5. CASE RemoveBest
  <2>1. db.best = best /\ best \in Blocks /\ db' = db
    BY <1>5 DEF RemoveBest, FlushInv, BlockOrNone
  <2>2. pc' = "aborted" \/ (pc' = "flush" /\ best' = Parent[best])
    BY <1>5 DEF RemoveBest
  <2> QED
    BY <2>1, <2>2 DEF AheadInv
<1>6. CASE Query
  BY <1>6, QueryStep DEF AheadInv
<1>7. CASE Restart
  <2>1. best' = db'.best /\ pc' = "idle"
    BY <1>7 DEF Restart
  <2>2. db'.best \in BlockOrNone
    BY <1>7 DEF Restart, Written, FlushInv
  <2> QED
    BY <1>1, <2>1, <2>2 DEF AheadInv
<1>8. CASE UNCHANGED vars
  BY <1>8 DEF vars, AheadInv
<1> QED
  BY <1>2, <1>3, <1>4, <1>5, <1>6, <1>7, <1>8 DEF Next

\* A block that is taken back enters nothing into a cache.
LEMMA RemoveBestQuiet ==
    ASSUME Plain, FlushInv, BudgetInv, SymbolInv, RecordInv, TableInv, RemoveBest
    PROVE  Quiet(mem, RemoveBlock(mem, db, best))
<1>1. pc = "removing" /\ best \in Blocks /\ db.best = best
  BY DEF RemoveBest, FlushInv, BlockOrNone
<1>2. IsMem(mem)
  BY <1>1 DEF SymbolInv, SoundInv, Sound
<1>3. /\ NoNames(mem) /\ mem.seenTx = mem.ops.tx
      /\ TxNames(db.tx, db.txid, db.lastTx, best)
  BY <1>1 DEF SymbolInv, NameInv
<1>4. mem.ops.utxo = EmptyTable /\ mem.seenUtxo = EmptyTable
  BY <1>1 DEF RecordInv
<1>5. ExactTable(db.utxo, db.tx, db.address, best)
  BY <1>1 DEF TableInv
<1>6. SpendsOlder(best)
  BY <1>1 DEF Plain, Ordinary, BudgetInv
<1>7. \A ref \in OutputsOf(Mined(best)) : Addressed(ref) => Payee(ref) \in DOMAIN db.address
  BY <1>5 DEF ExactTable
<1> QED
  BY <1>1, <1>2, <1>3, <1>4, <1>6, <1>7, RemoveBlockTakes

\* What saveBlock does to the names in memory.
LEMMA AddBlockKeeps ==
    ASSUME FlushInv, SymbolInv, RecordInv, AddBlock PROVE Keeps(mem, mem')
<1>1. PICK b \in Blocks : Parent[b] = best /\ mem' = SaveBlock(mem, db, b)
  BY DEF AddBlock
<1>2. pc = "idle"
  BY DEF AddBlock
<1>3. Sound(mem, db.address) /\ DOMAIN db.utxo \subseteq Nat \X Nat
  BY <1>2, RestingTable DEF SymbolInv, SoundInv, Flushing
<1>4. mem.seenTx = mem.ops.tx /\ mem.ops.tx \in [DOMAIN mem.ops.tx -> Nat]
      /\ Names(mem.ops, mem.lastTx, db, Parent[b])
  BY <1>1, <1>2 DEF SymbolInv, NameInv
<1>5. /\ Readies(db) /\ ~mem.failed
      /\ Saving(mem, db, Apply(mem.ops.tx, db.tx), OutputsOf(Mined(Parent[b])))
  BY <1>1, <1>2 DEF RecordInv
<1> QED
  BY <1>1, <1>3, <1>4, <1>5, SaveBlockKeeps

\* The tables of addresses.
LEMMA PositiveInvNext ==
    Plain /\ AllInv /\ RecordInv /\ TableInv /\ PositiveInv /\ [Next]_vars /\ ~Query => PositiveInv'
<1> SUFFICES ASSUME Plain, AllInv, RecordInv, TableInv, PositiveInv, [Next]_vars, ~Query
             PROVE  PositiveInv'
  OBVIOUS
<1>1. FlushInv /\ BudgetInv /\ SymbolInv
  BY DEF AllInv
<1>2. Positive(EmptyOps) /\ Positive(Nothing.ops)
  BY EmptyTableIsEmpty DEF Positive, EmptyOps, Nothing
<1>3. Positive(Written(db, inflight))
  <2>1. Written(db, inflight).address = Apply(inflight.ops.address, db.address)
    BY DEF Written
  <2> QED
    BY <2>1, ApplyTable DEF Positive, PositiveInv
<1>4. pc # "aborted" => IsMem(mem)
  BY <1>1 DEF SymbolInv, SoundInv, Sound
<1>5. CASE AddBlock
  BY <1>1, <1>5, AddBlockKeeps DEF AddBlock, Keeps, PositiveInv
<1>6. CASE Flush \/ StartRemoval
  <2>1. /\ pc = "idle" /\ db' = db
        /\ inflight' = Gather(best, mem, db) /\ mem' = [mem EXCEPT !.ops = EmptyOps]
    BY <1>6 DEF Flush, StartRemoval, BeginFlush
  <2>2. inflight'.ops.address = mem.ops.address /\ mem'.ops = EmptyOps
    BY <1>4, <2>1, GatherParts DEF IsMem
  <2> QED
    BY <1>2, <2>1, <2>2 DEF PositiveInv, Positive
<1>7. CASE FlushEnds
  <2>1. /\ pc # "aborted" /\ db' = Written(db, inflight) /\ inflight' = Nothing
        /\ mem' = [mem EXCEPT !.seenBlock = EmptyTable, !.seenTx = EmptyTable,
                              !.seenAddress = EmptyTable, !.seenUtxo = EmptyTable,
                              !.added = EmptyTable]
    BY <1>7 DEF FlushEnds
  <2>2. mem'.ops = mem.ops
    BY <1>4, <2>1 DEF IsMem
  <2> QED
    BY <1>2, <1>3, <2>1, <2>2 DEF PositiveInv
<1>8. CASE RemoveBest
  <2> DEFINE m == RemoveBlock(mem, db, best)
  <2>1. Quiet(mem, m)
    BY <1>1, <1>8, RemoveBestQuiet
  <2>2. pc = "removing" /\ db' = db
    BY <1>8 DEF RemoveBest
  <2>3. \/ mem' = m /\ inflight' = inflight
        \/ /\ inflight' = Gather(Parent[best], m, db) /\ mem' = [m EXCEPT !.ops = EmptyOps]
    BY <1>8 DEF RemoveBest, BeginFlush
  <2> HIDE DEF m
  <2>4. IsMem(m) /\ m.ops.address = mem.ops.address
    BY <2>1 DEF Quiet
  <2>5. Positive(m.ops)
    BY <2>2, <2>4 DEF PositiveInv, Positive
  <2>6. CASE mem' = m /\ inflight' = inflight
    BY <2>2, <2>5, <2>6 DEF PositiveInv
  <2>7. CASE /\ inflight' = Gather(Parent[best], m, db) /\ mem' = [m EXCEPT !.ops = EmptyOps]
    <3>1. inflight'.ops.address = m.ops.address /\ mem'.ops = EmptyOps
      BY <2>4, <2>7, GatherParts DEF IsMem
    <3> QED
      BY <1>2, <2>2, <2>5, <3>1 DEF PositiveInv, Positive
  <2> QED
    BY <2>3, <2>6, <2>7
<1>10. CASE Restart
  <2>1. inflight' = Nothing /\ mem' = MemoryOf(db') /\ (db' = db \/ db' = Written(db, inflight))
    BY <1>10 DEF Restart
  <2>2. mem'.ops = EmptyOps
    BY <2>1 DEF MemoryOf
  <2> QED
    BY <1>2, <1>3, <2>1, <2>2 DEF PositiveInv
<1>11. CASE UNCHANGED vars
  BY <1>11 DEF vars, PositiveInv
<1> QED
  BY <1>5, <1>6, <1>7, <1>8, <1>10, <1>11 DEF Next

\* A batch has the names of the lists it adds to, and of those that were shortened.
LEMMA GatherNamed ==
    ASSUME NEW m, NEW d, NEW c, IsMem(m), Typed(m), TypedDb(d), NamedLists(d.list, d.address),
           DOMAIN m.ops.address \cap DOMAIN d.address = {},
           \A a \in DOMAIN m.ops.address : m.ops.address[a] \in Nat,
           \A a \in DOMAIN m.seenAddress :
              a \in DOMAIN m.ops.address /\ m.ops.address[a] = m.seenAddress[a],
           \A a \in DOMAIN m.added : HasSymbol(m, d, a),
           \A s \in DOMAIN m.ops.list :
              s \in DOMAIN d.list /\ m.ops.list[s].address = d.list[s].address
    PROVE  NamedLists(Apply(Gather(c, m, d).ops.list, d.list), Apply(m.ops.address, d.address))
<1> DEFINE A == Apply(m.ops.address, d.address)
           g == Gather(c, m, d).ops.list
           L == Apply(g, d.list)
           U == UtxoLists(m, d)
<1>1. \A a \in DOMAIN m.ops.address : a \in DOMAIN A /\ A[a] = m.ops.address[a]
  <2>1. \A a \in DOMAIN m.ops.address : m.ops.address[a] # Deleted
    BY UtxoIndexerAssumption DEF UtxoIndexerAssumption
  <2> QED
    BY <2>1, ApplyTable
<1>2. \A a \in DOMAIN d.address : a \in DOMAIN A /\ A[a] = d.address[a]
  <2>1. \A a \in DOMAIN d.address : a \notin DOMAIN m.ops.address
    OBVIOUS
  <2> QED
    BY <2>1, ApplyTable
<1>3. /\ \A s \in DOMAIN U : s \in DOMAIN g /\ g[s] = U[s]
      /\ \A s \in DOMAIN g \ DOMAIN U : s \in DOMAIN m.ops.list /\ g[s] = m.ops.list[s]
  <2>1. LET h == Gather(c, m, d).ops.list
        IN  /\ \A s \in DOMAIN UtxoLists(m, d) : s \in DOMAIN h /\ h[s] = UtxoLists(m, d)[s]
            /\ \A s \in DOMAIN h \ DOMAIN UtxoLists(m, d) :
                  s \in DOMAIN m.ops.list /\ h[s] = m.ops.list[s]
    BY GatheredLists
  <2> QED
    BY <2>1
<1>4. \A s \in DOMAIN U : \E a \in DOMAIN m.added :
         s = AddressSymbol(m, d, a) /\ U[s] = Longer(m, d, s, a)
  BY ListsGathered
<1>5. \A s \in DOMAIN L : L[s] = IF s \in DOMAIN g THEN g[s] ELSE d.list[s]
  BY ApplyTable
<1>6. \A s \in DOMAIN L : s \in DOMAIN g \/ s \in DOMAIN d.list
  BY ApplyTable
<1> HIDE DEF A, g, L, U
<1>7. ASSUME NEW s \in DOMAIN L PROVE \E a \in DOMAIN A : s = A[a] /\ L[s].address = a
  <2>1. CASE s \in DOMAIN U
    <3>1. L[s] = U[s]
      BY <1>3, <1>5, <2>1
    <3>2. PICK a \in DOMAIN m.added : s = AddressSymbol(m, d, a) /\ U[s] = Longer(m, d, s, a)
      BY <1>4, <2>1
    <3>3. HasSymbol(m, d, a)
      OBVIOUS
    <3>4. a \in DOMAIN A /\ A[a] = s
      <4>1. CASE a \in DOMAIN m.seenAddress
        BY <1>1, <3>2, <4>1 DEF AddressSymbol
      <4>2. CASE a \notin DOMAIN m.seenAddress
        BY <1>2, <3>2, <3>3, <4>2 DEF AddressSymbol, HasSymbol
      <4> QED
        BY <4>1, <4>2
    <3>5. L[s].address = a
      BY <3>1, <3>2 DEF Longer
    <3> QED
      BY <3>4, <3>5
  <2>2. CASE s \notin DOMAIN U
    <3>1. s \in DOMAIN d.list /\ L[s].address = d.list[s].address
      <4>1. CASE s \in DOMAIN g
        <5>1. s \in DOMAIN m.ops.list /\ g[s] = m.ops.list[s]
          BY <1>3, <2>2, <4>1
        <5>2. L[s] = g[s]
          BY <1>5, <4>1
        <5> QED
          BY <5>1, <5>2
      <4>2. CASE s \notin DOMAIN g
        BY <1>5, <1>6, <4>2
      <4> QED
        BY <4>1, <4>2
    <3>2. PICK a \in DOMAIN d.address : s = d.address[a] /\ d.list[s].address = a
      BY <3>1 DEF NamedLists
    <3> QED
      BY <1>2, <3>1, <3>2
  <2> QED
    BY <2>1, <2>2
<1> QED
  BY <1>7 DEF NamedLists, L, A, g

\* Without one of its entries a list keeps its name.
LEMMA WithoutNamed ==
    ASSUME NEW list \in Lists, NEW entry PROVE Without(list, entry).address = list.address
<1> DEFINE n == Without(list, entry)
<1>1. PICK o : n = list \/ n = [list EXCEPT !.outs = o]
  BY Zenon DEF Without
<1> HIDE DEF n
<1>2. n.address = list.address
  BY <1>1 DEF Lists
<1> QED
  BY <1>2 DEF n

\* The names of lists.
LEMMA NamedInvNext ==
    Plain /\ AllInv /\ RecordInv /\ TypedInv /\ TableInv /\ ListInv /\ NamedInv /\ [Next]_vars
        /\ ~Query => NamedInv'
<1> SUFFICES ASSUME Plain, AllInv, RecordInv, TypedInv, TableInv, ListInv, NamedInv,
                    [Next]_vars, ~Query
             PROVE  NamedInv'
  OBVIOUS
<1>1. FlushInv /\ BudgetInv /\ SymbolInv
  BY DEF AllInv
<1>2. /\ pc # "aborted" => IsMem(mem)
      /\ ~Flushing /\ pc # "aborted" => Sound(mem, db.address)
  BY <1>1, RestingTable DEF SymbolInv, SoundInv, Sound
<1>3. Typed(mem) /\ TypedDb(db)
  BY DEF TypedInv
<1>4. CASE AddBlock
  <2>1. db' = db /\ ~Flushing'
    BY <1>4 DEF AddBlock, Flushing
  <2> QED
    BY <2>1 DEF NamedInv
<1>5. CASE Flush \/ StartRemoval
  <2>1. /\ pc = "idle" /\ db' = db /\ inflight' = Gather(best, mem, db)
    BY <1>5 DEF Flush, StartRemoval, BeginFlush
  <2>2. IsMem(mem) /\ Sound(mem, db.address)
    BY <1>2, <2>1 DEF Flushing
  <2>3. inflight'.ops.address = mem.ops.address
    BY <2>1, <2>2, GatherParts
  <2>4. Linked(mem, db)
    BY <2>1 DEF TableInv, Writing
  <2>5. /\ mem.ops.list = EmptyTable
        /\ \A a \in DOMAIN mem.added : HasSymbol(mem, db, a)
    BY <2>1 DEF ListInv, Listing
  <2>6. \A a \in DOMAIN mem.ops.address : mem.ops.address[a] \in Nat
    BY <2>2 DEF Sound
  <2>7. NamedLists(Apply(Gather(best, mem, db).ops.list, db.list), Apply(mem.ops.address, db.address))
    BY <1>3, <2>2, <2>4, <2>5, <2>6, GatherNamed, EmptyTableIsEmpty DEF Linked, NamedInv
  <2> QED
    BY <2>1, <2>3, <2>7 DEF NamedInv
<1>6. CASE FlushEnds
  <2>1. db' = Written(db, inflight) /\ ~Flushing' /\ Flushing
    BY <1>6 DEF FlushEnds, Flushing
  <2> QED
    BY <2>1 DEF NamedInv, Written
<1>7. CASE RemoveBest
  <2> DEFINE m == RemoveBlock(mem, db, best)
  <2>1. /\ pc = "removing" /\ best \in Blocks /\ db' = db /\ db.best = best
    BY <1>1, <1>7 DEF RemoveBest, FlushInv, BlockOrNone
  <2>2. IsMem(mem)
    BY <1>2, <2>1
  <2>3. /\ NoNames(mem) /\ mem.seenTx = mem.ops.tx
        /\ TxNames(db.tx, db.txid, db.lastTx, best)
    BY <1>1, <2>1 DEF SymbolInv, NameInv
  <2>4. /\ mem.ops.utxo = EmptyTable /\ mem.seenUtxo = EmptyTable
    BY <2>1 DEF RecordInv
  <2>5. Linked(mem, db) /\ ExactTable(db.utxo, db.tx, db.address, best)
    BY <2>1 DEF TableInv
  <2>6. /\ mem.ops.list = EmptyTable /\ mem.added = EmptyTable
    BY <2>1 DEF ListInv
  <2>7. \A ref \in OutputsOf(Mined(best)) : Addressed(ref) => Payee(ref) \in DOMAIN db.address
    BY <2>5 DEF ExactTable
  <2>8. ListsTaken(RemoveBlock(mem, db, best), db, OutputsOf(ToSet(TxsOf[best])))
    <3>1. DOMAIN mem.seenAddress \cap DOMAIN db.address = {}
      BY <2>5 DEF Linked
    <3> QED
      BY <2>1, <2>2, <2>3, <2>4, <2>6, <2>7, <3>1, RemoveBlockLists
  <2>9. Quiet(mem, RemoveBlock(mem, db, best))
    BY <1>1, <1>7, RemoveBestQuiet
  <2>10. StaysTyped(mem, RemoveBlock(mem, db, best))
    BY <1>3, <2>1, <2>2, RemoveBlockTyped
  <2> HIDE DEF m
  <2>11. /\ Quiet(mem, m) /\ ListsTaken(m, db, OutputsOf(ToSet(TxsOf[best]))) /\ StaysTyped(mem, m)
    BY <2>8, <2>9, <2>10 DEF m
  <2>12. /\ IsMem(m) /\ Typed(m) /\ m.added = EmptyTable
         /\ m.ops.address = mem.ops.address /\ m.seenAddress = mem.seenAddress
    BY <1>3, <2>6, <2>11 DEF StaysTyped, Quiet
  <2>13. \A a \in DOMAIN mem.ops.address : mem.ops.address[a] \in Nat
    BY <1>2, <2>1 DEF Sound, Flushing
  <2>14. ASSUME NEW s \in DOMAIN m.ops.list
         PROVE  s \in DOMAIN db.list /\ m.ops.list[s].address = db.list[s].address
    <3>1. PICK ref \in OutputsOf(ToSet(TxsOf[best])) :
             /\ Addressed(ref) /\ s = db.address[Payee(ref)]
             /\ m.ops.list[s] = Without(ListOf(db, s), Key(db.tx, ref))
      BY <2>11 DEF ListsTaken
    <3>2. ref \in Owned(best, Payee(ref)) /\ Payee(ref) \in Addresses
      <4>1. ref \in OutputRefs /\ ref[1] \in Mined(best)
        BY <2>1, <3>1, MinedSplit DEF OutputsOf
      <4> QED
        BY <3>1, <4>1, RefType DEF Owned, Payee, Addressed
    <3>3. Readable(db, db.address[Payee(ref)])
      BY <2>1, <3>2, ListedOutputs
    <3>4. s \in DOMAIN db.list
      BY <3>1, <3>3 DEF Readable
    <3>5. db.list[s] \in Lists /\ ListOf(db, s) = db.list[s]
      BY <1>3, <3>4 DEF TypedDb, ListOf
    <3> QED
      BY <3>1, <3>4, <3>5, WithoutNamed
  <2>15. NamedLists(Apply(Gather(Parent[best], m, db).ops.list, db.list),
                    Apply(m.ops.address, db.address))
    BY <1>3, <2>5, <2>12, <2>13, <2>14, GatherNamed, EmptyTableIsEmpty DEF Linked, NamedInv
  <2>16. CASE m.failed
    <3>1. pc' = "aborted"
      BY <1>7, <2>16 DEF RemoveBest, m
    <3> QED
      BY <2>1, <3>1 DEF NamedInv, Flushing
  <2>17. CASE ~m.failed
    <3>1. inflight' = Gather(Parent[best], m, db)
      BY <1>7, <2>17 DEF RemoveBest, BeginFlush, m
    <3>2. inflight'.ops.address = m.ops.address
      BY <2>12, <3>1, GatherParts
    <3> QED
      BY <2>1, <2>15, <3>1, <3>2 DEF NamedInv
  <2> QED
    BY <2>16, <2>17
<1>9. CASE Restart
  <2>1. pc' = "idle" /\ (db' = db \/ (Flushing /\ db' = Written(db, inflight)))
    BY <1>9 DEF Restart, Flushing
  <2>2. ~Flushing'
    BY <2>1 DEF Flushing
  <2> QED
    BY <2>1, <2>2 DEF NamedInv, Written
<1>10. CASE UNCHANGED vars
  BY <1>10 DEF vars, NamedInv, Flushing
<1> QED
  BY <1>4, <1>5, <1>6, <1>7, <1>9, <1>10 DEF Next

\* An address keeps its symbol until the process ends.
LEMMA AddressHereStays ==
    ASSUME FlushInv, SymbolInv, RecordInv, TableInv, StayInv, [Next]_vars, ~Restart,
           ~Query, pc' # "aborted", NEW s \in Nat, NEW a, AddressHere(s, a)
    PROVE  AddressHere(s, a)'
<1>1. /\ \A x \in DOMAIN db.address : x \in DOMAIN db'.address /\ db'.address[x] = db.address[x]
  BY SymbolsPersist
<1>2. CASE a \in DOMAIN db.address /\ db.address[a] = s
  BY <1>1, <1>2 DEF AddressHere
<1>3. CASE pc = "idle" /\ a \in DOMAIN mem.seenAddress /\ mem.seenAddress[a] = s
  <2>1. CASE AddBlock
    <3>1. pc' = "idle"
      BY <2>1 DEF AddBlock
    <3>2. a \in DOMAIN mem'.seenAddress /\ mem'.seenAddress[a] = s
      BY <1>3, <2>1, AddBlockKeeps DEF Keeps
    <3> QED
      BY <3>1, <3>2 DEF AddressHere
  <2>2. CASE Flush \/ StartRemoval
    <3>1. pc' \in {"flush", "removalFlush"} /\ inflight' = Gather(best, mem, db)
      BY <2>2 DEF Flush, StartRemoval, BeginFlush
    <3>2. IsMem(mem)
      BY <1>3 DEF SymbolInv, SoundInv, Sound
    <3>3. inflight'.ops.address = mem.ops.address
      BY <3>1, <3>2, GatherParts
    <3>4. a \in DOMAIN mem.ops.address /\ mem.ops.address[a] = s
      BY <1>3 DEF TableInv, Writing, Linked
    <3> QED
      BY <3>1, <3>3, <3>4 DEF AddressHere, Flushing
  <2>4. CASE UNCHANGED vars
    BY <1>3, <2>4 DEF vars, AddressHere
  <2>5. ~FlushEnds /\ ~RemoveBest
    BY <1>3 DEF FlushEnds, RemoveBest
  <2> QED
    BY <2>1, <2>2, <2>4, <2>5 DEF Next
<1>4. CASE Flushing /\ a \in DOMAIN inflight.ops.address /\ inflight.ops.address[a] = s
  <2>1. CASE FlushEnds
    <3>1. db'.address = Apply(inflight.ops.address, db.address)
      BY <2>1 DEF FlushEnds, Written
    <3>2. inflight.ops.address[a] # Deleted
      BY <1>4, UtxoIndexerAssumption DEF UtxoIndexerAssumption
    <3>3. a \in DOMAIN db'.address /\ db'.address[a] = s
      BY <1>4, <3>1, <3>2, ApplyTable
    <3> QED
      BY <3>3 DEF AddressHere
  <2>2. CASE UNCHANGED vars
    BY <1>4, <2>2 DEF vars, AddressHere, Flushing
  <2>3. ~AddBlock /\ ~Flush /\ ~StartRemoval /\ ~RemoveBest
    BY <1>4 DEF AddBlock, Flush, StartRemoval, RemoveBest, Flushing
  <2> QED
    BY <2>1, <2>2, <2>3 DEF Next
<1> QED
  BY <1>2, <1>3, <1>4 DEF AddressHere

\* Between blocks, what the last-seen caches have is in what waits, or on disk.
LEMMA SeenIdle ==
    ASSUME SymbolInv, RecordInv, TableInv, pc = "idle"
    PROVE  /\ mem.seenTx = mem.ops.tx
           /\ \A ref \in DOMAIN mem.seenUtxo : SeenOutput(ref, mem.seenUtxo[ref].value)
<1> DEFINE tx == Apply(mem.ops.tx, db.tx)
           life == LifeOf(tx, best, Mined(best))
<1>1. Writing(mem, db, tx, OutputsOf(Mined(best)), life)
  BY DEF TableInv
<1> HIDE DEF tx, life
<1>2. ASSUME NEW ref \in DOMAIN mem.seenUtxo
      PROVE  SeenOutput(ref, mem.seenUtxo[ref].value)
  <2> DEFINE v == mem.seenUtxo[ref].value
             s == AddressSymbol(mem, db, Payee(ref))
  <2>1. /\ ref \in OutputsOf(Mined(best)) /\ Addressed(ref)
        /\ v = RecordIn(s, life, ref)
    BY <1>1 DEF Writing
  <2>2. HasSymbol(mem, db, Payee(ref))
    BY <1>1, <2>1 DEF Writing
  <2>3. AddressHere(s, Payee(ref))
    BY <2>2 DEF AddressHere, AddressSymbol, HasSymbol
  <2> HIDE DEF v, s
  <2>4. v.sats = Outs[ref[1]][ref[2]].sats /\ v.address = s
    BY <2>1 DEF RecordIn
  <2>5. SeenOutput(ref, v)
    BY <2>1, <2>3, <2>4 DEF SeenOutput
  <2> QED
    BY <2>5 DEF v
<1>3. mem.seenTx = mem.ops.tx
  BY DEF SymbolInv, NameInv
<1> QED
  BY <1>2, <1>3

\* The last-seen caches.
LEMMA SeenInvNext ==
    Plain /\ AllInv /\ RecordInv /\ TableInv /\ StayInv /\ SeenInv /\ [Next]_vars /\ ~Query
       => SeenInv'
<1> SUFFICES ASSUME Plain, AllInv, RecordInv, TableInv, StayInv, SeenInv, [Next]_vars,
                    ~Query
             PROVE  SeenInv'
  OBVIOUS
<1>1. FlushInv /\ BudgetInv /\ SymbolInv
  BY DEF AllInv
<1>2. pc # "aborted" => IsMem(mem) /\ Kept(mem)
  BY <1>1 DEF SymbolInv, SoundInv, Sound, RecordInv
<1>3. ASSUME ~Restart, pc' # "aborted", NEW ref, NEW v \in Records, SeenOutput(ref, v)
      PROVE  SeenOutput(ref, v)'
  <2> DEFINE s == v.address
  <2>1. s \in Nat /\ AddressHere(s, Payee(ref))
    BY <1>3 DEF Records, SeenOutput
  <2> HIDE DEF s
  <2>2. AddressHere(s, Payee(ref))'
    BY <1>1, <1>3, <2>1, AddressHereStays
  <2> QED
    BY <1>3, <2>2 DEF SeenOutput, s
<1>4. ASSUME Flush \/ StartRemoval PROVE SeenInv'
  <2>1. /\ pc = "idle" /\ pc' \in {"flush", "removalFlush"} /\ inflight' = Gather(best, mem, db)
        /\ mem' = [mem EXCEPT !.ops = EmptyOps]
    BY <1>4 DEF Flush, StartRemoval, BeginFlush
  <2>2. ~Restart
    BY <2>1 DEF Restart
  <2>3. inflight'.ops.tx = mem.ops.tx /\ mem'.seenTx = mem.seenTx /\ mem'.seenUtxo = mem.seenUtxo
    BY <1>2, <2>1, GatherParts DEF IsMem
  <2>4. /\ mem.seenTx = mem.ops.tx
        /\ \A ref \in DOMAIN mem.seenUtxo : SeenOutput(ref, mem.seenUtxo[ref].value)
    BY <1>1, <2>1, SeenIdle
  <2>5. \A ref \in DOMAIN mem.seenUtxo : mem.seenUtxo[ref].value \in Records
    BY <1>2, <2>1 DEF Kept
  <2>6. \A ref : \A v \in Records : SeenOutput(ref, v) => SeenOutput(ref, v)'
    BY <1>3, <2>1, <2>2
  <2> QED
    BY <2>3, <2>4, <2>5, <2>6 DEF SeenInv, SeenOutput, AddressHere
<1>5. ASSUME RemoveBest PROVE SeenInv'
  <2> DEFINE m == RemoveBlock(mem, db, best)
  <2>1. pc = "removing"
    BY <1>5 DEF RemoveBest
  <2>2. Quiet(mem, m)
    BY <1>1, <1>5, RemoveBestQuiet
  <2>3. mem.seenTx = EmptyTable /\ mem.seenUtxo = EmptyTable
    BY <1>1, <2>1 DEF SymbolInv, NameInv, NoNames, RecordInv
  <2>4. \/ pc' = "aborted"
        \/ mem' = [m EXCEPT !.ops = EmptyOps]
    BY <1>5 DEF RemoveBest, BeginFlush
  <2> HIDE DEF m
  <2>5. pc' = "aborted" \/ (mem'.seenTx = EmptyTable /\ mem'.seenUtxo = EmptyTable)
    BY <2>2, <2>3, <2>4 DEF Quiet, IsMem
  <2> QED
    BY <2>5, EmptyTableIsEmpty DEF SeenInv, Flushing
<1>7. ASSUME UNCHANGED vars PROVE SeenInv'
  BY <1>7 DEF vars, SeenInv, SeenOutput, AddressHere, Flushing
<1>8. AddBlock \/ FlushEnds \/ Restart => SeenInv'
  <2>1. AddBlock \/ FlushEnds \/ Restart => ~Flushing'
    BY DEF AddBlock, FlushEnds, Restart, Flushing
  <2> QED
    BY <2>1 DEF SeenInv
<1> QED
  BY <1>4, <1>5, <1>7, <1>8 DEF Next

\* So every step preserves them all, but one of a client's look-up.
LEMMA CacheInvNext ==
    Plain /\ AllInv /\ RecordInv /\ TypedInv /\ TableInv /\ ListInv /\ StayInv /\ CacheInv
        /\ [Next]_vars /\ ~Query => CacheInv'
  BY AheadInvNext, PositiveInvNext, NamedInvNext, SeenInvNext DEF CacheInv, AllInv

\* What a query finds in the last-seen caches.
LEMMA SeenHere ==
    ASSUME SymbolInv, RecordInv, TableInv, CacheInv, pc # "aborted"
    PROVE  /\ \A t \in DOMAIN mem.seenTx : TxHere(mem.seenTx[t], t)
           /\ \A ref \in DOMAIN mem.seenUtxo : SeenOutput(ref, mem.seenUtxo[ref].value)
<1>1. CASE pc = "idle"
  BY <1>1, SeenIdle DEF TxHere
<1>2. CASE Flushing
  BY <1>2 DEF CacheInv, SeenInv, TxHere
<1>3. CASE pc = "removing"
  BY <1>3, EmptyTableIsEmpty DEF SymbolInv, NameInv, NoNames, RecordInv
<1> QED
  BY <1>1, <1>2, <1>3 DEF SymbolInv, SoundInv, Flushing

------------------------------------------------------------------------------
(* What a query that remembers a symbol reads with it *)

\* A batch that gives a transaction a symbol changes none on disk.
LEMMA InflightNew ==
    ASSUME FlushInv, SymbolInv, StayInv, AheadInv, Flushing, NEW t \in DOMAIN inflight.ops.tx,
           inflight.ops.tx[t] # Deleted
    PROVE  DOMAIN db.tx \cap DOMAIN inflight.ops.tx = {}
<1>1. /\ DOMAIN db.tx = Mined(db.best) /\ DOMAIN Apply(inflight.ops.tx, db.tx) = Mined(best)
  BY DEF SymbolInv, NameInv, Names, TxNames
<1>2. \A c \in Chain[db.best] \cap Chain[best] : Mined(c) \cap DOMAIN inflight.ops.tx = {}
  BY DEF StayInv
<1>3. Mined(NoBlock) = {} /\ \A b \in Blocks : b \in Chain[b]
  BY ChainEnds DEF Mined
<1>4. best \in BlockOrNone /\ db.best \in BlockOrNone
  BY DEF FlushInv
<1>5. CASE db.best \in Chain[best] \cup {NoBlock}
  BY <1>1, <1>2, <1>3, <1>4, <1>5 DEF BlockOrNone
<1>6. CASE db.best \in Blocks /\ best = Parent[db.best]
  <2>1. t \in Mined(best)
    BY <1>1, ApplyTable
  <2>2. best \in Blocks
    BY <1>3, <1>4, <2>1 DEF BlockOrNone
  <2>3. best \in Chain[db.best]
    BY <1>3, <1>6, <2>2, ChainEnds
  <2> QED
    BY <1>2, <1>3, <2>1, <2>2, <2>3
<1> QED
  BY <1>5, <1>6 DEF AheadInv, Flushing

\* A transaction keeps its symbol until the process ends, if no block is taken back or it is
\* on the chain that stays.
LEMMA TxHereStays ==
    ASSUME FlushInv, SymbolInv, RecordInv, StayInv, AheadInv, [Next]_vars, ~Restart,
           ~Query, pc' # "aborted", NEW s \in Nat, NEW t, TxHere(s, t),
           \/ db.best \in Chain[db'.best] \cup {db'.best}
           \/ t \in Mined(db.best) /\ t \in Mined(db'.best)
    PROVE  TxHere(s, t)'
<1>1. \A b \in Blocks : b \in Chain[b]
  BY ChainEnds
<1>2. best \in BlockOrNone /\ db.best \in BlockOrNone
  BY DEF FlushInv
<1>3. CASE t \in DOMAIN db.tx /\ db.tx[t] = s
  <2>1. DOMAIN db.tx = Mined(db.best)
    BY DEF SymbolInv, NameInv, TxNames
  <2>2. db.best \in Blocks
    BY <1>2, <1>3, <2>1, ChainEnds DEF BlockOrNone, Mined
  <2>3. db' = db \/ (FlushEnds /\ db'.best = best /\ db'.tx = Apply(inflight.ops.tx, db.tx))
    <3>1. db' = db \/ FlushEnds
      BY DEF Next, vars, AddBlock, Flush, StartRemoval, RemoveBest
    <3>2. FlushEnds => db'.best = best /\ db'.tx = Apply(inflight.ops.tx, db.tx)
      BY DEF FlushEnds, FlushInv, Written
    <3> QED
      BY <3>1, <3>2
  <2>4. CASE db' = db
    BY <1>3, <2>4 DEF TxHere
  <2>5. CASE FlushEnds /\ db'.best = best /\ db'.tx = Apply(inflight.ops.tx, db.tx)
    <3>1. \E c \in Chain[db.best] \cap Chain[db'.best] : t \in Mined(c)
      <4>1. CASE db.best \in Chain[db'.best] \cup {db'.best}
        BY <1>1, <1>3, <2>1, <2>2, <4>1
      <4>2. CASE t \in Mined(db'.best)
        <5>1. best \in Blocks
          BY <1>2, <2>5, <4>2, ChainEnds DEF BlockOrNone, Mined
        <5>2. db.best \in Chain[best] \/ best = Parent[db.best]
          BY <2>2, <2>5, BlockTreeAssumption DEF BlockTreeAssumption, FlushEnds, AheadInv
        <5>3. CASE db.best \in Chain[best]
          BY <1>1, <1>3, <2>1, <2>2, <2>5, <5>3
        <5>4. CASE best = Parent[db.best]
          <6>1. best \in Chain[db.best]
            BY <1>1, <2>2, <5>1, <5>4, ChainEnds
          <6> QED
            BY <1>1, <2>5, <4>2, <5>1, <6>1
        <5> QED
          BY <5>2, <5>3, <5>4
      <4> QED
        BY <4>1, <4>2
    <3>2. db'.tx[t] = s
      BY <1>3, <3>1, SymbolsPersist
    <3>3. t \in DOMAIN db'.tx
      <4>1. \A c \in Chain[db.best] \cap Chain[best] : Mined(c) \cap DOMAIN inflight.ops.tx = {}
        BY <2>5 DEF StayInv, Flushing, FlushEnds
      <4>2. t \notin DOMAIN inflight.ops.tx
        BY <2>5, <3>1, <4>1
      <4> QED
        BY <1>3, <2>5, <4>2, ApplyTable
    <3> QED
      BY <3>2, <3>3 DEF TxHere
  <2> QED
    BY <2>3, <2>4, <2>5
<1>4. CASE pc = "idle" /\ t \in DOMAIN mem.ops.tx /\ mem.ops.tx[t] = s
  <2>1. CASE AddBlock
    <3>1. pc' = "idle"
      BY <2>1 DEF AddBlock
    <3>2. t \in DOMAIN mem'.ops.tx /\ mem'.ops.tx[t] = s
      BY <1>4, <2>1, AddBlockKeeps DEF Keeps
    <3> QED
      BY <3>1, <3>2 DEF TxHere
  <2>2. CASE Flush \/ StartRemoval
    <3>1. pc' \in {"flush", "removalFlush"} /\ inflight' = Gather(best, mem, db)
      BY <2>2 DEF Flush, StartRemoval, BeginFlush
    <3>2. IsMem(mem)
      BY <1>4 DEF SymbolInv, SoundInv, Sound
    <3>3. inflight'.ops.tx = mem.ops.tx
      BY <3>1, <3>2, GatherParts
    <3> QED
      BY <1>4, <3>1, <3>3 DEF TxHere, Flushing
  <2>4. CASE UNCHANGED vars
    BY <1>4, <2>4 DEF vars, TxHere
  <2>5. ~FlushEnds /\ ~RemoveBest
    BY <1>4 DEF FlushEnds, RemoveBest
  <2> QED
    BY <2>1, <2>2, <2>4, <2>5 DEF Next
<1>5. CASE Flushing /\ t \in DOMAIN inflight.ops.tx /\ inflight.ops.tx[t] = s
  <2>1. CASE FlushEnds
    <3>1. db'.tx = Apply(inflight.ops.tx, db.tx)
      BY <2>1 DEF FlushEnds, Written
    <3>2. inflight.ops.tx[t] # Deleted
      BY <1>5, UtxoIndexerAssumption DEF UtxoIndexerAssumption
    <3>3. t \in DOMAIN db'.tx /\ db'.tx[t] = s
      BY <1>5, <3>1, <3>2, ApplyTable
    <3> QED
      BY <3>3 DEF TxHere
  <2>2. CASE UNCHANGED vars
    BY <1>5, <2>2 DEF vars, TxHere, Flushing
  <2>3. ~AddBlock /\ ~Flush /\ ~StartRemoval /\ ~RemoveBest
    BY <1>5 DEF AddBlock, Flush, StartRemoval, RemoveBest, Flushing
  <2> QED
    BY <2>1, <2>2, <2>3 DEF Next
<1> QED
  BY <1>3, <1>4, <1>5 DEF TxHere

\* A symbol of a transaction that is remembered is that of no other one on disk.
LEMMA SymbolRead ==
    ASSUME FlushInv, SymbolInv, StayInv, AheadInv, NEW s \in Nat, NEW t, TxHere(s, t)
    PROVE  /\ t \in DOMAIN db.tx => db.tx[t] = s
           /\ \A u \in DOMAIN db.tx : db.tx[u] = s => u = t
<1>1. ASSUME NEW T, NEW txid, NEW last, NEW b, TxNames(T, txid, last, b),
             NEW u \in DOMAIN T, NEW v \in DOMAIN T, T[u] = T[v]
      PROVE  u = v
  <2>1. DOMAIN T = Mined(b)
    BY <1>1 DEF TxNames
  <2>2. txid[T[u]] = u /\ txid[T[v]] = v
    BY <1>1, <2>1 DEF TxNames
  <2> QED
    BY <1>1, <2>2
<1>2. CASE t \in DOMAIN db.tx /\ db.tx[t] = s
  <2>1. TxNames(db.tx, db.txid, db.lastTx, db.best)
    BY DEF SymbolInv, NameInv
  <2> QED
    BY <1>1, <1>2, <2>1
<1>3. ASSUME NEW ops, NEW last, NEW b, Names(ops, last, db, b),
             DOMAIN db.tx \cap DOMAIN ops.tx = {}, t \in DOMAIN ops.tx, ops.tx[t] = s,
             NEW u \in DOMAIN db.tx
      PROVE  db.tx[u] # s
  <2> DEFINE T == Apply(ops.tx, db.tx)
  <2>1. ops.tx[t] # Deleted
    BY <1>3, UtxoIndexerAssumption DEF UtxoIndexerAssumption
  <2>2. t \in DOMAIN T /\ T[t] = s /\ u \in DOMAIN T /\ T[u] = db.tx[u]
    BY <1>3, <2>1, ApplyTable
  <2>3. TxNames(T, Apply(ops.txid, db.txid), last, b)
    BY <1>3 DEF Names
  <2> HIDE DEF T
  <2>4. T[u] = T[t] => u = t
    BY <1>1, <2>2, <2>3
  <2> QED
    BY <1>3, <2>2, <2>4
<1>4. CASE pc = "idle" /\ t \in DOMAIN mem.ops.tx /\ mem.ops.tx[t] = s
  <2>1. Names(mem.ops, mem.lastTx, db, best) /\ DOMAIN db.tx \cap DOMAIN mem.ops.tx = {}
    BY <1>4 DEF SymbolInv, NameInv, StayInv, NewTxs
  <2>2. \A u \in DOMAIN db.tx : db.tx[u] # s
    BY <1>3, <1>4, <2>1
  <2> QED
    BY <1>4, <2>1, <2>2
<1>5. CASE Flushing /\ t \in DOMAIN inflight.ops.tx /\ inflight.ops.tx[t] = s
  <2>1. Names(inflight.ops, inflight.lastTx, db, best)
    BY <1>5 DEF SymbolInv, NameInv
  <2>2. inflight.ops.tx[t] # Deleted
    BY <1>5, UtxoIndexerAssumption DEF UtxoIndexerAssumption
  <2>3. DOMAIN db.tx \cap DOMAIN inflight.ops.tx = {}
    BY <1>5, <2>2, InflightNew
  <2>4. \A u \in DOMAIN db.tx : db.tx[u] # s
    BY <1>3, <1>5, <2>1, <2>3
  <2> QED
    BY <1>5, <2>3, <2>4
<1> QED
  BY <1>2, <1>4, <1>5 DEF TxHere

\* So a record under it is one of the transaction's outputs.
LEMMA UtxoRead ==
    ASSUME FlushInv, SymbolInv, TableInv, StayInv, AheadInv, NEW s \in Nat, NEW t, TxHere(s, t),
           NEW n, <<s, n>> \in DOMAIN db.utxo
    PROVE  /\ <<t, n>> \in OutputsOf(Mined(db.best))
           /\ SeenOutput(<<t, n>>, db.utxo[<<s, n>>])
<1>1. ExactTable(db.utxo, db.tx, db.address, db.best)
  BY DEF TableInv
<1>2. PICK ref \in OutputsOf(Mined(db.best)) : Addressed(ref) /\ <<s, n>> = Key(db.tx, ref)
  BY <1>1 DEF ExactTable, Keys
<1>3. /\ db.tx[ref[1]] = s /\ ref[2] = n /\ ref[1] \in Mined(db.best) /\ ref \in OutputRefs
  BY <1>2 DEF Key, OutputsOf
<1>4. ref[1] \in DOMAIN db.tx
  BY <1>3 DEF SymbolInv, NameInv, TxNames
<1>5. ref[1] = t
  BY <1>3, <1>4, SymbolRead
<1>6. ref = <<t, n>>
  BY <1>3, <1>5, RefType
<1> DEFINE v == db.utxo[<<s, n>>]
<1>7. /\ Payee(ref) \in DOMAIN db.address
      /\ v = RecordIn(db.address[Payee(ref)], LifeOf(db.tx, db.best, Mined(db.best)), ref)
  BY <1>1, <1>2 DEF ExactTable
<1> HIDE DEF v
<1>8. v.sats = Outs[ref[1]][ref[2]].sats /\ v.address = db.address[Payee(ref)]
  BY <1>7 DEF RecordIn
<1>9. SeenOutput(ref, v)
  BY <1>2, <1>7, <1>8 DEF SeenOutput, AddressHere
<1> QED
  BY <1>2, <1>6, <1>9 DEF v

\* A symbol of an address that is remembered is that of no other one on disk.
LEMMA AddressRead ==
    ASSUME SymbolInv, TableInv, StayInv, NEW s \in Nat, NEW a, AddressHere(s, a)
    PROVE  /\ a \in DOMAIN db.address => db.address[a] = s
           /\ \A x \in DOMAIN db.address : db.address[x] = s => x = a
<1>1. CASE a \in DOMAIN db.address /\ db.address[a] = s
  <2>1. IsInjective(db.address)
    BY DEF SymbolInv, SoundInv, Symbols
  <2> QED
    BY <1>1, <2>1 DEF IsInjective
<1>2. ASSUME NEW ops, IsInjective(Apply(ops, db.address)), DOMAIN ops \cap DOMAIN db.address = {},
             a \in DOMAIN ops, ops[a] = s, NEW x \in DOMAIN db.address
      PROVE  db.address[x] # s
  <2> DEFINE T == Apply(ops, db.address)
  <2>1. ops[a] # Deleted
    BY <1>2, UtxoIndexerAssumption DEF UtxoIndexerAssumption
  <2>2. a \in DOMAIN T /\ T[a] = s /\ x \in DOMAIN T /\ T[x] = db.address[x]
    BY <1>2, <2>1, ApplyTable
  <2> HIDE DEF T
  <2>3. T[x] = T[a] => x = a
    BY <1>2, <2>2 DEF IsInjective, T
  <2> QED
    BY <1>2, <2>2, <2>3
<1>3. CASE pc = "idle" /\ a \in DOMAIN mem.seenAddress /\ mem.seenAddress[a] = s
  <2>1. Linked(mem, db)
    BY <1>3 DEF TableInv, Writing
  <2>2. IsInjective(Apply(mem.ops.address, db.address))
    BY <1>3, RestingTable DEF SymbolInv, SoundInv, Sound, Symbols, Flushing
  <2>3. a \in DOMAIN mem.ops.address /\ mem.ops.address[a] = s
        /\ DOMAIN mem.ops.address \cap DOMAIN db.address = {}
    BY <1>3, <2>1 DEF Linked
  <2>4. \A x \in DOMAIN db.address : db.address[x] # s
    BY <1>2, <2>2, <2>3
  <2> QED
    BY <2>3, <2>4
<1>4. CASE Flushing /\ a \in DOMAIN inflight.ops.address /\ inflight.ops.address[a] = s
  <2>1. IsInjective(Apply(inflight.ops.address, db.address))
    BY <1>4 DEF SymbolInv, SoundInv, Symbols
  <2>2. DOMAIN inflight.ops.address \cap DOMAIN db.address = {}
    BY <1>4 DEF StayInv
  <2>3. \A x \in DOMAIN db.address : db.address[x] # s
    BY <1>2, <1>4, <2>1, <2>2
  <2> QED
    BY <1>4, <2>2, <2>3
<1> QED
  BY <1>1, <1>3, <1>4 DEF AddressHere

\* So a list under it is that of the address, and for one the chain on disk has paid there is
\* one, under a symbol the counter has reached.
LEMMA ListRead ==
    ASSUME AllInv, TableInv, ListInv, StayInv, CacheInv, NEW s \in Nat, NEW a, AddressHere(s, a)
    PROVE  /\ s \in DOMAIN db.list => a \in Addresses /\ db.list[s].address = a
           /\ pc # "aborted" /\ a \in Addresses /\ Owned(db.best, a) # {} =>
                 s \in DOMAIN db.list /\ s \in 1 .. mem.lastAddress
<1>1. SymbolInv
  BY DEF AllInv
<1>2. /\ a \in DOMAIN db.address => db.address[a] = s
      /\ \A x \in DOMAIN db.address : db.address[x] = s => x = a
  BY <1>1, AddressRead
<1>3. ASSUME s \in DOMAIN db.list PROVE a \in Addresses /\ db.list[s].address = a
  <2>1. PICK x \in DOMAIN db.address : s = db.address[x] /\ db.list[s].address = x
    BY <1>3 DEF CacheInv, NamedInv, NamedLists
  <2>2. DOMAIN db.address \subseteq Addresses
    BY <1>1 DEF SymbolInv, SoundInv, Symbols
  <2> QED
    BY <1>2, <2>1, <2>2
<1>4. ASSUME pc # "aborted", a \in Addresses, Owned(db.best, a) # {}
      PROVE  s \in DOMAIN db.list /\ s \in 1 .. mem.lastAddress
  <2>1. PICK ref \in OutputRefs : ref[1] \in Mined(db.best) /\ Payee(ref) = a
    BY <1>4 DEF Owned, Payee
  <2>2. a # NoAddress
    BY <1>4, UtxoIndexerAssumption DEF UtxoIndexerAssumption
  <2>3. a \in DOMAIN db.address
    BY <2>1, <2>2 DEF TableInv, ExactTable, OutputsOf, Addressed, Payee
  <2>4. db.address[a] = s
    BY <1>2, <2>3
  <2>5. s \in DOMAIN db.list
    BY <1>4, <2>4, ListedOutputs DEF Readable
  <2>6. s # 0
    BY <2>3, <2>4 DEF CacheInv, PositiveInv, Positive
  <2> DEFINE T == Apply(inflight.ops.address, db.address)
             M == Apply(mem.ops.address, T)
  <2>7. a \in DOMAIN T /\ T[a] = s
    <3>1. CASE Flushing
      <4>1. a \notin DOMAIN inflight.ops.address
        BY <2>3, <3>1 DEF StayInv
      <4> QED
        BY <2>3, <2>4, <4>1, ApplyTable
    <3>2. CASE ~Flushing
      BY <1>1, <2>3, <2>4, <3>2, RestingTable
    <3> QED
      BY <3>1, <3>2
  <2>8. a \notin DOMAIN mem.ops.address
    <3>1. CASE Flushing
      BY <2>3, <3>1 DEF TableInv
    <3>2. CASE ~Flushing
      <4>1. pc \in {"idle", "removing"}
        BY <1>1, <1>4, <3>2 DEF SymbolInv, SoundInv, Flushing
      <4>2. Linked(mem, db)
        BY <4>1 DEF TableInv, Writing
      <4> QED
        BY <2>3, <4>2 DEF Linked
    <3> QED
      BY <3>1, <3>2
  <2>9. Symbols(M, mem.lastAddress)
    BY <1>1, <1>4 DEF SymbolInv, SoundInv, Sound
  <2>10. a \in DOMAIN M /\ M[a] = s
    BY <2>7, <2>8, ApplyTable
  <2> HIDE DEF M, T
  <2>11. s <= mem.lastAddress /\ mem.lastAddress \in Nat
    BY <2>9, <2>10 DEF Symbols
  <2> QED
    BY <2>5, <2>6, <2>11
<1> QED
  BY <1>3, <1>4

\* No step of a running indexer is a restart.
LEMMA StepsGoOn ==
    ASSUME BudgetInv, AddBlock \/ Flush \/ StartRemoval \/ FlushEnds \/ RemoveBest \/ Query
    PROVE  ~Restart
<1>1. pc # "aborted"
  BY QueryStep DEF AddBlock, Flush, StartRemoval, FlushEnds, RemoveBest
<1>2. budget.crashes \in Nat /\ DOMAIN budget = {"removals", "crashes", "queries"}
  BY DEF BudgetInv
<1>3. budget'.crashes = budget.crashes
  BY <1>2, QueryStep DEF AddBlock, Flush, StartRemoval, FlushEnds, RemoveBest
<1>4. Restart => budget'.crashes = budget.crashes - 1
  BY <1>1, <1>2 DEF Restart
<1> QED
  BY <1>2, <1>3, <1>4
==============================================================================
