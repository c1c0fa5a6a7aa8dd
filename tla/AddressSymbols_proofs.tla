------------------------ MODULE AddressSymbols_proofs ------------------------
(***************************************************************************)
(* Proofs about AddressSymbols, for any addresses, clients, transactions    *)
(* and bounds: its types, that no two addresses share a symbol, that the   *)
(* symbol of an address is never replaced unless a client asked for the    *)
(* address before the indexer knew it, and that the records on disk and    *)
(* the lists of outputs by address say the same.                           *)
(***************************************************************************)
EXTENDS AddressSymbols, TLAPS

\* Address a has symbol s somewhere.
Holds(a, s) ==
    /\ s # None
    /\ seen[a] = s \/ ops[a] = s \/ batch.address[a] = s \/ disk.address[a] = s

Unique == \A a, b \in Addresses : \A s \in Nat : Holds(a, s) /\ Holds(b, s) => a = b

InUse(at) == at \in {"gathering", "writing"}

\* What is written never runs ahead of its counter, nor that of the disk ahead of memory.
Counted ==
    /\ \A a \in Addresses : \A s \in Nat : Holds(a, s) => s <= last
    /\ \A a \in Addresses : disk.address[a] <= disk.last
    /\ disk.last <= last
    /\ InUse(worker.at) => /\ \A a \in Addresses : batch.address[a] <= batch.last
                           /\ disk.last <= batch.last
                           /\ batch.last <= last

SymbolInv == TypeOK /\ Unique /\ Counted

Known(a) == seen[a] # None \/ disk.address[a] # None

\* The worker looks an address up while it names outputs or gathers lists, and while it names
\* outputs the address is that of the next one.
Working ==
    /\ calls[Worker].stage # "none" => worker.at \in {"naming", "gathering"}
    /\ worker.at = "naming" =>
          /\ Len(worker.named) + 1 \in DOMAIN worker.payees
          /\ calls[Worker].stage # "none"
          /\ calls[Worker].address = worker.payees[Len(worker.named) + 1]

\* An operation or a batch for an address is for its first symbol, which memory has.
FirstSymbol(a) ==
    /\ ops[a] # None => /\ seen[a] = ops[a]
                        /\ batch.address[a] = None /\ disk.address[a] = None
                        /\ worker.at \in {"idle", "naming"}
    /\ batch.address[a] # None => /\ seen[a] = batch.address[a]
                                  /\ disk.address[a] = None
                                  /\ InUse(worker.at)

\* A look-up finds nothing only when there is nothing: a client's never, the worker's only for
\* an output it names.
FirstCall(a) ==
    /\ \A c \in Callers : (calls[c].address = a /\ calls[c].stage = "read" /\ calls[c].symbol # None)
                             => disk.address[a] # None
    /\ \A c \in Clients : calls[c].address = a =>
          /\ calls[c].stage = "reading" => disk.address[a] # None
          /\ calls[c].stage = "read" => calls[c].symbol # None
    /\ calls[Worker].address = a =>
          /\ calls[Worker].stage \in {"reading", "read"} => seen[a] = None
          /\ calls[Worker].stage = "read" /\ calls[Worker].symbol = None => disk.address[a] = None
          /\ calls[Worker].stage = "known" => Known(a)
          /\ calls[Worker].stage \in {"reading", "read"} /\ worker.at = "gathering"
                => disk.address[a] # None

\* What the worker has named is known until it is written.
NamedKnown(a) ==
    /\ added[a] # {} => Known(a)
    /\ a \in worker.lists => Known(a) /\ worker.at = "gathering"
    /\ \A i \in DOMAIN worker.payees :
          worker.at = "naming" /\ i <= Len(worker.named) /\ worker.payees[i] = a => Known(a)

KeptInv ==
    /\ Working
    /\ \A a \in Addresses \ early : FirstSymbol(a) /\ FirstCall(a) /\ NamedKnown(a)

------------------------------------------------------------------------------
(* Types *)

LEMMA TypeInit == Init => TypeOK
  BY AddressSymbolsAssumption
     DEF AddressSymbolsAssumption, Init, TypeOK, NoSymbols, None, NoCall, Resting, NothingAdded,
         EmptyTables, Tables, Records, Callers, LookUps

LEMMA CallType ==
    ASSUME TypeOK, NEW a \in Addresses
    PROVE  Call(a) \in LookUps /\ Call(a).stage \in {"known", "reading"} /\ Call(a).address = a
  BY DEF TypeOK, Call, LookUps, None

LEMMA NoCallType == NoCall \in LookUps
  BY DEF NoCall, LookUps, None

\* The steps of a look-up keep the types.
LEMMA TypeLookUp ==
    ASSUME TypeOK, NEW c \in Callers, ReadSymbol(c) \/ FindSymbol(c) \/ NewSymbol(c)
    PROVE  TypeOK'
  <1>0. calls[c] \in LookUps
    BY DEF TypeOK
  <1>1. CASE ReadSymbol(c)
    <2>1. disk.address[calls[c].address] \in Nat
      BY <1>0, <1>1 DEF TypeOK, Tables, ReadSymbol, LookUps
    <2>2. [calls[c] EXCEPT !.stage = "read", !.symbol = disk.address[calls[c].address]]
             \in LookUps
      BY <1>0, <1>1, <2>1 DEF LookUps, ReadSymbol
    <2>3. calls' \in [Callers -> LookUps]
      BY <1>1, <2>2 DEF TypeOK, ReadSymbol
    <2>4. QED
      BY <1>1, <2>3 DEF TypeOK, ReadSymbol
  <1>2. CASE FindSymbol(c)
    <2>1. [calls[c] EXCEPT !.stage = "known"] \in LookUps
      BY <1>0, <1>2 DEF LookUps, FindSymbol
    <2>2. calls' \in [Callers -> LookUps]
      BY <1>2, <2>1 DEF TypeOK, FindSymbol
    <2>3. QED
      BY <1>2, <2>2 DEF TypeOK, FindSymbol
  <1>3. CASE NewSymbol(c)
    <2>0. last + 1 \in Nat
      BY DEF TypeOK
    <2>1. [calls[c] EXCEPT !.stage = "known", !.symbol = last + 1] \in LookUps
      BY <1>0, <1>3, <2>0 DEF LookUps, NewSymbol
    <2>2. calls' \in [Callers -> LookUps]
      BY <1>3, <2>1 DEF TypeOK, NewSymbol
    <2>3. QED
      BY <1>3, <2>0, <2>2 DEF TypeOK, NewSymbol
  <1>4. QED
    BY <1>1, <1>2, <1>3

\* So do the clients.
LEMMA TypeClients ==
    ASSUME TypeOK, NEW c \in Clients, ClientAsks(c) \/ ClientServed(c)
    PROVE  TypeOK'
  <1>1. CASE ClientAsks(c)
    <2>1. PICK a \in Addresses :
              /\ calls' = [calls EXCEPT ![c] = Call(a)]
              /\ early' = IF seen[a] = None /\ disk.address[a] = None THEN early \cup {a}
                          ELSE early
      BY <1>1 DEF ClientAsks
    <2>2. calls' \in [Callers -> LookUps]
      BY <2>1, CallType DEF TypeOK
    <2>3. budget' \in [payments : Nat, queries : Nat, crashes : Nat]
      <3>1. budget.queries \in Nat /\ budget.queries > 0
        BY <1>1 DEF TypeOK, ClientAsks
      <3>2. budget.queries - 1 \in Nat
        BY <3>1
      <3>3. QED
        BY <1>1, <3>2 DEF TypeOK, ClientAsks
    <2>4. QED
      BY <1>1, <2>1, <2>2, <2>3 DEF TypeOK, ClientAsks
  <1>2. CASE ClientServed(c)
    BY <1>2, NoCallType DEF TypeOK, ClientServed
  <1>3. QED
    BY <1>1, <1>2

\* And the worker while it names outputs.
LEMMA TypeNaming ==
    ASSUME TypeOK, WorkerTakes \/ WorkerNames \/ WorkerRecords
    PROVE  TypeOK'
  <1>1. CASE WorkerTakes
    <2>1. PICK payees \in Payees :
              /\ worker' = [Resting EXCEPT !.at = "naming", !.payees = payees]
              /\ calls' = [calls EXCEPT ![Worker] = Call(Head(payees))]
      BY <1>1 DEF WorkerTakes
    <2>2. payees \in Seq(Addresses) /\ Head(payees) \in Addresses
      BY AddressSymbolsAssumption DEF AddressSymbolsAssumption
    <2>3. worker' \in [at : {"idle", "naming", "gathering", "writing", "written"},
                       payees : Seq(Addresses), named : Seq(Nat), lists : SUBSET Addresses]
      <3>1. worker' = [at |-> "naming", payees |-> payees, named |-> <<>>, lists |-> {}]
        BY <2>1 DEF Resting
      <3>2. <<>> \in Seq(Nat)
        OBVIOUS
      <3>3. QED
        BY <2>2, <3>1, <3>2
    <2>4. calls' \in [Callers -> LookUps]
      BY <2>1, <2>2, CallType DEF TypeOK
    <2>5. budget' \in [payments : Nat, queries : Nat, crashes : Nat]
      <3>1. budget.payments \in Nat /\ budget.payments > 0
        BY <1>1 DEF TypeOK, WorkerTakes
      <3>2. budget.payments - 1 \in Nat
        BY <3>1
      <3>3. QED
        BY <1>1, <3>2 DEF TypeOK, WorkerTakes
    <2>6. QED
      BY <1>1, <2>3, <2>4, <2>5 DEF TypeOK, WorkerTakes
  <1>2. CASE WorkerNames
    <2>1. worker.payees[Len(worker.named) + 2] \in Addresses
      BY <1>2 DEF TypeOK, WorkerNames
    <2>2. Worker \in Callers /\ calls[Worker].symbol \in Nat
      BY DEF Callers, TypeOK, LookUps
    <2>3. worker' \in [at : {"idle", "naming", "gathering", "writing", "written"},
                       payees : Seq(Addresses), named : Seq(Nat), lists : SUBSET Addresses]
      <3>1. Append(worker.named, calls[Worker].symbol) \in Seq(Nat)
        BY <2>2 DEF TypeOK
      <3>2. worker' = [worker EXCEPT !.named = Append(worker.named, calls[Worker].symbol)]
        BY <1>2 DEF WorkerNames
      <3>3. QED
        BY <3>1, <3>2 DEF TypeOK
    <2>4. calls' \in [Callers -> LookUps]
      BY <1>2, <2>1, CallType DEF TypeOK, WorkerNames
    <2>5. QED
      BY <1>2, <2>3, <2>4 DEF TypeOK, WorkerNames
  <1>3. CASE WorkerRecords
    <2> DEFINE symbols == Append(worker.named, calls[Worker].symbol)
    <2>1. Worker \in Callers /\ calls[Worker].symbol \in Nat
      BY DEF Callers, TypeOK, LookUps
    <2>2. symbols \in Seq(Nat) /\ DOMAIN symbols = DOMAIN worker.payees
      BY <1>3, <2>1 DEF TypeOK, WorkerRecords
    <2>3. \A i \in DOMAIN worker.payees : OutOf(i) \in Outs
      BY DEF TypeOK, OutOf, Outs
    <2>4. waiting' \subseteq Records
      <3>1. \A i \in DOMAIN worker.payees :
                [out |-> OutOf(i), to |-> worker.payees[i], symbol |-> symbols[i]] \in Records
        <4> SUFFICES ASSUME NEW i \in DOMAIN worker.payees
                     PROVE  [out |-> OutOf(i), to |-> worker.payees[i], symbol |-> symbols[i]]
                                \in Records
          OBVIOUS
        <4>1. worker.payees \in Seq(Addresses)
          BY DEF TypeOK
        <4>2. worker.payees[i] \in Addresses
          BY <4>1
        <4>3. symbols[i] \in Nat
          <5> HIDE DEF symbols
          <5> QED
            BY <2>2
        <4>4. OutOf(i) \in Outs
          BY <2>3
        <4> HIDE DEF symbols
        <4> QED
          BY <4>2, <4>3, <4>4 DEF Records
      <3>2. waiting' = waiting \cup {[out |-> OutOf(i), to |-> worker.payees[i],
                                      symbol |-> symbols[i]] : i \in DOMAIN worker.payees}
        BY <1>3 DEF WorkerRecords
      <3>3. QED
        BY <3>1, <3>2 DEF TypeOK
    <2>5. added' \in [Addresses -> SUBSET Outs]
      BY <1>3, <2>3 DEF TypeOK, WorkerRecords
    <2>6. calls' \in [Callers -> LookUps]
      BY <1>3, NoCallType DEF TypeOK, WorkerRecords
    <2>7. worker' \in [at : {"idle", "naming", "gathering", "writing", "written"},
                       payees : Seq(Addresses), named : Seq(Nat), lists : SUBSET Addresses]
      BY <1>3 DEF WorkerRecords, Resting
    <2>8. QED
      BY <1>3, <2>4, <2>5, <2>6, <2>7 DEF TypeOK, WorkerRecords
  <1>4. QED
    BY <1>1, <1>2, <1>3

\* And a flush.
LEMMA TypeFlush ==
    ASSUME TypeOK,
           FlushBegins \/ ListBegins \/ ListGathered \/ WriteBegins \/ WriteLands \/ WriteEnds
    PROVE  TypeOK'
  <1>0. Worker \in Callers
    BY DEF Callers
  <1>1. CASE FlushBegins
    BY <1>1 DEF TypeOK, FlushBegins, Tables, NoSymbols, None, Resting
  <1>2. CASE ListBegins
    <2>1. PICK a \in worker.lists :
              /\ worker' = [worker EXCEPT !.lists = @ \ {a}]
              /\ calls' = [calls EXCEPT ![Worker] = Call(a)]
      BY <1>2 DEF ListBegins
    <2>2. calls' \in [Callers -> LookUps]
      BY <2>1, CallType DEF TypeOK
    <2>3. worker' \in [at : {"idle", "naming", "gathering", "writing", "written"},
                       payees : Seq(Addresses), named : Seq(Nat), lists : SUBSET Addresses]
      BY <2>1 DEF TypeOK
    <2>4. QED
      BY <1>2, <2>2, <2>3 DEF TypeOK, ListBegins
  <1>3. CASE ListGathered
    <2> DEFINE a == calls[Worker].address
               symbol == calls[Worker].symbol
               before == UNION {l.outs : l \in {k \in disk.lists : k.symbol = symbol}}
               list == [symbol |-> symbol, address |-> a, outs |-> before \cup added[a]]
    <2>1. a \in Addresses /\ symbol \in Nat
      BY <1>0, <1>3 DEF TypeOK, ListGathered, LookUps
    <2>2. before \subseteq Outs
      BY DEF TypeOK, Tables
    <2>3. list \in [symbol : Nat, address : Addresses, outs : SUBSET Outs]
      BY <2>1, <2>2 DEF TypeOK
    <2>4. batch' = [batch EXCEPT !.lists = @ \cup {list}]
      BY <1>3 DEF ListGathered
    <2>5. batch' \in Tables
      BY <2>3, <2>4 DEF TypeOK, Tables
    <2>6. QED
      BY <1>3, <2>5, NoCallType DEF TypeOK, ListGathered
  <1>4. CASE WriteBegins
    BY <1>4 DEF TypeOK, WriteBegins
  <1>5. CASE WriteLands
    BY <1>5 DEF TypeOK, WriteLands, Tables, EmptyTables, NoSymbols, None
  <1>6. CASE WriteEnds
    BY <1>6 DEF TypeOK, WriteEnds, NoSymbols, NothingAdded, None, Resting
  <1>7. QED
    BY <1>1, <1>2, <1>3, <1>4, <1>5, <1>6

LEMMA TypeCrash == ASSUME TypeOK, Crash PROVE TypeOK'
  <1>1. budget' \in [payments : Nat, queries : Nat, crashes : Nat]
    <2>1. budget.crashes \in Nat /\ budget.crashes > 0
      BY DEF TypeOK, Crash
    <2>2. budget.crashes - 1 \in Nat
      BY <2>1
    <2>3. QED
      BY <2>2 DEF TypeOK, Crash
  <1>2. EmptyTables \in Tables /\ NoSymbols \in [Addresses -> Nat]
    BY DEF EmptyTables, Tables, NoSymbols, None
  <1>3. calls' \in [Callers -> LookUps]
    BY NoCallType DEF Crash
  <1>4. worker' \in [at : {"idle", "naming", "gathering", "writing", "written"},
                     payees : Seq(Addresses), named : Seq(Nat), lists : SUBSET Addresses]
    BY DEF Crash, Resting
  <1>5. disk.last \in Nat
    BY DEF TypeOK, Tables
  <1>6. QED
    BY <1>1, <1>2, <1>3, <1>4, <1>5 DEF TypeOK, Crash, NothingAdded

LEMMA TypeStep == TypeOK /\ [Next]_vars => TypeOK'
  <1> SUFFICES ASSUME TypeOK, [Next]_vars PROVE TypeOK'
    OBVIOUS
  <1>1. CASE UNCHANGED vars
    BY <1>1 DEF TypeOK, vars
  <1>2. CASE Next
    BY <1>2, TypeLookUp, TypeClients, TypeNaming, TypeFlush, TypeCrash DEF Next
  <1>3. QED
    BY <1>1, <1>2

\* The look-ups, the worker and the disk keep their types.
THEOREM TypeCorrect == Spec => []TypeOK
  BY TypeInit, TypeStep, PTL DEF Spec

------------------------------------------------------------------------------
(* Symbols are distinct *)

\* If nobody holds a symbol it did not hold, no two share one.
LEMMA NothingHeld ==
    ASSUME Unique, \A a \in Addresses, s \in Nat : Holds(a, s)' => Holds(a, s)
    PROVE  Unique'
  BY DEF Unique

\* Most steps: the counters and the disk stay, no table gets a symbol.
LEMMA NothingNew ==
    ASSUME SymbolInv, TypeOK',
           disk' = disk, last' = last,
           \/ /\ batch'.address = batch.address /\ batch'.last = batch.last
              /\ InUse(worker'.at) => InUse(worker.at)
           \/ batch' = EmptyTables /\ ~InUse(worker'.at),
           \A a \in Addresses : seen'[a] \in {seen[a], None} /\ ops'[a] \in {ops[a], None}
    PROVE  SymbolInv'
  <1>1. batch.address \in [Addresses -> Nat] /\ batch.last \in Nat
    BY DEF SymbolInv, TypeOK, Tables
  <1>2. \A a \in Addresses : batch'.address[a] \in {batch.address[a], None}
    BY <1>1 DEF EmptyTables, NoSymbols
  <1>3. \A a \in Addresses, s \in Nat : Holds(a, s)' => Holds(a, s)
    BY <1>2 DEF Holds
  <1>4. Unique'
    BY <1>3, NothingHeld DEF SymbolInv
  <1>5. \A a \in Addresses, s \in Nat : Holds(a, s)' => s <= last'
    BY <1>3 DEF SymbolInv, Counted
  <1>6. InUse(worker'.at) => /\ \A a \in Addresses : batch'.address[a] <= batch'.last
                             /\ disk.last <= batch'.last /\ batch'.last <= last
    BY DEF SymbolInv, Counted
  <1>7. QED
    BY <1>4, <1>5, <1>6 DEF SymbolInv, Counted

LEMMA SymbolInit == Init => SymbolInv
  <1> SUFFICES ASSUME Init PROVE SymbolInv
    OBVIOUS
  <1>1. TypeOK
    BY TypeInit
  <1>2. \A a \in Addresses, s \in Nat : ~Holds(a, s)
    BY DEF Init, Holds, NoSymbols, EmptyTables
  <1>3. QED
    BY <1>1, <1>2 DEF SymbolInv, Unique, Counted, Init, EmptyTables, NoSymbols, None, Resting, InUse

\* A new symbol is above all others.
LEMMA SymbolNew ==
    ASSUME SymbolInv, TypeOK', NEW c \in Callers, NewSymbol(c)
    PROVE  SymbolInv'
  <1> DEFINE named == calls[c].address
  <1>1. /\ named \in Addresses
        /\ last \in Nat
        /\ seen \in [Addresses -> Nat] /\ ops \in [Addresses -> Nat]
        /\ disk.last \in Nat /\ disk.address \in [Addresses -> Nat]
        /\ batch.last \in Nat /\ batch.address \in [Addresses -> Nat]
    BY DEF SymbolInv, TypeOK, LookUps, Tables, NewSymbol
  <1>2. /\ last' = last + 1
        /\ seen' = [seen EXCEPT ![named] = last + 1]
        /\ ops' = [ops EXCEPT ![named] = last + 1]
        /\ UNCHANGED <<batch, disk, worker>>
    BY DEF NewSymbol
  <1>3. \A a \in Addresses, s \in Nat :
            Holds(a, s)' => (Holds(a, s) \/ (a = named /\ s = last + 1))
    BY <1>1, <1>2 DEF Holds
  <1>4. \A a \in Addresses : ~Holds(a, last + 1)
    BY <1>1 DEF SymbolInv, Counted
  <1>5. Unique'
    BY <1>3, <1>4 DEF SymbolInv, Unique
  <1>6. \A a \in Addresses, s \in Nat : Holds(a, s)' => s <= last'
    BY <1>1, <1>2, <1>3 DEF SymbolInv, Counted
  <1>7. QED
    BY <1>1, <1>2, <1>5, <1>6 DEF SymbolInv, Counted

\* The batch takes over the operations and the counter.
LEMMA SymbolFlush ==
    ASSUME SymbolInv, TypeOK', FlushBegins
    PROVE  SymbolInv'
  <1>1. /\ batch'.address = ops /\ batch'.last = last
        /\ ops' = NoSymbols
        /\ UNCHANGED <<last, seen, disk>>
    BY DEF FlushBegins
  <1>2. \A a \in Addresses, s \in Nat : Holds(a, s)' => Holds(a, s)
    BY <1>1 DEF Holds, NoSymbols
  <1>3. Unique'
    BY <1>2, NothingHeld DEF SymbolInv
  <1>4. \A a \in Addresses : ops[a] <= last
    BY DEF SymbolInv, TypeOK, Counted, Holds, None
  <1>5. last \in Nat /\ disk.last \in Nat
    BY DEF SymbolInv, TypeOK, Tables
  <1>6. \A a \in Addresses, s \in Nat : Holds(a, s)' => s <= last'
    BY <1>1, <1>2 DEF SymbolInv, Counted
  <1>7. QED
    BY <1>1, <1>3, <1>4, <1>5, <1>6 DEF SymbolInv, Counted

\* The disk takes over those of the batch.
LEMMA SymbolLands ==
    ASSUME SymbolInv, TypeOK', WriteLands
    PROVE  SymbolInv'
  <1>1. /\ disk'.address = [a \in Addresses |-> IF batch.address[a] # None
                                                THEN batch.address[a] ELSE disk.address[a]]
        /\ disk'.last = batch.last
        /\ batch' = EmptyTables
        /\ InUse(worker.at) /\ ~InUse(worker'.at)
        /\ UNCHANGED <<last, seen, ops>>
    BY DEF WriteLands, InUse, SymbolInv, TypeOK
  <1>2. \A a \in Addresses, s \in Nat : Holds(a, s)' => Holds(a, s)
    BY <1>1 DEF Holds, EmptyTables, NoSymbols
  <1>3. Unique'
    BY <1>2, NothingHeld DEF SymbolInv
  <1>4. \A a \in Addresses : disk'.address[a] <= disk'.last
    BY <1>1, SMTT(30) DEF SymbolInv, Counted, TypeOK, Tables
  <1>5. QED
    BY <1>1, <1>2, <1>3, <1>4 DEF SymbolInv, Counted

\* A restart keeps what the disk has, and its counter.
LEMMA SymbolCrash ==
    ASSUME SymbolInv, TypeOK', Crash
    PROVE  SymbolInv'
  <1>1. /\ seen' = NoSymbols /\ ops' = NoSymbols /\ batch' = EmptyTables
        /\ last' = disk.last /\ disk' = disk
        /\ ~InUse(worker'.at)
    BY DEF Crash, Resting, InUse
  <1>2. \A a \in Addresses, s \in Nat : Holds(a, s)' => Holds(a, s) /\ s <= disk.last
    BY <1>1 DEF Holds, NoSymbols, EmptyTables, SymbolInv, Counted
  <1>3. Unique'
    BY <1>2, NothingHeld DEF SymbolInv
  <1>4. disk.last \in Nat
    BY DEF SymbolInv, TypeOK, Tables
  <1>5. QED
    BY <1>1, <1>2, <1>3, <1>4 DEF SymbolInv, Counted

LEMMA SymbolStep == SymbolInv /\ [Next]_vars => SymbolInv'
  <1> SUFFICES ASSUME SymbolInv, [Next]_vars PROVE SymbolInv'
    OBVIOUS
  <1>0. TypeOK /\ TypeOK'
    BY TypeStep DEF SymbolInv
  <1>1. CASE UNCHANGED vars
    BY <1>0, <1>1, NothingNew DEF vars
  <1>2. ASSUME NEW c \in Callers, ReadSymbol(c) \/ FindSymbol(c) PROVE SymbolInv'
    BY <1>0, <1>2, NothingNew DEF ReadSymbol, FindSymbol
  <1>3. ASSUME NEW c \in Callers, NewSymbol(c) PROVE SymbolInv'
    BY <1>0, <1>3, SymbolNew
  <1>4. ASSUME NEW c \in Clients, ClientAsks(c) \/ ClientServed(c) PROVE SymbolInv'
    BY <1>0, <1>4, NothingNew DEF ClientAsks, ClientServed
  <1>5. CASE WorkerTakes
    <2>1. worker'.at = "naming"
      BY <1>5 DEF WorkerTakes, Resting
    <2>2. QED
      BY <1>0, <1>5, <2>1, NothingNew DEF WorkerTakes, InUse
  <1>6. CASE WorkerNames
    <2>1. worker'.at = worker.at
      BY <1>0, <1>6 DEF WorkerNames, TypeOK
    <2>2. QED
      BY <1>0, <1>6, <2>1, NothingNew DEF WorkerNames
  <1>7. CASE WorkerRecords
    BY <1>0, <1>7, NothingNew DEF WorkerRecords, Resting, InUse
  <1>8. CASE FlushBegins
    BY <1>0, <1>8, SymbolFlush
  <1>9. CASE ListBegins
    <2>1. worker'.at = worker.at
      BY <1>0, <1>9 DEF ListBegins, TypeOK
    <2>2. QED
      BY <1>0, <1>9, <2>1, NothingNew DEF ListBegins
  <1>10. CASE ListGathered
    <2>1. batch'.address = batch.address /\ batch'.last = batch.last
      BY <1>0, <1>10 DEF ListGathered, TypeOK, Tables
    <2>2. QED
      BY <1>0, <1>10, <2>1, NothingNew DEF ListGathered
  <1>11. CASE WriteBegins
    BY <1>0, <1>11, NothingNew DEF WriteBegins, InUse
  <1>12. CASE WriteLands
    BY <1>0, <1>12, SymbolLands
  <1>13. CASE WriteEnds
    BY <1>0, <1>13, NothingNew DEF WriteEnds, Resting, InUse, NoSymbols
  <1>14. CASE Crash
    BY <1>0, <1>14, SymbolCrash
  <1>15. QED
    BY <1>1, <1>2, <1>3, <1>4, <1>5, <1>6, <1>7, <1>8, <1>9, <1>10, <1>11, <1>12, <1>13, <1>14
       DEF Next

\* SymbolInv says it address by address instead of table by table.
LEMMA InvariantSeparates == SymbolInv => SymbolsDistinct
  <1> SUFFICES ASSUME SymbolInv PROVE SymbolsDistinct
    OBVIOUS
  <1> DEFINE tables == {seen, ops, batch.address, disk.address}
  <1>1. \A table \in tables : table \in [Addresses -> Nat]
    BY DEF SymbolInv, TypeOK, Tables
  <1>2. \A table \in tables : \A a \in Addresses : table[a] # None => Holds(a, table[a])
    BY DEF Holds
  <1>3. \A table, other \in tables : Distinct(table, other)
    BY <1>1, <1>2 DEF SymbolInv, Unique, Distinct
  <1>4. \A table \in tables : Below(table, last)
    <2>1. last \in Nat
      BY DEF SymbolInv, TypeOK
    <2> SUFFICES ASSUME NEW table \in tables, NEW a \in Addresses PROVE table[a] <= last
      BY DEF Below
    <2>2. table[a] \in Nat
      BY <1>1
    <2>3. CASE table[a] = None
      BY <2>1, <2>3 DEF None
    <2>4. CASE table[a] # None
      <3>1. Holds(a, table[a])
        BY <1>2, <2>4
      <3>2. QED
        BY <2>2, <3>1 DEF SymbolInv, Counted
    <2>5. QED
      BY <2>3, <2>4
  <1>5. Below(disk.address, disk.last)
    BY DEF SymbolInv, Counted, Below
  <1>6. QED
    BY <1>3, <1>4, <1>5 DEF SymbolsDistinct

\* No two addresses ever share a symbol, and none has one that would be given out again.
THEOREM SymbolsStayDistinct == Spec => []SymbolsDistinct
  BY SymbolInit, SymbolStep, InvariantSeparates, PTL DEF Spec

------------------------------------------------------------------------------
(* Symbols are kept *)

LEMMA KeptInit == Init => KeptInv
  BY DEF Init, KeptInv, Working, FirstSymbol, FirstCall, NamedKnown, Known, NoSymbols, NoCall,
         Resting, NothingAdded, EmptyTables, None, Callers

LEMMA WorkerCalls == Worker \in Callers /\ Worker \notin Clients
                     /\ \A c \in Callers : c = Worker \/ c \in Clients
  BY AddressSymbolsAssumption DEF AddressSymbolsAssumption, Callers

\* Only one look-up changes, and to what.
LEMMA OneCall ==
    ASSUME TypeOK, NEW c \in Callers, NEW call, calls' = [calls EXCEPT ![c] = call]
    PROVE  calls'[c] = call /\ \A d \in Callers : d # c => calls'[d] = calls[d]
  BY DEF TypeOK

LEMMA CallIs ==
    ASSUME NEW a
    PROVE  /\ Call(a).address = a
           /\ \/ Call(a).stage = "known" /\ seen[a] # None
              \/ Call(a).stage = "reading" /\ seen[a] = None
  BY DEF Call

\* A step of a look-up keeps Working, if a look-up in progress stays in progress.
LEMMA WorkingLookUp ==
    ASSUME TypeOK, Working, worker' = worker, NEW c \in Callers,
           \A d \in Callers : d # c => calls'[d] = calls[d],
           c = Worker => /\ calls[c].stage # "none" /\ calls'[c].stage # "none"
                         /\ calls'[c].address = calls[c].address
    PROVE  Working'
  BY WorkerCalls DEF Working

LEMMA KeptRead ==
    ASSUME TypeOK, KeptInv, NEW c \in Callers, ReadSymbol(c)
    PROVE  KeptInv'
  <1> DEFINE named == calls[c].address
  <1>1. /\ calls[c] \in LookUps /\ calls[c].stage = "reading"
        /\ calls' = [calls EXCEPT ![c] = [calls[c] EXCEPT !.stage = "read",
                                                          !.symbol = disk.address[named]]]
        /\ UNCHANGED <<seen, ops, worker, added, batch, disk, early>>
    BY DEF ReadSymbol, TypeOK
  <1>2. /\ calls'[c].stage = "read" /\ calls'[c].address = named
        /\ calls'[c].symbol = disk.address[named]
        /\ \A d \in Callers : d # c => calls'[d] = calls[d]
    BY <1>1 DEF TypeOK, LookUps
  <1>3. Working'
    BY <1>1, <1>2, WorkingLookUp DEF KeptInv
  <1> SUFFICES ASSUME NEW a \in Addresses \ early
               PROVE  FirstSymbol(a)' /\ FirstCall(a)' /\ NamedKnown(a)'
    BY <1>1, <1>3 DEF KeptInv
  <1>4. FirstSymbol(a)' /\ NamedKnown(a)'
    BY <1>1 DEF KeptInv, FirstSymbol, NamedKnown, Known
  <1>5. FirstCall(a)'
    BY <1>1, <1>2, WorkerCalls DEF KeptInv, FirstCall, Known
  <1>6. QED
    BY <1>4, <1>5

LEMMA KeptFind ==
    ASSUME TypeOK, KeptInv, NEW c \in Callers, FindSymbol(c)
    PROVE  KeptInv'
  <1>1. /\ calls[c] \in LookUps /\ calls[c].stage = "read" /\ calls[c].symbol # None
        /\ calls' = [calls EXCEPT ![c] = [calls[c] EXCEPT !.stage = "known"]]
        /\ UNCHANGED <<seen, ops, worker, added, batch, disk, early>>
    BY DEF FindSymbol, TypeOK
  <1>2. /\ calls'[c].stage = "known" /\ calls'[c].address = calls[c].address
        /\ \A d \in Callers : d # c => calls'[d] = calls[d]
    BY <1>1 DEF TypeOK, LookUps
  <1>3. Working'
    BY <1>1, <1>2, WorkingLookUp DEF KeptInv
  <1> SUFFICES ASSUME NEW a \in Addresses \ early
               PROVE  FirstSymbol(a)' /\ FirstCall(a)' /\ NamedKnown(a)'
    BY <1>1, <1>3 DEF KeptInv
  <1>4. FirstSymbol(a)' /\ NamedKnown(a)'
    BY <1>1 DEF KeptInv, FirstSymbol, NamedKnown, Known
  <1>5. FirstCall(a)'
    BY <1>1, <1>2, WorkerCalls DEF KeptInv, FirstCall, Known
  <1>6. QED
    BY <1>4, <1>5

\* A client names only addresses it asked for too early, the worker only those that have no
\* symbol anywhere.
LEMMA KeptNew ==
    ASSUME TypeOK, KeptInv, NEW c \in Callers, NewSymbol(c)
    PROVE  KeptInv'
  <1> DEFINE named == calls[c].address
  <1>1. /\ calls[c] \in LookUps /\ calls[c].stage = "read" /\ calls[c].symbol = None
        /\ named \in Addresses
        /\ seen' = [seen EXCEPT ![named] = last + 1]
        /\ ops' = [ops EXCEPT ![named] = last + 1]
        /\ calls' = [calls EXCEPT ![c] = [calls[c] EXCEPT !.stage = "known",
                                                          !.symbol = last + 1]]
        /\ UNCHANGED <<worker, added, batch, disk, early>>
    BY DEF NewSymbol, TypeOK, LookUps
  <1>2. /\ calls'[c].stage = "known" /\ calls'[c].address = named
        /\ \A d \in Callers : d # c => calls'[d] = calls[d]
    BY <1>1 DEF TypeOK, LookUps
  <1>3. /\ seen'[named] = last + 1 /\ ops'[named] = last + 1 /\ last + 1 # None
        /\ \A a \in Addresses : a # named => seen'[a] = seen[a] /\ ops'[a] = ops[a]
    BY <1>1 DEF TypeOK, None
  <1>4. Working'
    BY <1>1, <1>2, WorkingLookUp DEF KeptInv
  <1> SUFFICES ASSUME NEW a \in Addresses \ early
               PROVE  FirstSymbol(a)' /\ FirstCall(a)' /\ NamedKnown(a)'
    BY <1>1, <1>4 DEF KeptInv
  <1>5. FirstSymbol(a) /\ FirstCall(a) /\ NamedKnown(a) /\ Working
    BY DEF KeptInv
  <1>6. CASE a # named
    <2>1. FirstSymbol(a)' /\ NamedKnown(a)'
      BY <1>1, <1>3, <1>5, <1>6 DEF FirstSymbol, NamedKnown, Known
    <2>2. FirstCall(a)'
      BY <1>1, <1>2, <1>3, <1>5, <1>6, WorkerCalls DEF FirstCall, Known
    <2>3. QED
      BY <2>1, <2>2
  <1>7. CASE a = named
    <2>1. c = Worker
      BY <1>1, <1>5, <1>7, WorkerCalls DEF FirstCall
    <2>2. seen[a] = None /\ disk.address[a] = None /\ worker.at = "naming"
      BY <1>1, <1>5, <1>7, <2>1, WorkerCalls DEF FirstCall, Working
    <2>3. FirstSymbol(a)'
      BY <1>1, <1>3, <1>5, <1>7, <2>2 DEF FirstSymbol, InUse
    <2>4. NamedKnown(a)'
      BY <1>1, <1>3, <1>5, <1>7 DEF NamedKnown, Known
    <2>5. FirstCall(a)'
      BY <1>1, <1>2, <1>3, <1>5, <1>7, <2>1, WorkerCalls DEF FirstCall, Known
    <2>6. QED
      BY <2>3, <2>4, <2>5
  <1>8. QED
    BY <1>6, <1>7

\* A client that asks for an address without a symbol makes it an early one.
LEMMA KeptClients ==
    ASSUME TypeOK, KeptInv, NEW c \in Clients, ClientAsks(c) \/ ClientServed(c)
    PROVE  KeptInv'
  <1>0. c \in Callers /\ c # Worker
    BY WorkerCalls DEF Callers
  <1>1. CASE ClientAsks(c)
    <2>1. PICK asked \in Addresses :
              /\ calls' = [calls EXCEPT ![c] = Call(asked)]
              /\ early' = IF seen[asked] = None /\ disk.address[asked] = None
                          THEN early \cup {asked} ELSE early
      BY <1>1 DEF ClientAsks
    <2>2. UNCHANGED <<seen, ops, worker, added, batch, disk>>
      BY <1>1 DEF ClientAsks
    <2>3. /\ calls'[c] = Call(asked)
          /\ \A d \in Callers : d # c => calls'[d] = calls[d]
      BY <1>0, <2>1, OneCall
    <2>4. Working'
      BY <1>0, <2>2, <2>3, WorkingLookUp DEF KeptInv
    <2> SUFFICES ASSUME NEW a \in Addresses \ early'
                 PROVE  FirstSymbol(a)' /\ FirstCall(a)' /\ NamedKnown(a)'
      BY <2>4 DEF KeptInv
    <2>5. a \in Addresses \ early /\ (a = asked => Known(a))
      BY <2>1 DEF Known
    <2>6. FirstSymbol(a)' /\ NamedKnown(a)'
      BY <2>2, <2>5 DEF KeptInv, FirstSymbol, NamedKnown, Known
    <2>7. FirstCall(a)'
      <3>1. FirstCall(a)
        BY <2>5 DEF KeptInv
      <3>2. calls'[c].address = asked /\ calls'[c].stage \in {"known", "reading"}
            /\ (calls'[c].stage = "reading" => seen[asked] = None)
        BY <2>3, CallIs
      <3>3. a = asked /\ calls'[c].stage = "reading" => disk.address[a] # None
        BY <2>5, <3>2 DEF Known
      <3>4. \A d \in Callers : (/\ calls'[d].address = a /\ calls'[d].stage = "read"
                                /\ calls'[d].symbol # None) => disk.address[a] # None
        BY <2>3, <3>1, <3>2 DEF FirstCall
      <3>5. \A d \in Clients : calls'[d].address = a =>
                /\ calls'[d].stage = "reading" => disk.address[a] # None
                /\ calls'[d].stage = "read" => calls'[d].symbol # None
        BY <2>3, <3>1, <3>2, <3>3 DEF FirstCall, Callers
      <3>6. calls'[Worker] = calls[Worker]
        BY <1>0, <2>3, WorkerCalls
      <3>7. QED
        BY <2>2, <3>1, <3>4, <3>5, <3>6 DEF FirstCall, Known
    <2>8. QED
      BY <2>6, <2>7
  <1>2. CASE ClientServed(c)
    <2>1. calls' = [calls EXCEPT ![c] = NoCall]
          /\ UNCHANGED <<seen, ops, worker, added, batch, disk, early>>
      BY <1>2 DEF ClientServed
    <2>2. /\ calls'[c] = NoCall
          /\ \A d \in Callers : d # c => calls'[d] = calls[d]
      BY <1>0, <2>1, OneCall
    <2>3. Working'
      BY <1>0, <2>1, <2>2, WorkingLookUp DEF KeptInv
    <2> SUFFICES ASSUME NEW a \in Addresses \ early
                 PROVE  FirstSymbol(a)' /\ FirstCall(a)' /\ NamedKnown(a)'
      BY <2>1, <2>3 DEF KeptInv
    <2>4. FirstSymbol(a)' /\ NamedKnown(a)'
      BY <2>1 DEF KeptInv, FirstSymbol, NamedKnown, Known
    <2>5. FirstCall(a)'
      BY <1>0, <2>1, <2>2, WorkerCalls DEF KeptInv, FirstCall, Known, NoCall
    <2>6. QED
      BY <2>4, <2>5
  <1>3. QED
    BY <1>1, <1>2

\* What the worker has named is known; what it names next, it looks up.
LEMMA KeptNaming ==
    ASSUME TypeOK, KeptInv, WorkerTakes \/ WorkerNames \/ WorkerRecords
    PROVE  KeptInv'
  <1>1. CASE WorkerTakes
    <2>1. PICK payees \in Payees :
              /\ worker' = [Resting EXCEPT !.at = "naming", !.payees = payees]
              /\ calls' = [calls EXCEPT ![Worker] = Call(Head(payees))]
      BY <1>1 DEF WorkerTakes
    <2>2. payees \in Seq(Addresses) /\ payees # <<>>
      BY AddressSymbolsAssumption DEF AddressSymbolsAssumption
    <2>3. worker' = [at |-> "naming", payees |-> payees, named |-> <<>>, lists |-> {}]
      BY <2>1 DEF Resting
    <2>4. UNCHANGED <<seen, ops, added, batch, disk, early>> /\ worker.at = "idle"
      BY <1>1 DEF WorkerTakes, Resting
    <2>5. /\ calls'[Worker] = Call(Head(payees))
          /\ \A d \in Callers : d # Worker => calls'[d] = calls[d]
      BY <2>1, OneCall, WorkerCalls
    <2>6. Head(payees) = payees[1] /\ 1 \in DOMAIN payees /\ Len(worker'.named) = 0
      BY <2>2, <2>3
    <2>7. Working'
      BY <2>3, <2>5, <2>6 DEF Working, Call
    <2> SUFFICES ASSUME NEW a \in Addresses \ early
                 PROVE  FirstSymbol(a)' /\ FirstCall(a)' /\ NamedKnown(a)'
      BY <2>4, <2>7 DEF KeptInv
    <2>8. FirstSymbol(a) /\ FirstCall(a) /\ NamedKnown(a)
      BY DEF KeptInv
    <2>9. FirstSymbol(a)'
      BY <2>3, <2>4, <2>8 DEF FirstSymbol, InUse
    <2>10. NamedKnown(a)'
      BY <2>2, <2>3, <2>4, <2>6, <2>8 DEF NamedKnown, Known
    <2>11. FirstCall(a)'
      <3>1. \/ calls'[Worker].stage = "known" /\ seen[calls'[Worker].address] # None
            \/ calls'[Worker].stage = "reading" /\ seen[calls'[Worker].address] = None
        BY <2>5, CallIs
      <3>2. worker'.at = "naming"
        BY <2>3
      <3>3. QED
        <4>1. \A c \in Clients : c \in Callers /\ c # Worker /\ calls'[c] = calls[c]
          BY <2>5, WorkerCalls DEF Callers
        <4>2. \A c \in Callers : (/\ calls'[c].address = a /\ calls'[c].stage = "read"
                                  /\ calls'[c].symbol # None) => disk.address[a] # None
          BY <2>8, <3>1, <4>1, WorkerCalls DEF FirstCall
        <4>3. calls'[Worker].stage = "known" => seen[calls'[Worker].address] # None
          BY <3>1
        <4>4. calls'[Worker].stage # "read"
              /\ (calls'[Worker].stage = "reading" => seen[calls'[Worker].address] = None)
          BY <3>1
        <4>5. QED
          BY <2>4, <2>8, <3>2, <4>1, <4>2, <4>3, <4>4 DEF FirstCall, Known
    <2>12. QED
      BY <2>9, <2>10, <2>11
  <1>2. CASE WorkerNames
    <2> DEFINE n == Len(worker.named)
               next == worker.payees[n + 2]
    <2>1. /\ worker.at = "naming" /\ calls[Worker].stage = "known"
          /\ n + 1 < Len(worker.payees)
          /\ worker' = [worker EXCEPT !.named = Append(@, calls[Worker].symbol)]
          /\ calls' = [calls EXCEPT ![Worker] = Call(next)]
          /\ UNCHANGED <<seen, ops, added, batch, disk, early>>
      BY <1>2 DEF WorkerNames, WorkerKnows
    <2>2. worker.named \in Seq(Nat) /\ calls[Worker].symbol \in Nat
          /\ worker.payees \in Seq(Addresses)
      BY WorkerCalls DEF TypeOK, LookUps
    <2>3. /\ worker'.at = "naming" /\ worker'.payees = worker.payees
          /\ worker'.lists = worker.lists
          /\ worker'.named = Append(worker.named, calls[Worker].symbol)
      BY <2>1 DEF TypeOK
    <2>4. Len(worker'.named) = n + 1 /\ n \in Nat
      BY <2>2, <2>3
    <2>5. /\ calls'[Worker] = Call(next)
          /\ \A d \in Callers : d # Worker => calls'[d] = calls[d]
      BY <2>1, OneCall, WorkerCalls
    <2>6. n + 2 \in DOMAIN worker.payees
      BY <2>1, <2>2, <2>4
    <2>7. Working'
      BY <2>3, <2>4, <2>5, <2>6 DEF Working, Call
    <2> SUFFICES ASSUME NEW a \in Addresses \ early
                 PROVE  FirstSymbol(a)' /\ FirstCall(a)' /\ NamedKnown(a)'
      BY <2>1, <2>7 DEF KeptInv
    <2>8. FirstSymbol(a) /\ FirstCall(a) /\ NamedKnown(a) /\ Working
      BY DEF KeptInv
    <2>9. FirstSymbol(a)'
      BY <2>1, <2>3, <2>8 DEF FirstSymbol
    <2>10. worker.payees[n + 1] = a => Known(a)
      BY <2>1, <2>8 DEF FirstCall, Working
    <2>11. \A i \in DOMAIN worker.payees : i <= n + 1 => i <= n \/ i = n + 1
      BY <2>2, <2>4
    <2>12. NamedKnown(a)'
      BY <2>1, <2>3, <2>4, <2>8, <2>10, <2>11 DEF NamedKnown, Known
    <2>13. FirstCall(a)'
      <3>1. \/ calls'[Worker].stage = "known" /\ seen[calls'[Worker].address] # None
            \/ calls'[Worker].stage = "reading" /\ seen[calls'[Worker].address] = None
        BY <2>5, CallIs
      <3>2. QED
        BY <2>1, <2>3, <2>5, <2>8, <3>1, WorkerCalls, SMTT(30) DEF FirstCall, Known
    <2>14. QED
      BY <2>9, <2>12, <2>13
  <1>3. CASE WorkerRecords
    <2> DEFINE n == Len(worker.named)
               paid(a) == {i \in DOMAIN worker.payees : worker.payees[i] = a}
    <2>1. /\ worker.at = "naming" /\ calls[Worker].stage = "known"
          /\ n + 1 = Len(worker.payees)
          /\ worker' = Resting
          /\ calls' = [calls EXCEPT ![Worker] = NoCall]
          /\ added' = [a \in Addresses |-> added[a] \cup {OutOf(i) : i \in paid(a)}]
          /\ UNCHANGED <<seen, ops, batch, disk, early>>
      BY <1>3 DEF WorkerRecords, WorkerKnows
    <2>2. worker.named \in Seq(Nat) /\ worker.payees \in Seq(Addresses)
      BY DEF TypeOK
    <2>3. /\ calls'[Worker] = NoCall
          /\ \A d \in Callers : d # Worker => calls'[d] = calls[d]
      BY <2>1, OneCall, WorkerCalls
    <2>4. Working'
      BY <2>1, <2>3 DEF Working, Resting, NoCall
    <2> SUFFICES ASSUME NEW a \in Addresses \ early
                 PROVE  FirstSymbol(a)' /\ FirstCall(a)' /\ NamedKnown(a)'
      BY <2>1, <2>4 DEF KeptInv
    <2>5. FirstSymbol(a) /\ FirstCall(a) /\ NamedKnown(a) /\ Working
      BY DEF KeptInv
    <2>6. FirstSymbol(a)'
      BY <2>1, <2>5 DEF FirstSymbol, Resting, InUse
    <2>7. worker.payees[n + 1] = a => Known(a)
      BY <2>1, <2>5 DEF FirstCall, Working
    <2>8. \A i \in DOMAIN worker.payees : i <= n \/ i = n + 1
      BY <2>1, <2>2
    <2>9. paid(a) # {} => Known(a)
      BY <2>1, <2>5, <2>7, <2>8 DEF NamedKnown
    <2>10. added'[a] # {} => Known(a)
      BY <2>1, <2>5, <2>9 DEF NamedKnown
    <2>11. NamedKnown(a)'
      BY <2>1, <2>10 DEF NamedKnown, Known, Resting
    <2>12. FirstCall(a)'
      BY <2>1, <2>3, <2>5, WorkerCalls DEF FirstCall, Known, NoCall
    <2>13. QED
      BY <2>6, <2>11, <2>12
  <1>4. QED
    BY <1>1, <1>2, <1>3

LEMMA KeptFlush ==
    ASSUME TypeOK, KeptInv,
           FlushBegins \/ ListBegins \/ ListGathered \/ WriteBegins \/ WriteLands \/ WriteEnds
    PROVE  KeptInv'
  <1>0. SUFFICES /\ Working'
                 /\ early' = early
                 /\ \A a \in Addresses \ early :
                       FirstSymbol(a)' /\ FirstCall(a)' /\ NamedKnown(a)'
    BY DEF KeptInv
  <1>1. CASE FlushBegins
    <2>1. /\ worker = Resting /\ calls' = calls /\ early' = early
          /\ worker' = [at |-> "gathering", payees |-> <<>>, named |-> <<>>,
                        lists |-> {a \in Addresses : added[a] # {}}]
          /\ batch'.address = ops /\ ops' = NoSymbols
          /\ UNCHANGED <<seen, added, disk>>
      BY <1>1 DEF FlushBegins, Resting
    <2>2. calls[Worker].stage = "none"
      BY <2>1 DEF KeptInv, Working, Resting
    <2>3. Working'
      BY <2>1, <2>2 DEF Working
    <2>4. ASSUME NEW a \in Addresses \ early
          PROVE  FirstSymbol(a)' /\ FirstCall(a)' /\ NamedKnown(a)'
      <3>1. FirstSymbol(a) /\ FirstCall(a) /\ NamedKnown(a)
        BY DEF KeptInv
      <3>2. FirstSymbol(a)'
        BY <2>1, <3>1 DEF FirstSymbol, InUse, NoSymbols
      <3>3. FirstCall(a)'
        BY <2>1, <2>2, <3>1 DEF FirstCall, Known
      <3>4. NamedKnown(a)'
        BY <2>1, <3>1 DEF NamedKnown, Known
      <3>5. QED
        BY <3>2, <3>3, <3>4
    <2>5. QED
      BY <2>1, <2>3, <2>4
  <1>2. CASE ListBegins
    <2>1. PICK list \in worker.lists :
              /\ worker' = [worker EXCEPT !.lists = @ \ {list}]
              /\ calls' = [calls EXCEPT ![Worker] = Call(list)]
      BY <1>2 DEF ListBegins
    <2>2. /\ worker'.at = "gathering" /\ worker.at = "gathering"
          /\ worker'.lists = worker.lists \ {list} /\ worker'.payees = worker.payees
          /\ UNCHANGED <<seen, ops, added, batch, disk, early>>
      BY <1>2, <2>1 DEF ListBegins, TypeOK
    <2>3. /\ calls'[Worker] = Call(list)
          /\ \A d \in Callers : d # Worker => calls'[d] = calls[d]
      BY <2>1, OneCall, WorkerCalls
    <2>4. calls'[Worker].address = list
          /\ \/ calls'[Worker].stage = "known" /\ seen[list] # None
             \/ calls'[Worker].stage = "reading" /\ seen[list] = None
      BY <2>3, CallIs
    <2>5. Working'
      BY <2>2 DEF Working
    <2>6. ASSUME NEW a \in Addresses \ early
          PROVE  FirstSymbol(a)' /\ FirstCall(a)' /\ NamedKnown(a)'
      <3>1. FirstSymbol(a) /\ FirstCall(a) /\ NamedKnown(a)
        BY DEF KeptInv
      <3>2. FirstSymbol(a)'
        BY <2>2, <3>1 DEF FirstSymbol
      <3>3. a = list => Known(a)
        BY <2>1, <3>1 DEF NamedKnown
      <3>4. FirstCall(a)'
        <4>1. \A c \in Clients : c \in Callers /\ c # Worker /\ calls'[c] = calls[c]
          BY <2>3, WorkerCalls DEF Callers
        <4>2. calls'[Worker].stage # "read"
          BY <2>4
        <4>3. \A c \in Callers : (/\ calls'[c].address = a /\ calls'[c].stage = "read"
                                  /\ calls'[c].symbol # None) => disk.address[a] # None
          BY <3>1, <4>1, <4>2, WorkerCalls DEF FirstCall
        <4>4. calls'[Worker].address = a =>
                 /\ calls'[Worker].stage = "known" => Known(a)
                 /\ calls'[Worker].stage = "reading" => seen[a] = None /\ disk.address[a] # None
          BY <2>4, <3>3 DEF Known
        <4>5. QED
          BY <2>2, <3>1, <4>1, <4>2, <4>3, <4>4 DEF FirstCall, Known
      <3>5. NamedKnown(a)'
        BY <2>2, <3>1 DEF NamedKnown, Known
      <3>6. QED
        BY <3>2, <3>4, <3>5
    <2>7. QED
      BY <2>2, <2>5, <2>6
  <1>3. CASE ListGathered
    <2>1. /\ worker.at = "gathering" /\ calls' = [calls EXCEPT ![Worker] = NoCall]
          /\ batch'.address = batch.address
          /\ UNCHANGED <<seen, ops, worker, added, disk, early>>
      BY <1>3 DEF ListGathered, TypeOK, Tables
    <2>2. /\ calls'[Worker] = NoCall
          /\ \A d \in Callers : d # Worker => calls'[d] = calls[d]
      BY <2>1, OneCall, WorkerCalls
    <2>3. Working'
      BY <2>1, <2>2 DEF Working, NoCall
    <2>4. ASSUME NEW a \in Addresses \ early
          PROVE  FirstSymbol(a)' /\ FirstCall(a)' /\ NamedKnown(a)'
      BY <2>1, <2>2, WorkerCalls
         DEF KeptInv, FirstSymbol, FirstCall, NamedKnown, Known, NoCall
    <2>5. QED
      BY <2>1, <2>3, <2>4
  <1>4. CASE WriteBegins
    <2>1. /\ worker.at = "gathering" /\ worker.lists = {} /\ calls[Worker] = NoCall
          /\ worker'.at = "writing" /\ worker'.lists = {}
          /\ worker'.payees = worker.payees /\ worker'.named = worker.named
          /\ UNCHANGED <<calls, seen, ops, added, batch, disk, early>>
      BY <1>4 DEF WriteBegins, TypeOK
    <2>2. Working'
      BY <2>1 DEF Working, NoCall
    <2>3. ASSUME NEW a \in Addresses \ early
          PROVE  FirstSymbol(a)' /\ FirstCall(a)' /\ NamedKnown(a)'
      BY <2>1 DEF KeptInv, FirstSymbol, FirstCall, NamedKnown, Known, NoCall, InUse
    <2>4. QED
      BY <2>1, <2>2, <2>3
  <1>5. CASE WriteLands
    <2>1. /\ worker.at = "writing" /\ worker'.at = "written"
          /\ worker'.lists = worker.lists
          /\ disk'.address = [a \in Addresses |-> IF batch.address[a] # None
                                                  THEN batch.address[a] ELSE disk.address[a]]
          /\ batch'.address = NoSymbols
          /\ UNCHANGED <<calls, seen, ops, added, early>>
      BY <1>5 DEF WriteLands, TypeOK, EmptyTables
    <2>2. Working' /\ calls[Worker].stage = "none"
      BY <2>1 DEF KeptInv, Working
    <2>3. ASSUME NEW a \in Addresses \ early
          PROVE  FirstSymbol(a)' /\ FirstCall(a)' /\ NamedKnown(a)'
      <3>1. FirstSymbol(a) /\ FirstCall(a) /\ NamedKnown(a)
        BY DEF KeptInv
      <3>2. /\ disk.address[a] # None => disk'.address[a] = disk.address[a]
            /\ batch'.address[a] = None
        BY <2>1, <3>1 DEF FirstSymbol, NoSymbols
      <3>3. FirstSymbol(a)'
        BY <2>1, <3>1, <3>2 DEF FirstSymbol, InUse
      <3>4. FirstCall(a)'
        BY <2>1, <2>2, <3>1, <3>2 DEF FirstCall, Known
      <3>5. NamedKnown(a)'
        BY <2>1, <3>1, <3>2 DEF NamedKnown, Known
      <3>6. QED
        BY <3>3, <3>4, <3>5
    <2>4. QED
      BY <2>1, <2>2, <2>3
  <1>6. CASE WriteEnds
    <2>1. /\ worker.at = "written" /\ worker' = Resting
          /\ seen' = NoSymbols /\ added' = NothingAdded
          /\ UNCHANGED <<calls, ops, batch, disk, early>>
      BY <1>6 DEF WriteEnds
    <2>2. Working' /\ calls[Worker].stage = "none"
      BY <2>1 DEF KeptInv, Working, Resting
    <2>3. ASSUME NEW a \in Addresses \ early
          PROVE  FirstSymbol(a)' /\ FirstCall(a)' /\ NamedKnown(a)'
      <3>1. FirstSymbol(a) /\ FirstCall(a) /\ NamedKnown(a)
        BY DEF KeptInv
      <3>2. ops[a] = None /\ batch.address[a] = None
        BY <2>1, <3>1 DEF FirstSymbol, InUse
      <3>3. FirstSymbol(a)'
        BY <2>1, <3>2 DEF FirstSymbol
      <3>4. FirstCall(a)'
        BY <2>1, <2>2, <3>1 DEF FirstCall
      <3>5. NamedKnown(a)'
        BY <2>1 DEF NamedKnown, NothingAdded, Resting
      <3>6. QED
        BY <3>3, <3>4, <3>5
    <2>4. QED
      BY <2>1, <2>2, <2>3
  <1>7. QED
    BY <1>1, <1>2, <1>3, <1>4, <1>5, <1>6

LEMMA KeptCrash ==
    ASSUME TypeOK, KeptInv, Crash
    PROVE  KeptInv'
  <1>1. /\ seen' = NoSymbols /\ ops' = NoSymbols /\ batch' = EmptyTables
        /\ worker' = Resting /\ added' = NothingAdded
        /\ UNCHANGED <<disk, early>>
        /\ \A c \in Callers : calls'[c] = NoCall
    BY DEF Crash
  <1>2. Working'
    BY <1>1, WorkerCalls DEF Working, Resting, NoCall
  <1>3. ASSUME NEW a \in Addresses \ early
        PROVE  FirstSymbol(a)' /\ FirstCall(a)' /\ NamedKnown(a)'
    <2>1. \A c \in Callers : calls'[c].stage = "none"
      BY <1>1 DEF NoCall
    <2>2. FirstSymbol(a)'
      BY <1>1 DEF FirstSymbol, NoSymbols, EmptyTables
    <2>3. FirstCall(a)'
      BY <2>1, WorkerCalls DEF FirstCall, Callers
    <2>4. NamedKnown(a)'
      BY <1>1 DEF NamedKnown, NothingAdded, Resting
    <2>5. QED
      BY <2>2, <2>3, <2>4
  <1>4. QED
    BY <1>1, <1>2, <1>3 DEF KeptInv

LEMMA KeptStep == TypeOK /\ KeptInv /\ [Next]_vars => KeptInv'
  <1> SUFFICES ASSUME TypeOK, KeptInv, [Next]_vars PROVE KeptInv'
    OBVIOUS
  <1>1. CASE UNCHANGED vars
    BY <1>1 DEF vars, KeptInv, Working, FirstSymbol, FirstCall, NamedKnown, Known
  <1>2. CASE Next
    BY <1>2, KeptRead, KeptFind, KeptNew, KeptClients, KeptNaming, KeptFlush, KeptCrash DEF Next
  <1>3. QED
    BY <1>1, <1>2

\* The only step that changes symbols on disk brings first ones.
LEMMA DiskKeeps ==
    ASSUME TypeOK, KeptInv, [Next]_vars,
           NEW a \in Addresses \ early', disk.address[a] # None
    PROVE  disk'.address[a] = disk.address[a]
  <1>1. a \in Addresses \ early
    BY DEF Next, vars, ReadSymbol, FindSymbol, NewSymbol, ClientAsks, ClientServed, WorkerTakes,
           WorkerNames, WorkerRecords, FlushBegins, ListBegins, ListGathered, WriteBegins,
           WriteLands, WriteEnds, Crash
  <1>2. CASE WriteLands
    <2>1. batch.address[a] = None
      BY <1>1 DEF KeptInv, FirstSymbol
    <2>2. QED
      BY <1>2, <2>1 DEF WriteLands
  <1>3. CASE ~WriteLands
    <2>1. disk' = disk
      BY <1>3 DEF Next, vars, ReadSymbol, FindSymbol, NewSymbol, ClientAsks, ClientServed,
                  WorkerTakes, WorkerNames, WorkerRecords, FlushBegins, ListBegins, ListGathered,
                  WriteBegins, WriteEnds, Crash
    <2>2. QED
      BY <2>1
  <1>4. QED
    BY <1>2, <1>3

\* An address the indexer knew before any client asked keeps its symbol for ever.
THEOREM SymbolsStay == Spec => SymbolKept
  <1>1. TypeOK /\ KeptInv /\ [Next]_vars =>
            [\A a \in Addresses \ early' :
                disk.address[a] # None => disk'.address[a] = disk.address[a]]_vars
    BY DiskKeeps
  <1>2. QED
    BY <1>1, TypeInit, TypeStep, KeptInit, KeptStep, PTL DEF Spec, SymbolKept

------------------------------------------------------------------------------
(* The outputs recorded on disk and the lists of outputs by address say the same. The *)
(* invariants above say whose a symbol is; here they are followed into the records and *)
(* the lists written under it. *)

\* No crash can have dropped the name of an address a client asked for too early.
Sound == early = {} \/ budget.crashes = Crashes

\* Address a has symbol s somewhere, a look-up found s for it, or a list of a is under s.
Uses(a, s) ==
    \/ Holds(a, s)
    \/ /\ s # None
       /\ \/ \E c \in Callers : /\ calls[c].stage \in {"read", "known"}
                                /\ calls[c].address = a /\ calls[c].symbol = s
          \/ \E l \in disk.lists \cup batch.lists : l.address = a /\ l.symbol = s

Owned ==
    /\ \A a, b \in Addresses : \A s \in Nat : Uses(a, s) /\ Uses(b, s) => a = b
    /\ \A a \in Addresses : \A s \in Nat : Uses(a, s) => s <= last

\* The symbol the indexer has for address a.
Symbol(a) == IF seen[a] # None THEN seen[a] ELSE disk.address[a]

\* What memory, the worker and the records say of the symbol of address a.
Named(a) ==
    /\ seen[a] # None => seen[a] \in {ops[a], batch.address[a], disk.address[a]}
    /\ calls[Worker].address = a =>
          /\ calls[Worker].stage = "read" /\ calls[Worker].symbol # None
                => calls[Worker].symbol = disk.address[a]
          /\ calls[Worker].stage = "known" => calls[Worker].symbol = Symbol(a)
    /\ \A i \in DOMAIN worker.payees :
          worker.at = "naming" /\ i <= Len(worker.named) /\ worker.payees[i] = a
              => worker.named[i] = Symbol(a)
    /\ \A u \in waiting \cup batch.utxos : u.to = a => u.symbol = Symbol(a)
    /\ \A u \in disk.utxos : u.to = a => u.symbol = disk.address[a] /\ disk.address[a] # None

\* The outputs that pay a.
PaidIn(utxos, a) == {u.out : u \in {v \in utxos : v.to = a}}

\* The outputs added for a are the recorded ones that wait or are being written.
Added(a) ==
    /\ worker.at \in {"idle", "naming"} => added[a] = PaidIn(waiting, a)
    /\ InUse(worker.at) => added[a] = PaidIn(batch.utxos, a)

\* The lists gathered for a replace those on disk, and none is forgotten.
Gathered(a) ==
    InUse(worker.at) =>
        /\ \A l \in batch.lists : l.address = a =>
              /\ l.symbol = Symbol(a) /\ l.symbol # None
              /\ l.outs = PaidIn(disk.utxos, a) \cup added[a]
        /\ added[a] # {} => \/ a \in worker.lists
                            \/ calls[Worker].stage # "none" /\ calls[Worker].address = a
                            \/ \E l \in batch.lists : l.address = a

\* The lists of a on disk.
Listed(a) ==
    /\ \A l \in disk.lists : l.address = a =>
          /\ l.symbol = disk.address[a] /\ l.symbol # None
          /\ l.outs = PaidIn(disk.utxos, a)
    /\ PaidIn(disk.utxos, a) # {} => \E l \in disk.lists : l.address = a

Recorded(a) == Named(a) /\ Added(a) /\ Gathered(a) /\ Listed(a)

\* Nothing waits while a flush goes on, nothing is gathered while none does.
Phases ==
    /\ InUse(worker.at) \/ worker.at = "written" => waiting = {}
    /\ ~InUse(worker.at) => batch = EmptyTables
    /\ worker.at = "writing" => worker.lists = {}
    /\ budget.crashes <= Crashes

ListInv ==
    /\ Phases
    /\ Sound => Owned /\ \A a \in Addresses \ early : Recorded(a)

------------------------------------------------------------------------------
(* What every step keeps *)

LEMMA ListInit == Init => ListInv
  <1> SUFFICES ASSUME Init PROVE ListInv
    OBVIOUS
  <1>1. Phases
    BY AddressSymbolsAssumption DEF AddressSymbolsAssumption, Init, Phases, Resting, InUse
  <1>2. \A a \in Addresses, s \in Nat : ~Uses(a, s)
    BY DEF Init, Uses, Holds, NoSymbols, EmptyTables, NoCall, None
  <1>3. ASSUME NEW a \in Addresses PROVE Recorded(a)
    BY WorkerCalls
       DEF Init, Recorded, Named, Added, Gathered, Listed, PaidIn, NoSymbols, NoCall, Resting,
           NothingAdded, EmptyTables, None, InUse
  <1>4. QED
    BY <1>1, <1>2, <1>3 DEF ListInv, Owned

LEMMA PhasesStep ==
    ASSUME TypeOK, KeptInv, Phases, [Next]_vars
    PROVE  Phases'
  <1>0. Crashes \in Nat /\ budget.crashes \in Nat
    BY AddressSymbolsAssumption DEF AddressSymbolsAssumption, TypeOK
  <1>1. CASE UNCHANGED vars
    BY <1>1 DEF vars, Phases
  <1>2. ASSUME NEW c \in Callers, ReadSymbol(c) \/ FindSymbol(c) \/ NewSymbol(c) PROVE Phases'
    BY <1>2 DEF Phases, ReadSymbol, FindSymbol, NewSymbol
  <1>3. ASSUME NEW c \in Clients, ClientAsks(c) \/ ClientServed(c) PROVE Phases'
    BY <1>3 DEF Phases, ClientAsks, ClientServed, TypeOK
  <1>4. CASE WorkerTakes
    BY <1>4 DEF Phases, WorkerTakes, Resting, InUse, TypeOK
  <1>5. CASE WorkerNames
    BY <1>5 DEF Phases, WorkerNames, WorkerKnows, InUse, TypeOK
  <1>6. CASE WorkerRecords
    BY <1>6 DEF Phases, WorkerRecords, WorkerKnows, Resting, InUse
  <1>7. CASE FlushBegins
    BY <1>7 DEF Phases, FlushBegins, Resting, InUse
  <1>8. CASE ListBegins \/ ListGathered \/ WriteBegins
    BY <1>8 DEF Phases, ListBegins, ListGathered, WriteBegins, InUse, TypeOK
  <1>9. CASE WriteLands
    BY <1>9 DEF Phases, WriteLands, InUse, TypeOK
  <1>10. CASE WriteEnds
    BY <1>10 DEF Phases, WriteEnds, Resting, InUse
  <1>11. CASE Crash
    BY <1>0, <1>11 DEF Phases, Crash, Resting, InUse, TypeOK
  <1>12. QED
    BY <1>1, <1>2, <1>3, <1>4, <1>5, <1>6, <1>7, <1>8, <1>9, <1>10, <1>11 DEF Next

\* A run once unsound stays so, and a crash leaves a sound one without early addresses.
LEMMA SoundBefore ==
    ASSUME TypeOK, Phases, [Next]_vars, Sound'
    PROVE  Sound /\ early \subseteq early' /\ (Crash => early = {})
  <1>0. Crashes \in Nat /\ budget.crashes \in Nat
    BY AddressSymbolsAssumption DEF AddressSymbolsAssumption, TypeOK
  <1>1. CASE Crash
    <2>1. budget'.crashes = budget.crashes - 1 /\ early' = early
      BY <1>1 DEF Crash, TypeOK
    <2>2. budget'.crashes # Crashes
      BY <1>0, <2>1 DEF Phases
    <2>3. QED
      BY <1>1, <2>1, <2>2 DEF Sound
  <1>2. CASE ~Crash
    <2>1. early \subseteq early' /\ budget'.crashes = budget.crashes
      BY <1>2 DEF Next, vars, ReadSymbol, FindSymbol, NewSymbol, ClientAsks, ClientServed,
                  WorkerTakes, WorkerNames, WorkerRecords, FlushBegins, ListBegins, ListGathered,
                  WriteBegins, WriteLands, WriteEnds, TypeOK
    <2>2. ~Crash
      BY <1>2
    <2>3. QED
      BY <2>1, <2>2 DEF Sound
  <1>3. QED
    BY <1>1, <1>2

LEMMA OwnedStays ==
    ASSUME Owned, last' = last,
           \A a \in Addresses, s \in Nat : Uses(a, s)' => Uses(a, s)
    PROVE  Owned'
  BY DEF Owned

\* One look-up changes, to a symbol that is already the address's.
LEMMA OwnedCall ==
    ASSUME TypeOK, Owned, NEW c \in Callers, NEW call, calls' = [calls EXCEPT ![c] = call],
           call.stage \in {"read", "known"} /\ call.symbol # None
              => Uses(call.address, call.symbol),
           UNCHANGED <<last, seen, ops, disk>>,
           batch'.address = batch.address, batch'.lists = batch.lists
    PROVE  Owned'
  <1>1. calls'[c] = call /\ \A d \in Callers : d # c => calls'[d] = calls[d]
    BY OneCall
  <1>2. \A a \in Addresses, s \in Nat : Uses(a, s)' => Uses(a, s)
    BY <1>1 DEF Uses, Holds
  <1>3. QED
    BY <1>2, OwnedStays

LEMMA OwnedAsked ==
    ASSUME TypeOK, Owned, NEW c \in Callers, NEW a \in Addresses,
           calls' = [calls EXCEPT ![c] = Call(a)],
           UNCHANGED <<last, seen, ops, batch, disk>>
    PROVE  Owned'
  <1>1. Call(a).stage \in {"read", "known"} => Uses(Call(a).address, Call(a).symbol)
    BY DEF Call, Uses, Holds
  <1>2. QED
    BY <1>1, OwnedCall

------------------------------------------------------------------------------
(* Whose a symbol is *)

LEMMA OwnedLookUps ==
    ASSUME SymbolInv, Owned, NEW c \in Callers, ReadSymbol(c) \/ FindSymbol(c)
    PROVE  Owned'
  <1>0. TypeOK /\ calls[c] \in LookUps
    BY DEF SymbolInv, TypeOK
  <1>1. CASE ReadSymbol(c)
    <2> DEFINE call == [calls[c] EXCEPT !.stage = "read",
                                        !.symbol = disk.address[calls[c].address]]
    <2>1. calls' = [calls EXCEPT ![c] = call] /\ UNCHANGED <<last, seen, ops, disk, batch>>
      BY <1>1 DEF ReadSymbol
    <2>2. call.address = calls[c].address /\ call.symbol = disk.address[calls[c].address]
      BY <1>0 DEF LookUps
    <2>3. call.symbol # None => Uses(call.address, call.symbol)
      BY <2>2 DEF Uses, Holds
    <2>4. QED
      BY <1>0, <2>1, <2>3, OwnedCall
  <1>2. CASE FindSymbol(c)
    <2> DEFINE call == [calls[c] EXCEPT !.stage = "known"]
    <2>1. /\ calls' = [calls EXCEPT ![c] = call] /\ UNCHANGED <<last, seen, ops, disk, batch>>
          /\ calls[c].stage = "read" /\ calls[c].symbol # None
      BY <1>2 DEF FindSymbol
    <2>2. call.address = calls[c].address /\ call.symbol = calls[c].symbol
      BY <1>0 DEF LookUps
    <2>3. Uses(call.address, call.symbol)
      BY <2>1, <2>2 DEF Uses
    <2>4. QED
      BY <1>0, <2>1, <2>3, OwnedCall
  <1>3. QED
    BY <1>1, <1>2

\* A new symbol is nobody's.
LEMMA OwnedNew ==
    ASSUME SymbolInv, Owned, NEW c \in Callers, NewSymbol(c)
    PROVE  Owned'
  <1> DEFINE named == calls[c].address
  <1>1. /\ calls[c] \in LookUps /\ named \in Addresses /\ last \in Nat
        /\ last' = last + 1
        /\ seen' = [seen EXCEPT ![named] = last + 1]
        /\ ops' = [ops EXCEPT ![named] = last + 1]
        /\ calls' = [calls EXCEPT ![c] = [calls[c] EXCEPT !.stage = "known",
                                                          !.symbol = last + 1]]
        /\ UNCHANGED <<batch, disk>>
    BY DEF SymbolInv, TypeOK, LookUps, NewSymbol
  <1>2. /\ calls'[c].address = named /\ calls'[c].symbol = last + 1
        /\ \A d \in Callers : d # c => calls'[d] = calls[d]
    BY <1>1 DEF SymbolInv, TypeOK, LookUps
  <1>3. \A a \in Addresses : /\ seen'[a] = IF a = named THEN last + 1 ELSE seen[a]
                             /\ ops'[a] = IF a = named THEN last + 1 ELSE ops[a]
    BY <1>1 DEF SymbolInv, TypeOK
  <1>4. ASSUME NEW a \in Addresses, NEW s \in Nat, Uses(a, s)'
        PROVE  Uses(a, s) \/ (a = named /\ s = last + 1)
    <2>1. CASE Holds(a, s)'
      BY <1>1, <1>3, <2>1 DEF Uses, Holds
    <2>2. CASE ~Holds(a, s)'
      BY <1>1, <1>2, <1>4, <2>2 DEF Uses
    <2>3. QED
      BY <2>1, <2>2
  <1>5. \A a \in Addresses : ~Uses(a, last + 1)
    BY <1>1 DEF Owned
  <1>6. \A s \in Nat : s <= last => s <= last + 1
    BY <1>1
  <1>7. QED
    BY <1>1, <1>4, <1>5, <1>6 DEF Owned

LEMMA OwnedFlush ==
    ASSUME SymbolInv, Phases, Owned,
           FlushBegins \/ ListGathered \/ WriteLands \/ WriteEnds
    PROVE  Owned'
  <1>0. TypeOK /\ Worker \in Callers
    BY WorkerCalls DEF SymbolInv
  <1>1. CASE FlushBegins
    <2>1. batch.address = NoSymbols /\ batch.lists = {}
      BY <1>1 DEF FlushBegins, Phases, Resting, InUse, EmptyTables
    <2>2. /\ batch'.address = ops /\ batch'.lists = {} /\ ops' = NoSymbols
          /\ UNCHANGED <<last, seen, calls, disk>>
      BY <1>1 DEF FlushBegins
    <2>3. \A a \in Addresses, s \in Nat : Holds(a, s)' => Holds(a, s)
      BY <2>2 DEF Holds, NoSymbols
    <2>4. \A a \in Addresses, s \in Nat : Uses(a, s)' => Uses(a, s)
      BY <2>1, <2>2, <2>3 DEF Uses
    <2>5. QED
      BY <2>2, <2>4, OwnedStays
  <1>2. CASE ListGathered
    <2> DEFINE symbol == calls[Worker].symbol
               before == UNION {l.outs : l \in {k \in disk.lists : k.symbol = symbol}}
               list == [symbol |-> symbol, address |-> calls[Worker].address,
                        outs |-> before \cup added[calls[Worker].address]]
    <2>1. /\ calls[Worker].stage = "known" /\ batch' = [batch EXCEPT !.lists = @ \cup {list}]
          /\ calls' = [calls EXCEPT ![Worker] = NoCall]
          /\ UNCHANGED <<last, seen, ops, disk>>
      BY <1>2 DEF ListGathered
    <2>2. batch'.address = batch.address /\ batch'.lists = batch.lists \cup {list}
      BY <1>0, <2>1 DEF TypeOK, Tables
    <2>3. calls'[Worker] = NoCall /\ \A d \in Callers : d # Worker => calls'[d] = calls[d]
      BY <1>0, <2>1, OneCall
    <2>4. ASSUME NEW a \in Addresses, NEW s \in Nat, Uses(a, s)'
          PROVE  Uses(a, s)
      <3>1. CASE Holds(a, s)'
        BY <2>1, <2>2, <3>1 DEF Uses, Holds
      <3>2. CASE s # None /\ \E d \in Callers : /\ calls'[d].stage \in {"read", "known"}
                                               /\ calls'[d].address = a /\ calls'[d].symbol = s
        BY <2>3, <3>2 DEF Uses, NoCall
      <3>3. CASE s # None /\ \E l \in disk'.lists \cup batch'.lists :
                               l.address = a /\ l.symbol = s
        <4>1. PICK l \in disk'.lists \cup batch'.lists : l.address = a /\ l.symbol = s
          BY <3>3
        <4>2. CASE l = list
          <5>1. calls[Worker].address = a /\ calls[Worker].symbol = s
            BY <4>1, <4>2
          <5>2. QED
            BY <1>0, <2>1, <3>3, <5>1 DEF Uses
        <4>3. CASE l # list
          BY <2>1, <2>2, <3>3, <4>1, <4>3 DEF Uses
        <4>4. QED
          BY <4>2, <4>3
      <3>4. QED
        BY <2>4, <3>1, <3>2, <3>3 DEF Uses
    <2>5. QED
      BY <2>1, <2>4, OwnedStays
  <1>3. CASE WriteLands
    <2>1. /\ \A a \in Addresses : disk'.address[a] \in {batch.address[a], disk.address[a]}
          /\ disk'.lists \subseteq disk.lists \cup batch.lists
          /\ batch'.address = NoSymbols /\ batch'.lists = {}
          /\ UNCHANGED <<last, seen, ops, calls>>
      BY <1>3 DEF WriteLands, EmptyTables
    <2>2. \A a \in Addresses, s \in Nat : Holds(a, s)' => Holds(a, s)
      BY <2>1 DEF Holds, NoSymbols
    <2>3. \A a \in Addresses, s \in Nat : Uses(a, s)' => Uses(a, s)
      BY <2>1, <2>2 DEF Uses
    <2>4. QED
      BY <2>1, <2>3, OwnedStays
  <1>4. CASE WriteEnds
    <2>1. \A a \in Addresses, s \in Nat : Uses(a, s)' => Uses(a, s)
      BY <1>4 DEF WriteEnds, Uses, Holds, NoSymbols
    <2>2. QED
      BY <1>4, <2>1, OwnedStays DEF WriteEnds
  <1>5. QED
    BY <1>1, <1>2, <1>3, <1>4

\* After a crash without early addresses the counter is that of the disk, and so is every symbol.
LEMMA OwnedCrash ==
    ASSUME SymbolInv, Owned, \A a \in Addresses : Listed(a), Crash
    PROVE  Owned'
  <1>1. /\ seen' = NoSymbols /\ ops' = NoSymbols /\ batch' = EmptyTables
        /\ last' = disk.last /\ disk' = disk
        /\ \A c \in Callers : calls'[c] = NoCall
    BY DEF Crash
  <1>2. ASSUME NEW a \in Addresses, NEW s \in Nat, Uses(a, s)'
        PROVE  Uses(a, s) /\ s <= disk.last
    <2>1. disk.address[a] = s /\ s # None
      BY <1>1, <1>2 DEF Uses, Holds, NoSymbols, EmptyTables, NoCall, Listed
    <2>2. QED
      BY <2>1 DEF Uses, Holds, SymbolInv, Counted
  <1>3. QED
    BY <1>1, <1>2 DEF Owned

LEMMA OwnedStep ==
    ASSUME SymbolInv, ListInv, [Next]_vars, Sound'
    PROVE  Owned'
  <1>0. TypeOK /\ Phases /\ Sound /\ Owned /\ Worker \in Callers
        /\ (Crash => \A a \in Addresses : Listed(a))
    BY SoundBefore, WorkerCalls DEF SymbolInv, ListInv, Recorded
  <1>1. CASE UNCHANGED vars
    BY <1>0, <1>1 DEF vars, Owned, Uses, Holds
  <1>2. ASSUME NEW c \in Callers, ReadSymbol(c) \/ FindSymbol(c) PROVE Owned'
    BY <1>0, <1>2, OwnedLookUps
  <1>3. ASSUME NEW c \in Callers, NewSymbol(c) PROVE Owned'
    BY <1>0, <1>3, OwnedNew
  <1>4. ASSUME NEW c \in Clients, ClientAsks(c) PROVE Owned'
    BY <1>0, <1>4, OwnedAsked DEF ClientAsks, Callers
  <1>5. ASSUME NEW c \in Clients, ClientServed(c) PROVE Owned'
    <2>1. NoCall.stage \notin {"read", "known"}
      BY DEF NoCall
    <2>2. QED
      BY <1>0, <1>5, <2>1, OwnedCall DEF ClientServed, Callers
  <1>6. CASE WorkerTakes
    <2>1. \A payees \in Payees : Head(payees) \in Addresses
      BY AddressSymbolsAssumption DEF AddressSymbolsAssumption
    <2>2. QED
      BY <1>0, <1>6, <2>1, OwnedAsked DEF WorkerTakes
  <1>7. CASE WorkerNames
    <2>1. worker.payees[Len(worker.named) + 2] \in Addresses
      BY <1>0, <1>7 DEF TypeOK, WorkerNames
    <2>2. QED
      BY <1>0, <1>7, <2>1, OwnedAsked DEF WorkerNames
  <1>8. CASE WorkerRecords
    <2>1. NoCall.stage \notin {"read", "known"}
      BY DEF NoCall
    <2>2. QED
      BY <1>0, <1>8, <2>1, OwnedCall DEF WorkerRecords
  <1>9. CASE ListBegins
    <2>1. \A a \in worker.lists : a \in Addresses
      BY <1>0 DEF TypeOK
    <2>2. QED
      BY <1>0, <1>9, <2>1, OwnedAsked DEF ListBegins
  <1>10. CASE WriteBegins
    BY <1>0, <1>10 DEF WriteBegins, Owned, Uses, Holds
  <1>11. CASE FlushBegins \/ ListGathered \/ WriteLands \/ WriteEnds
    BY <1>0, <1>11, OwnedFlush
  <1>12. CASE Crash
    BY <1>0, <1>12, OwnedCrash
  <1>13. QED
    BY <1>1, <1>2, <1>3, <1>4, <1>5, <1>6, <1>7, <1>8, <1>9, <1>10, <1>11, <1>12 DEF Next
------------------------------------------------------------------------------
(* What is recorded of an address no client asked for too early *)

\* A step that changes look-ups only, the worker's to one that knows no more than the indexer.
LEMMA RecordedCalls ==
    ASSUME NEW a, Recorded(a),
           UNCHANGED <<seen, ops, worker, waiting, added, batch, disk>>,
           calls'[Worker].address = a =>
              /\ calls'[Worker].stage = "read" /\ calls'[Worker].symbol # None
                    => calls'[Worker].symbol = disk.address[a]
              /\ calls'[Worker].stage = "known" => calls'[Worker].symbol = Symbol(a),
           calls[Worker].stage # "none" /\ calls[Worker].address = a
              => calls'[Worker].stage # "none" /\ calls'[Worker].address = a
    PROVE  Recorded(a)'
  BY DEF Recorded, Named, Added, Gathered, Listed, Symbol

LEMMA RecordedLookUps ==
    ASSUME TypeOK, KeptInv, NEW a \in Addresses \ early, Recorded(a), NEW c \in Callers,
           ReadSymbol(c) \/ FindSymbol(c)
    PROVE  Recorded(a)'
  <1>0. FirstCall(a) /\ calls[c] \in LookUps
    BY DEF KeptInv, TypeOK
  <1>1. CASE ReadSymbol(c)
    <2> DEFINE call == [calls[c] EXCEPT !.stage = "read",
                                        !.symbol = disk.address[calls[c].address]]
    <2>1. /\ calls' = [calls EXCEPT ![c] = call] /\ calls[c].stage = "reading"
          /\ UNCHANGED <<seen, ops, worker, waiting, added, batch, disk>>
      BY <1>1 DEF ReadSymbol
    <2>2. /\ call.address = calls[c].address /\ call.stage = "read"
          /\ call.symbol = disk.address[calls[c].address]
      BY <1>0 DEF LookUps
    <2>3. calls'[c] = call /\ \A d \in Callers : d # c => calls'[d] = calls[d]
      BY <2>1, OneCall
    <2>4. QED
      BY <2>1, <2>2, <2>3, WorkerCalls, RecordedCalls DEF Recorded, Named
  <1>2. CASE FindSymbol(c)
    <2> DEFINE call == [calls[c] EXCEPT !.stage = "known"]
    <2>1. /\ calls' = [calls EXCEPT ![c] = call]
          /\ calls[c].stage = "read" /\ calls[c].symbol # None
          /\ UNCHANGED <<seen, ops, worker, waiting, added, batch, disk>>
      BY <1>2 DEF FindSymbol
    <2>2. /\ call.address = calls[c].address /\ call.stage = "known"
          /\ call.symbol = calls[c].symbol
      BY <1>0 DEF LookUps
    <2>3. calls'[c] = call /\ \A d \in Callers : d # c => calls'[d] = calls[d]
      BY <2>1, OneCall
    <2>4. c = Worker /\ calls[c].address = a => calls[c].symbol = Symbol(a)
      BY <1>0, <2>1 DEF FirstCall, Recorded, Named, Symbol
    <2>5. QED
      BY <2>1, <2>2, <2>3, <2>4, WorkerCalls, RecordedCalls DEF Recorded, Named
  <1>3. QED
    BY <1>1, <1>2

\* Only the worker names a, and then nothing is recorded of it.
LEMMA RecordedNew ==
    ASSUME TypeOK, KeptInv, Phases, NEW a \in Addresses \ early, Recorded(a), NEW c \in Callers,
           NewSymbol(c)
    PROVE  Recorded(a)'
  <1> DEFINE named == calls[c].address
  <1>1. /\ calls[c] \in LookUps /\ calls[c].stage = "read" /\ calls[c].symbol = None
        /\ named \in Addresses /\ last \in Nat
        /\ seen' = [seen EXCEPT ![named] = last + 1]
        /\ ops' = [ops EXCEPT ![named] = last + 1]
        /\ calls' = [calls EXCEPT ![c] = [calls[c] EXCEPT !.stage = "known",
                                                          !.symbol = last + 1]]
        /\ UNCHANGED <<worker, waiting, added, batch, disk, early>>
    BY DEF NewSymbol, TypeOK, LookUps
  <1>2. /\ calls'[c].stage = "known" /\ calls'[c].address = named /\ calls'[c].symbol = last + 1
        /\ \A d \in Callers : d # c => calls'[d] = calls[d]
    BY <1>1 DEF TypeOK, LookUps
  <1>3. /\ seen'[named] = last + 1 /\ ops'[named] = last + 1 /\ last + 1 # None
        /\ \A b \in Addresses : b # named => seen'[b] = seen[b] /\ ops'[b] = ops[b]
    BY <1>1 DEF TypeOK, None
  <1>4. FirstSymbol(a) /\ FirstCall(a) /\ NamedKnown(a) /\ Working
    BY DEF KeptInv
  <1>5. Added(a)' /\ Listed(a)'
    BY <1>1 DEF Recorded, Added, Listed
  <1>6. CASE a # named
    <2>1. Symbol(a)' = Symbol(a)
      BY <1>1, <1>3, <1>6 DEF Symbol
    <2>2. Gathered(a)'
      BY <1>1, <1>2, <1>6, <2>1, WorkerCalls DEF Recorded, Gathered
    <2>3. Named(a)'
      BY <1>1, <1>2, <1>3, <1>6, <2>1, WorkerCalls DEF Recorded, Named
    <2>4. QED
      BY <1>5, <2>2, <2>3 DEF Recorded
  <1>7. CASE a = named
    <2>1. c = Worker
      BY <1>1, <1>4, <1>7, WorkerCalls DEF FirstCall
    <2>2. seen[a] = None /\ disk.address[a] = None /\ worker.at = "naming"
      BY <1>1, <1>4, <1>7, <2>1, WorkerCalls DEF FirstCall, Working
    <2>3. /\ Symbol(a)' = last + 1
          /\ seen'[a] = ops'[a]
          /\ calls'[Worker].stage = "known" /\ calls'[Worker].symbol = last + 1
      BY <1>2, <1>3, <1>7, <2>1 DEF Symbol
    <2>4. \A u \in waiting \cup batch.utxos : u.to # a
      <3>1. batch.utxos = {}
        BY <2>2 DEF Phases, InUse, EmptyTables
      <3>2. PaidIn(waiting, a) = {}
        BY <1>4, <2>2 DEF NamedKnown, Known, Recorded, Added
      <3>3. QED
        BY <3>1, <3>2 DEF PaidIn
    <2>5. \A i \in DOMAIN worker.payees : i <= Len(worker.named) => worker.payees[i] # a
      BY <1>4, <2>2 DEF NamedKnown, Known
    <2>6. Named(a)'
      BY <1>1, <2>2, <2>3, <2>4, <2>5 DEF Recorded, Named
    <2>7. Gathered(a)'
      BY <1>1, <2>2 DEF Gathered, InUse
    <2>8. QED
      BY <1>5, <2>6, <2>7 DEF Recorded
  <1>8. QED
    BY <1>6, <1>7

LEMMA RecordedClients ==
    ASSUME TypeOK, NEW a \in Addresses \ early, Recorded(a), NEW c \in Clients,
           ClientAsks(c) \/ ClientServed(c)
    PROVE  Recorded(a)'
  <1>1. calls'[Worker] = calls[Worker]
    BY WorkerCalls DEF TypeOK, ClientAsks, ClientServed, Callers
  <1>2. UNCHANGED <<seen, ops, worker, waiting, added, batch, disk>>
    BY DEF ClientAsks, ClientServed
  <1>3. QED
    BY <1>1, <1>2, RecordedCalls DEF Recorded, Named

\* The look-up of an address starts with the symbol of the indexer, if it is in memory.
LEMMA CallFinds ==
    ASSUME NEW a, NEW b
    PROVE  /\ Call(b).stage # "read"
           /\ Call(b).address = b /\ Call(b).stage # "none"
           /\ b = a /\ Call(b).stage = "known" => Call(b).symbol = Symbol(a)
  BY DEF Call, Symbol

LEMMA RecordedNaming ==
    ASSUME TypeOK, KeptInv, Phases, NEW a \in Addresses \ early, Recorded(a),
           WorkerTakes \/ WorkerNames \/ WorkerRecords
    PROVE  Recorded(a)'
  <1>0. Working /\ Worker \in Callers
        /\ worker.payees \in Seq(Addresses) /\ worker.named \in Seq(Nat)
        /\ calls[Worker].symbol \in Nat
    BY WorkerCalls DEF KeptInv, TypeOK, LookUps
  <1>1. CASE WorkerTakes
    <2>1. PICK payees \in Payees :
              /\ worker' = [Resting EXCEPT !.at = "naming", !.payees = payees]
              /\ calls' = [calls EXCEPT ![Worker] = Call(Head(payees))]
      BY <1>1 DEF WorkerTakes
    <2>2. worker' = [at |-> "naming", payees |-> payees, named |-> <<>>, lists |-> {}]
      BY <2>1 DEF Resting
    <2>3. UNCHANGED <<seen, ops, waiting, added, batch, disk>> /\ worker.at = "idle"
      BY <1>1 DEF WorkerTakes, Resting
    <2>4. calls'[Worker] = Call(Head(payees))
      BY <1>0, <2>1, OneCall
    <2>5. Named(a)'
      <3>1. payees \in Seq(Addresses)
        BY AddressSymbolsAssumption DEF AddressSymbolsAssumption
      <3>2. \A i \in DOMAIN worker'.payees : ~(i <= Len(worker'.named))
        BY <2>2, <3>1
      <3>3. QED
        BY <2>3, <2>4, <3>2, CallFinds DEF Recorded, Named, Symbol
    <2>6. Added(a)' /\ Gathered(a)' /\ Listed(a)'
      BY <2>2, <2>3 DEF Recorded, Added, Gathered, Listed, InUse
    <2>7. QED
      BY <2>5, <2>6 DEF Recorded
  <1>2. CASE WorkerNames
    <2> DEFINE n == Len(worker.named)
               next == worker.payees[n + 2]
    <2>1. /\ worker.at = "naming" /\ calls[Worker].stage = "known"
          /\ n + 1 < Len(worker.payees)
          /\ worker' = [worker EXCEPT !.named = Append(@, calls[Worker].symbol)]
          /\ calls' = [calls EXCEPT ![Worker] = Call(next)]
          /\ UNCHANGED <<seen, ops, waiting, added, batch, disk>>
      BY <1>2 DEF WorkerNames, WorkerKnows
    <2>2. /\ worker'.at = "naming" /\ worker'.payees = worker.payees
          /\ worker'.named = Append(worker.named, calls[Worker].symbol)
      BY <2>1 DEF TypeOK
    <2>3. /\ n \in Nat /\ Len(worker'.named) = n + 1
          /\ worker'.named[n + 1] = calls[Worker].symbol
          /\ \A i \in 1..n : worker'.named[i] = worker.named[i]
      BY <1>0, <2>2
    <2>4. calls'[Worker] = Call(next)
      BY <1>0, <2>1, OneCall
    <2>5. Named(a)'
      <3>1. \A i \in DOMAIN worker.payees : i <= n + 1 => i \in 1..n \/ i = n + 1
        BY <1>0, <2>3
      <3>2. \A i \in 1..n : i <= n
        BY <2>3
      <3>3. worker.payees[n + 1] = a => calls[Worker].symbol = Symbol(a)
        BY <1>0, <2>1 DEF Working, Recorded, Named
      <3>4. \A i \in DOMAIN worker.payees :
                i <= n + 1 /\ worker.payees[i] = a => worker'.named[i] = Symbol(a)
        BY <2>1, <2>3, <3>1, <3>2, <3>3 DEF Recorded, Named
      <3>5. QED
        BY <2>1, <2>2, <2>3, <2>4, <3>4, CallFinds DEF Recorded, Named, Symbol
    <2>6. Added(a)' /\ Gathered(a)' /\ Listed(a)'
      BY <2>1, <2>2 DEF Recorded, Added, Gathered, Listed, InUse
    <2>7. QED
      BY <2>5, <2>6 DEF Recorded
  <1>3. CASE WorkerRecords
    <2> DEFINE n == Len(worker.named)
               symbols == Append(worker.named, calls[Worker].symbol)
               record(i) == [out |-> OutOf(i), to |-> worker.payees[i], symbol |-> symbols[i]]
               paid == {i \in DOMAIN worker.payees : worker.payees[i] = a}
    <2>1. /\ worker.at = "naming" /\ calls[Worker].stage = "known"
          /\ n + 1 = Len(worker.payees)
          /\ waiting' = waiting \cup {record(i) : i \in DOMAIN worker.payees}
          /\ added'[a] = added[a] \cup {OutOf(i) : i \in paid}
          /\ worker' = Resting
          /\ calls' = [calls EXCEPT ![Worker] = NoCall]
          /\ UNCHANGED <<seen, ops, batch, disk>>
      BY <1>3 DEF WorkerRecords, WorkerKnows
    <2>2. calls'[Worker] = NoCall
      BY <1>0, <2>1, OneCall
    <2>3. ASSUME NEW i \in DOMAIN worker.payees, worker.payees[i] = a
          PROVE  symbols[i] = Symbol(a)
      <3>1. CASE i <= n
        <4>1. symbols[i] = worker.named[i]
          BY <1>0, <3>1
        <4>2. QED
          BY <2>1, <2>3, <3>1, <4>1 DEF Recorded, Named
      <3>2. CASE i = n + 1
        <4>1. symbols[i] = calls[Worker].symbol
          BY <1>0, <3>2
        <4>2. QED
          BY <1>0, <2>1, <2>3, <3>2, <4>1 DEF Working, Recorded, Named
      <3>3. i <= n \/ i = n + 1
        BY <1>0, <2>1
      <3>4. QED
        BY <3>1, <3>2, <3>3
    <2> HIDE DEF symbols
    <2>4. \A u \in waiting' : u.to = a => u.symbol = Symbol(a)
      BY <2>1, <2>3 DEF Recorded, Named
    <2>5. added'[a] = PaidIn(waiting', a)
      <3>1. PaidIn(waiting', a) = PaidIn(waiting, a)
                                    \cup PaidIn({record(i) : i \in DOMAIN worker.payees}, a)
        BY <2>1 DEF PaidIn
      <3>2. PaidIn({record(i) : i \in DOMAIN worker.payees}, a) = {OutOf(i) : i \in paid}
        <4>1. \A i \in DOMAIN worker.payees : record(i).to = worker.payees[i]
                                              /\ record(i).out = OutOf(i)
          OBVIOUS
        <4> HIDE DEF record
        <4>2. QED
          BY <4>1 DEF PaidIn
      <3>3. added[a] = PaidIn(waiting, a)
        BY <2>1 DEF Recorded, Added
      <3>4. QED
        BY <2>1, <3>1, <3>2, <3>3
    <2>6. Named(a)'
      BY <2>1, <2>2, <2>4 DEF Recorded, Named, Symbol, Resting, NoCall
    <2>7. Added(a)' /\ Gathered(a)' /\ Listed(a)'
      BY <2>1, <2>5 DEF Recorded, Added, Gathered, Listed, InUse, Resting
    <2>8. QED
      BY <2>6, <2>7 DEF Recorded
  <1>4. QED
    BY <1>1, <1>2, <1>3
LEMMA RecordedGathering ==
    ASSUME TypeOK, KeptInv, Phases, NEW a \in Addresses \ early, Recorded(a),
           FlushBegins \/ ListBegins \/ WriteBegins \/ WriteEnds
    PROVE  Recorded(a)'
  <1>0. Working /\ FirstSymbol(a) /\ Worker \in Callers
    BY WorkerCalls DEF KeptInv
  <1>1. CASE FlushBegins
    <2>1. /\ worker = Resting /\ worker'.at = "gathering" /\ worker'.payees = <<>>
          /\ worker'.lists = {b \in Addresses : added[b] # {}}
          /\ batch'.address = ops /\ ops' = NoSymbols
          /\ batch'.utxos = waiting /\ batch'.lists = {} /\ waiting' = {}
          /\ UNCHANGED <<seen, calls, added, disk>>
      BY <1>1 DEF FlushBegins, Resting
    <2>2. batch = EmptyTables /\ calls[Worker].stage = "none"
      BY <1>0, <2>1 DEF Phases, Working, Resting, InUse
    <2>3. Named(a)'
      <3>1. seen[a] # None => seen[a] \in {ops[a], None, disk.address[a]}
        BY <2>2 DEF Recorded, Named, EmptyTables, NoSymbols
      <3>2. QED
        BY <2>1, <2>2, <3>1 DEF Recorded, Named, Symbol
    <2>4. Added(a)' /\ Gathered(a)' /\ Listed(a)'
      BY <2>1 DEF Recorded, Added, Gathered, Listed, InUse, Resting
    <2>5. QED
      BY <2>3, <2>4 DEF Recorded
  <1>2. CASE ListBegins
    <2>1. PICK b \in worker.lists :
              /\ worker' = [worker EXCEPT !.lists = @ \ {b}]
              /\ calls' = [calls EXCEPT ![Worker] = Call(b)]
      BY <1>2 DEF ListBegins
    <2>2. /\ worker.at = "gathering" /\ worker'.at = "gathering"
          /\ worker'.lists = worker.lists \ {b} /\ calls[Worker] = NoCall
          /\ UNCHANGED <<seen, ops, waiting, added, batch, disk>>
      BY <1>2, <2>1 DEF ListBegins, TypeOK
    <2>3. calls'[Worker] = Call(b)
      BY <1>0, <2>1, OneCall
    <2>4. Named(a)'
      BY <2>2, <2>3, CallFinds DEF Recorded, Named, Symbol
    <2>5. Gathered(a)'
      BY <2>2, <2>3, CallFinds DEF Recorded, Gathered, Symbol, InUse, NoCall
    <2>6. Added(a)' /\ Listed(a)'
      BY <2>2 DEF Recorded, Added, Listed
    <2>7. QED
      BY <2>4, <2>5, <2>6 DEF Recorded
  <1>3. CASE WriteBegins
    <2>1. /\ worker.at = "gathering" /\ worker.lists = {} /\ calls[Worker] = NoCall
          /\ worker'.at = "writing"
          /\ UNCHANGED <<calls, seen, ops, waiting, added, batch, disk>>
      BY <1>3 DEF WriteBegins, TypeOK
    <2>2. Named(a)' /\ Added(a)' /\ Listed(a)'
      BY <2>1 DEF Recorded, Named, Added, Listed, Symbol, InUse
    <2>3. Gathered(a)'
      BY <2>1 DEF Recorded, Gathered, Symbol, InUse, NoCall
    <2>4. QED
      BY <2>2, <2>3 DEF Recorded
  <1>4. CASE WriteEnds
    <2>1. /\ worker.at = "written" /\ worker' = Resting
          /\ seen' = NoSymbols /\ added' = NothingAdded
          /\ UNCHANGED <<calls, ops, waiting, batch, disk>>
      BY <1>4 DEF WriteEnds
    <2>2. /\ ops[a] = None /\ batch = EmptyTables /\ waiting = {}
          /\ calls[Worker].stage = "none"
      BY <1>0, <2>1 DEF FirstSymbol, Phases, Working, InUse
    <2>3. Symbol(a)' = Symbol(a)
      BY <2>1, <2>2 DEF Recorded, Named, Symbol, NoSymbols, EmptyTables
    <2>4. Named(a)'
      BY <2>1, <2>2, <2>3 DEF Recorded, Named, NoSymbols, EmptyTables, Resting
    <2>5. Added(a)' /\ Gathered(a)' /\ Listed(a)'
      BY <2>1, <2>2 DEF Recorded, Added, Gathered, Listed, PaidIn, InUse, Resting, NothingAdded
    <2>6. QED
      BY <2>4, <2>5 DEF Recorded
  <1>5. QED
    BY <1>1, <1>2, <1>3, <1>4

\* The list read before it is rewritten is that of the address, because the symbol is.
LEMMA RecordedListed ==
    ASSUME TypeOK, KeptInv, Owned, NEW a \in Addresses \ early, Recorded(a), ListGathered
    PROVE  Recorded(a)'
  <1> DEFINE b      == calls[Worker].address
             symbol == calls[Worker].symbol
             under  == {k \in disk.lists : k.symbol = symbol}
             before == UNION {l.outs : l \in under}
             list   == [symbol |-> symbol, address |-> b, outs |-> before \cup added[b]]
  <1>0. FirstCall(a) /\ Worker \in Callers
    BY WorkerCalls DEF KeptInv
  <1>1. /\ worker.at = "gathering" /\ calls[Worker].stage = "known"
        /\ batch' = [batch EXCEPT !.lists = @ \cup {list}]
        /\ calls' = [calls EXCEPT ![Worker] = NoCall]
        /\ UNCHANGED <<seen, ops, worker, waiting, added, disk>>
    BY DEF ListGathered
  <1>2. /\ batch'.address = batch.address /\ batch'.utxos = batch.utxos
        /\ batch'.lists = batch.lists \cup {list}
    BY <1>1 DEF TypeOK, Tables
  <1>3. calls'[Worker] = NoCall
    BY <1>0, <1>1, OneCall
  <1>4. Named(a)'
    BY <1>1, <1>2, <1>3 DEF Recorded, Named, Symbol, NoCall
  <1>5. Added(a)' /\ Listed(a)'
    BY <1>1, <1>2 DEF Recorded, Added, Listed
  <1>6. ASSUME b = a
        PROVE  symbol = Symbol(a) /\ symbol # None /\ before = PaidIn(disk.utxos, a)
    <2>1. symbol = Symbol(a) /\ symbol # None /\ symbol \in Nat
      BY <1>0, <1>1, <1>6 DEF Recorded, Named, FirstCall, Known, Symbol, TypeOK, LookUps
    <2>2. Uses(a, symbol)
      BY <1>0, <1>1, <1>6, <2>1 DEF Uses
    <2>3. ASSUME NEW l \in under PROVE l.address = a
      <3>1. l \in disk.lists /\ l.symbol = symbol /\ l.address \in Addresses
        BY DEF TypeOK, Tables
      <3>2. Uses(l.address, symbol)
        BY <2>1, <3>1 DEF Uses
      <3>3. QED
        BY <2>1, <2>2, <3>1, <3>2 DEF Owned
    <2>4. \A l \in under : l.outs = PaidIn(disk.utxos, a)
      BY <2>3 DEF Recorded, Listed
    <2>5. CASE under = {}
      <3>1. \A l \in disk.lists : l.address # a
        <4> SUFFICES ASSUME NEW l \in disk.lists, l.address = a PROVE FALSE
          OBVIOUS
        <4>1. l.symbol = disk.address[a] /\ disk.address[a] # None
          BY DEF Recorded, Listed
        <4>2. Uses(a, disk.address[a])
          BY <4>1 DEF Uses, Holds
        <4>3. symbol = disk.address[a]
          <5>1. seen[a] # None => seen[a] = disk.address[a]
            BY <4>1 DEF Recorded, Named, KeptInv, FirstSymbol
          <5>2. QED
            BY <2>1, <5>1 DEF Symbol
        <4>4. QED
          BY <2>5, <4>1, <4>3
      <3>2. PaidIn(disk.utxos, a) = {}
        BY <3>1 DEF Recorded, Listed
      <3>3. QED
        BY <2>1, <2>5, <3>2
    <2>6. CASE under # {}
      BY <2>1, <2>4, <2>6
    <2>7. QED
      BY <2>5, <2>6
  <1>7. Gathered(a)'
    <2>1. b = a => /\ list.symbol = Symbol(a) /\ list.symbol # None
                   /\ list.outs = PaidIn(disk.utxos, a) \cup added[a]
      BY <1>6
    <2>2. list.address = b
      OBVIOUS
    <2>3. list \in batch'.lists
      BY <1>2
    <2> HIDE DEF list
    <2>4. QED
      BY <1>1, <1>2, <1>3, <2>1, <2>2, <2>3 DEF Recorded, Gathered, Symbol, InUse
  <1>8. QED
    BY <1>4, <1>5, <1>7 DEF Recorded

\* What is written of a is what was gathered; a list of a is replaced by a list of a.
LEMMA RecordedLands ==
    ASSUME TypeOK, KeptInv, Phases, Owned, NEW a \in Addresses \ early, Recorded(a), WriteLands
    PROVE  Recorded(a)'
  <1> DEFINE rewritten == {l.symbol : l \in batch.lists}
  <1>0. Working /\ FirstSymbol(a)
    BY DEF KeptInv
  <1>1. /\ worker.at = "writing" /\ worker'.at = "written" /\ worker.lists = {}
        /\ worker'.lists = worker.lists
        /\ disk'.address[a] = IF batch.address[a] # None THEN batch.address[a]
                              ELSE disk.address[a]
        /\ disk'.utxos = disk.utxos \cup batch.utxos
        /\ disk'.lists = {l \in disk.lists : l.symbol \notin rewritten} \cup batch.lists
        /\ batch' = EmptyTables
        /\ UNCHANGED <<seen, ops, calls, waiting, added>>
    BY DEF WriteLands, TypeOK, Phases
  <1>2. calls[Worker].stage = "none" /\ waiting = {} /\ ops[a] = None
    BY <1>0, <1>1 DEF Working, FirstSymbol, Phases, InUse
  <1>3. /\ disk'.address[a] = Symbol(a) /\ Symbol(a)' = Symbol(a)
        /\ seen[a] # None => seen[a] = disk'.address[a]
        /\ disk.address[a] # None => disk.address[a] = Symbol(a)
    BY <1>0, <1>1, <1>2 DEF FirstSymbol, Recorded, Named, Symbol
  <1>4. Added(a)' /\ Gathered(a)'
    BY <1>1 DEF Added, Gathered, InUse
  <1>5. /\ added[a] = PaidIn(batch.utxos, a)
        /\ PaidIn(disk'.utxos, a) = PaidIn(disk.utxos, a) \cup added[a]
    BY <1>1 DEF Recorded, Added, InUse, PaidIn
  <1>6. added[a] # {} => \E l \in batch.lists : l.address = a
    BY <1>1, <1>2 DEF Recorded, Gathered, InUse
  <1>7. ASSUME NEW l \in batch.lists, l.address = a
        PROVE  l.symbol = Symbol(a) /\ l.symbol # None /\ l.outs = PaidIn(disk'.utxos, a)
    BY <1>1, <1>5, <1>7 DEF Recorded, Gathered, InUse
  <1>8. Named(a)'
    <2>1. \A u \in batch.utxos : u.to = a => added[a] # {}
      BY <1>5 DEF PaidIn
    <2>2. \A u \in disk'.utxos : u.to = a => u.symbol = disk'.address[a] /\ disk'.address[a] # None
      BY <1>1, <1>3, <1>6, <1>7, <2>1 DEF Recorded, Named
    <2>3. QED
      BY <1>1, <1>2, <1>3, <2>2 DEF Named, EmptyTables
  <1>9. ASSUME NEW l \in disk'.lists, l.address = a
        PROVE  l.symbol = disk'.address[a] /\ l.symbol # None /\ l.outs = PaidIn(disk'.utxos, a)
    <2>1. CASE l \in batch.lists
      BY <1>3, <1>7, <1>9, <2>1
    <2>2. CASE l \notin batch.lists
      <3>1. l \in disk.lists /\ l.symbol \notin rewritten
        BY <1>1, <2>2
      <3>2. /\ l.symbol = disk.address[a] /\ l.symbol # None
            /\ l.outs = PaidIn(disk.utxos, a)
        BY <1>9, <3>1 DEF Recorded, Listed
      <3>3. l.symbol = Symbol(a)
        BY <1>3, <3>2
      <3>4. added[a] = {}
        BY <1>6, <1>7, <3>1, <3>3
      <3>5. QED
        BY <1>3, <1>5, <3>2, <3>3, <3>4
    <2>3. QED
      BY <2>1, <2>2
  <1>10. PaidIn(disk'.utxos, a) # {} => \E l \in disk'.lists : l.address = a
    <2>1. CASE added[a] # {}
      BY <1>1, <1>6, <2>1
    <2>2. CASE added[a] = {} /\ PaidIn(disk.utxos, a) # {}
      <3>1. PICK l \in disk.lists : l.address = a
        BY <2>2 DEF Recorded, Listed
      <3>2. CASE l.symbol \notin rewritten
        BY <1>1, <3>1, <3>2
      <3>3. CASE l.symbol \in rewritten
        <4>1. PICK k \in batch.lists : k.symbol = l.symbol
          BY <3>3
        <4>2. l.symbol # None /\ l.symbol \in Nat /\ k.address \in Addresses
          BY <3>1 DEF Recorded, Listed, TypeOK, Tables
        <4>3. Uses(a, l.symbol) /\ Uses(k.address, l.symbol)
          BY <3>1, <4>1, <4>2 DEF Uses
        <4>4. k.address = a
          BY <4>2, <4>3 DEF Owned
        <4>5. QED
          BY <1>1, <4>4
      <3>4. QED
        BY <3>2, <3>3
    <2>3. QED
      BY <1>5, <2>1, <2>2
  <1>11. Listed(a)'
    BY <1>9, <1>10 DEF Listed
  <1>12. QED
    BY <1>4, <1>8, <1>11 DEF Recorded

\* A crash leaves what is on disk, which is all there is of a.
LEMMA RecordedCrash ==
    ASSUME NEW a \in Addresses \ early, Recorded(a), Crash
    PROVE  Recorded(a)'
  <1>1. /\ seen' = NoSymbols /\ batch' = EmptyTables /\ worker' = Resting
        /\ waiting' = {} /\ added' = NothingAdded
        /\ calls'[Worker] = NoCall
        /\ disk' = disk
    BY WorkerCalls DEF Crash
  <1>2. Named(a)'
    BY <1>1 DEF Recorded, Named, Symbol, NoSymbols, EmptyTables, Resting, NoCall
  <1>3. Added(a)' /\ Gathered(a)' /\ Listed(a)'
    BY <1>1 DEF Recorded, Added, Gathered, Listed, PaidIn, InUse, Resting, NothingAdded
  <1>4. QED
    BY <1>2, <1>3 DEF Recorded

LEMMA ListStep == SymbolInv /\ KeptInv /\ ListInv /\ [Next]_vars => ListInv'
  <1> SUFFICES ASSUME SymbolInv, KeptInv, ListInv, [Next]_vars PROVE ListInv'
    OBVIOUS
  <1>1. TypeOK /\ Phases /\ Phases'
    BY PhasesStep DEF SymbolInv, ListInv
  <1> SUFFICES ASSUME Sound', NEW a \in Addresses \ early' PROVE Recorded(a)'
    BY <1>1, OwnedStep DEF ListInv
  <1>2. a \in Addresses \ early /\ Recorded(a) /\ Owned
    BY <1>1, SoundBefore DEF ListInv
  <1>3. CASE UNCHANGED vars
    BY <1>2, <1>3 DEF vars, Recorded, Named, Added, Gathered, Listed, Symbol
  <1>4. ASSUME NEW c \in Callers, ReadSymbol(c) \/ FindSymbol(c) PROVE Recorded(a)'
    BY <1>1, <1>2, <1>4, RecordedLookUps
  <1>5. ASSUME NEW c \in Callers, NewSymbol(c) PROVE Recorded(a)'
    BY <1>1, <1>2, <1>5, RecordedNew
  <1>6. ASSUME NEW c \in Clients, ClientAsks(c) \/ ClientServed(c) PROVE Recorded(a)'
    BY <1>1, <1>2, <1>6, RecordedClients
  <1>7. CASE WorkerTakes \/ WorkerNames \/ WorkerRecords
    BY <1>1, <1>2, <1>7, RecordedNaming
  <1>8. CASE FlushBegins \/ ListBegins \/ WriteBegins \/ WriteEnds
    BY <1>1, <1>2, <1>8, RecordedGathering
  <1>9. CASE ListGathered
    BY <1>1, <1>2, <1>9, RecordedListed
  <1>10. CASE WriteLands
    BY <1>1, <1>2, <1>10, RecordedLands
  <1>11. CASE Crash
    BY <1>2, <1>11, RecordedCrash
  <1>12. QED
    BY <1>3, <1>4, <1>5, <1>6, <1>7, <1>8, <1>9, <1>10, <1>11 DEF Next

LEMMA InvariantComplete == TypeOK /\ ListInv => ListsComplete
  <1> SUFFICES ASSUME TypeOK, ListInv, Sound, NEW a \in Addresses \ early
               PROVE  LET paying == {u \in disk.utxos : u.to = a}
                          lists  == {l \in disk.lists : l.symbol = disk.address[a]}
                      IN  paying # {} =>
                              /\ \A u \in paying : u.symbol = disk.address[a]
                              /\ lists = {[symbol |-> disk.address[a], address |-> a,
                                           outs |-> {u.out : u \in paying}]}
    BY DEF ListsComplete, Sound
  <1> DEFINE paying == {u \in disk.utxos : u.to = a}
             lists  == {l \in disk.lists : l.symbol = disk.address[a]}
             list   == [symbol |-> disk.address[a], address |-> a, outs |-> {u.out : u \in paying}]
  <1>1. Recorded(a) /\ Owned
    BY DEF ListInv
  <1>2. SUFFICES ASSUME paying # {}
                 PROVE  /\ \A u \in paying : u.symbol = disk.address[a]
                        /\ lists = {list}
    OBVIOUS
  <1>3. disk.address[a] # None /\ \A u \in paying : u.symbol = disk.address[a]
    BY <1>1, <1>2 DEF Recorded, Named
  <1>4. PaidIn(disk.utxos, a) = {u.out : u \in paying} /\ PaidIn(disk.utxos, a) # {}
    BY <1>2 DEF PaidIn
  <1>5. ASSUME NEW l \in disk.lists
        PROVE  /\ l = [symbol |-> l.symbol, address |-> l.address, outs |-> l.outs]
               /\ l.symbol \in Nat /\ l.address \in Addresses
    BY DEF TypeOK, Tables
  <1>6. ASSUME NEW l \in lists PROVE l = list
    <2>1. Uses(a, disk.address[a]) /\ Uses(l.address, disk.address[a])
      BY <1>3 DEF Uses, Holds
    <2>2. l.address = a
      BY <1>1, <1>5, <2>1 DEF Owned
    <2>3. l.outs = {u.out : u \in paying}
      BY <1>1, <1>4, <2>2 DEF Recorded, Listed
    <2>4. QED
      BY <1>5, <2>2, <2>3
  <1>7. lists # {}
    BY <1>1, <1>4 DEF Recorded, Listed
  <1>8. QED
    BY <1>3, <1>6, <1>7

\* However clients, the worker, flushes and crashes interleave, an output on disk is found from
\* its address and its address from it, for every address no client asked for too early.
THEOREM ListsStayComplete == Spec => []ListsComplete
  <1>1. Init => TypeOK /\ SymbolInv /\ KeptInv /\ ListInv
    BY TypeInit, SymbolInit, KeptInit, ListInit
  <1>2. /\ TypeOK /\ SymbolInv /\ KeptInv /\ ListInv /\ [Next]_vars
        => (TypeOK /\ SymbolInv /\ KeptInv /\ ListInv)'
    BY TypeStep, SymbolStep, KeptStep, ListStep
  <1>3. QED
    BY <1>1, <1>2, InvariantComplete, PTL DEF Spec
==============================================================================
