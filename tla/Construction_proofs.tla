------------------------- MODULE Construction_proofs -------------------------
(***************************************************************************)
(* Theorems about Construction, for every set of coins and accounts and    *)
(* every list of operations, of any length.                                *)
(***************************************************************************)
EXTENDS Construction, TLAPS, WellFoundedInduction

------------------------------------------------------------------------------
(* Induction *)

\* A set of the numbers up to N that has 0, and with each number but N the next.
LEMMA UpTo ==
    ASSUME NEW N \in Nat, NEW S \in SUBSET (0..N), 0 \in S, \A n \in S : n < N => n + 1 \in S
    PROVE  S = 0..N
<1> SUFFICES ASSUME (0..N) \ S # {} PROVE FALSE
  OBVIOUS
<1> DEFINE T == (0..N) \ S
<1>1. T \subseteq Nat /\ T # {}
  OBVIOUS
<1>2. PICK n \in T : \A m \in T : ~ (<<m, n>> \in OpToRel(<, Nat))
  BY <1>1, NatLessThanWellFounded, WFMin
<1>3. n \in 0..N /\ n \notin S /\ n # 0
  OBVIOUS
<1>4. \A m \in T : ~ (m < n)
  BY <1>1, <1>2 DEF OpToRel
<1>5. n - 1 \in S
  BY <1>3, <1>4
<1> QED
  BY <1>3, <1>5

------------------------------------------------------------------------------
(* Recursion *)

Iterable(N, V, start, step) ==
    \E f \in [0..N -> V] : f[0] = start /\ \A i \in 1..N : f[i] = step[<<f[i - 1], i>>]

\* A step that takes values of V to values of V can be iterated N times.
LEMMA Iterates ==
    ASSUME NEW N \in Nat, NEW V, NEW start \in V, NEW step \in [V \X (1..N) -> V]
    PROVE  Iterable(N, V, start, step)
<1> DEFINE Upto(n, f) == f[0] = start /\ \A i \in 1..n : f[i] = step[<<f[i - 1], i>>]
           S == {n \in 0..N : \E f \in [0..n -> V] : Upto(n, f)}
<1>1. 0 \in S
  <2>1. [i \in 0..0 |-> start] \in [0..0 -> V] /\ Upto(0, [i \in 0..0 |-> start])
    OBVIOUS
  <2> HIDE DEF Upto
  <2> QED
    BY <2>1
<1>2. ASSUME NEW n \in S, n < N PROVE n + 1 \in S
  <2>1. n \in Nat /\ n + 1 \in 0..N /\ n + 1 \in 1..N
    BY <1>2
  <2>2. PICK f \in [0..n -> V] : Upto(n, f)
    OBVIOUS
  <2> DEFINE last == step[<<f[n], n + 1>>]
             g == [i \in 0..(n + 1) |-> IF i = n + 1 THEN last ELSE f[i]]
  <2>3. last \in V
    BY <2>1, <2>2
  <2>4. g \in [0..(n + 1) -> V] /\ (\A i \in 0..n : g[i] = f[i]) /\ g[n + 1] = last
    BY <2>1, <2>2, <2>3
  <2> HIDE DEF g
  <2>5. ASSUME NEW i \in 1..(n + 1) PROVE g[i] = step[<<g[i - 1], i>>]
    <3>1. CASE i = n + 1
      <4>1. i - 1 = n /\ n \in 0..n
        BY <2>1, <3>1
      <4> QED
        BY <2>4, <3>1, <4>1
    <3>2. CASE i \in 1..n
      <4>1. i \in 0..n /\ i - 1 \in 0..n
        BY <2>1, <3>2
      <4> QED
        BY <2>2, <2>4, <3>2, <4>1
    <3> QED
      BY <2>1, <3>1, <3>2
  <2>6. Upto(n + 1, g)
    BY <2>1, <2>2, <2>4, <2>5
  <2> HIDE DEF Upto
  <2> QED
    BY <2>1, <2>4, <2>6
<1>3. S \in SUBSET (0..N)
  OBVIOUS
<1> HIDE DEF S
<1>4. N \in S
  BY <1>1, <1>2, <1>3, UpTo
<1> QED
  BY <1>4 DEF S, Iterable

------------------------------------------------------------------------------
(* What Pick picks *)

\* p holds what Pick has picked of s up to each position.
Picks(p, T, s, chosen) ==
    /\ p \in [0..Len(s) -> Seq(T)]
    /\ p[0] = <<>>
    /\ \A n \in 0..Len(s) : n < Len(s) =>
          p[n + 1] = IF n + 1 \in chosen THEN Append(p[n], s[n + 1]) ELSE p[n]

\* The recursion of Pick has a solution, whose last value it is.
LEMMA PickUnfolds ==
    ASSUME NEW T, NEW s \in Seq(T), NEW chosen
    PROVE  \E p : Picks(p, T, s, chosen) /\ Pick(s, chosen) = p[Len(s)]
<1> DEFINE Next1(v, i) == IF i \in chosen THEN Append(v, s[i]) ELSE v
           step == [z \in Seq(T) \X (1..Len(s)) |-> Next1(z[1], z[2])]
           Solves(p) == p = [n \in 0..Len(s) |-> IF n = 0 THEN <<>>
                                                 ELSE IF n \in chosen THEN Append(p[n - 1], s[n])
                                                 ELSE p[n - 1]]
<1>1. Len(s) \in Nat /\ <<>> \in Seq(T)
  OBVIOUS
<1>2. \A v \in Seq(T), i \in 1..Len(s) : Next1(v, i) \in Seq(T)
  OBVIOUS
<1>3. step \in [Seq(T) \X (1..Len(s)) -> Seq(T)]
  <2> HIDE DEF Next1
  <2> QED
    BY <1>2
<1>4. \A v \in Seq(T), i \in 1..Len(s) : step[<<v, i>>] = Next1(v, i)
  OBVIOUS
<1> HIDE DEF step
<1>5. \E p \in [0..Len(s) -> Seq(T)] :
         p[0] = <<>> /\ \A i \in 1..Len(s) : p[i] = step[<<p[i - 1], i>>]
  <2>1. Iterable(Len(s), Seq(T), <<>>, step)
    BY <1>1, <1>3, Iterates
  <2> QED
    BY <2>1 DEF Iterable
<1>6. \E p : Solves(p)
  <2>1. PICK p \in [0..Len(s) -> Seq(T)] :
           p[0] = <<>> /\ \A i \in 1..Len(s) : p[i] = step[<<p[i - 1], i>>]
    BY <1>5
  <2>2. ASSUME NEW n \in 0..Len(s)
        PROVE  p[n] = IF n = 0 THEN <<>> ELSE IF n \in chosen THEN Append(p[n - 1], s[n]) ELSE p[n - 1]
    <3>1. CASE n = 0
      BY <2>1, <3>1
    <3>2. CASE n # 0
      <4>1. n \in 1..Len(s) /\ n - 1 \in 0..Len(s)
        BY <1>1, <3>2
      <4>2. p[n] = Next1(p[n - 1], n)
        BY <1>4, <2>1, <4>1
      <4> QED
        BY <3>2, <4>2
    <3> QED
      BY <3>1, <3>2
  <2>3. p = [n \in 0..Len(s) |-> p[n]]
    BY <2>1
  <2> QED
    BY <2>2, <2>3
<1> DEFINE q == CHOOSE p : Solves(p)
<1>7. Solves(q)
  BY <1>6
<1>8. Pick(s, chosen) = q[Len(s)]
  BY Zenon DEF Pick
<1> HIDE DEF q
<1>9. q[0] = <<>>
  BY <1>1, <1>7
<1>10. ASSUME NEW n \in 0..Len(s), n < Len(s)
       PROVE  q[n + 1] = IF n + 1 \in chosen THEN Append(q[n], s[n + 1]) ELSE q[n]
  <2>1. n + 1 \in 0..Len(s) /\ n + 1 # 0 /\ (n + 1) - 1 = n
    BY <1>1, <1>10
  <2>2. q[n + 1] = IF n + 1 \in chosen THEN Append(q[(n + 1) - 1], s[n + 1]) ELSE q[(n + 1) - 1]
    BY <1>7, <2>1
  <2> QED
    BY <2>1, <2>2
<1>11. \A n \in 0..Len(s) : q[n] \in Seq(T)
  <2> DEFINE S == {n \in 0..Len(s) : q[n] \in Seq(T)}
  <2>1. 0 \in S /\ S \in SUBSET (0..Len(s))
    <3>1. 0 \in 0..Len(s)
      BY <1>1
    <3> QED
      BY <1>1, <1>9, <3>1
  <2>2. ASSUME NEW n \in S, n < Len(s) PROVE n + 1 \in S
    <3>1. n \in 0..Len(s) /\ q[n] \in Seq(T) /\ n + 1 \in 0..Len(s) /\ s[n + 1] \in T
      BY <1>1, <2>2
    <3>2. q[n + 1] = IF n + 1 \in chosen THEN Append(q[n], s[n + 1]) ELSE q[n]
      BY <1>10, <2>2, <3>1
    <3>3. q[n + 1] \in Seq(T)
      BY <3>1, <3>2
    <3> QED
      BY <3>1, <3>3
  <2> HIDE DEF S
  <2>3. S = 0..Len(s)
    BY <1>1, <2>1, <2>2, UpTo
  <2> QED
    BY <2>3 DEF S
<1>12. q \in [0..Len(s) -> Seq(T)]
  <2>1. q = [n \in 0..Len(s) |-> q[n]]
    BY <1>7
  <2> QED
    BY <1>11, <2>1
<1> QED
  BY <1>8, <1>9, <1>10, <1>12 DEF Picks

\* What the recursion says, one position after the other.
LEMMA PickStep ==
    ASSUME NEW T, NEW s \in Seq(T), NEW chosen, NEW p, Picks(p, T, s, chosen)
    PROVE  /\ p[0] = <<>>
           /\ \A n \in 0..Len(s) : n < Len(s) =>
                 /\ n + 1 \in 1..Len(s) /\ s[n + 1] \in T
                 /\ p[n + 1] = IF n + 1 \in chosen THEN Append(p[n], s[n + 1]) ELSE p[n]
           /\ \A n \in 0..Len(s) : p[n] \in Seq(T)
<1>1. Len(s) \in Nat
  OBVIOUS
<1>2. \A n \in 0..Len(s) : n < Len(s) => n + 1 \in 1..Len(s)
  BY <1>1
<1>3. \A i \in 1..Len(s) : s[i] \in T
  OBVIOUS
<1> QED
  BY <1>2, <1>3 DEF Picks

\* pos numbers the positions of A in their order
Orders(pos, m, A) ==
    /\ pos \in [1..m -> A]
    /\ \A j, k \in 1..m : j < k => pos[j] < pos[k]
    /\ \A i \in A : \E k \in 1..m : pos[k] = i

\* Pick gives the elements at the chosen positions, all of them, once and in order.
LEMMA PickPositions ==
    ASSUME NEW T, NEW s \in Seq(T), NEW chosen \in SUBSET (DOMAIN s)
    PROVE  /\ Pick(s, chosen) \in Seq(T)
           /\ \E pos : /\ Orders(pos, Len(Pick(s, chosen)), chosen)
                       /\ \A k \in 1..Len(Pick(s, chosen)) : Pick(s, chosen)[k] = s[pos[k]]
<1>0. Len(s) \in Nat /\ DOMAIN s = 1..Len(s)
  OBVIOUS
<1>1. PICK p : Picks(p, T, s, chosen) /\ Pick(s, chosen) = p[Len(s)]
  BY <1>0, PickUnfolds
<1> DEFINE upTo(n) == chosen \cap (1..n)
           Good(n) == \E pos : /\ Orders(pos, Len(p[n]), upTo(n))
                               /\ \A k \in 1..Len(p[n]) : p[n][k] = s[pos[k]]
           S == {n \in 0..Len(s) : Good(n)}
<1>2. 0 \in S
  <2>1. p[0] = <<>>
    BY <1>1, PickStep
  <2>2. Orders(<<>>, 0, {})
    BY DEF Orders
  <2> QED
    BY <1>0, <2>1, <2>2
<1>3. ASSUME NEW n \in S, n < Len(s) PROVE n + 1 \in S
  <2>1. PICK pos : /\ Orders(pos, Len(p[n]), upTo(n))
                   /\ \A k \in 1..Len(p[n]) : p[n][k] = s[pos[k]]
    OBVIOUS
  <2>2. /\ n \in Nat /\ n + 1 \in 1..Len(s) /\ p[n] \in Seq(T) /\ s[n + 1] \in T
        /\ p[n + 1] = IF n + 1 \in chosen THEN Append(p[n], s[n + 1]) ELSE p[n]
    BY <1>0, <1>1, <1>3, PickStep
  <2>3. CASE n + 1 \notin chosen
    <3>1. p[n + 1] = p[n] /\ upTo(n + 1) = upTo(n)
      BY <2>2, <2>3
    <3> HIDE DEF upTo
    <3>2. Good(n + 1)
      BY <2>1, <3>1
    <3> HIDE DEF Good
    <3> QED
      BY <2>2, <3>2
  <2>4. CASE n + 1 \in chosen
    <3> DEFINE m == Len(p[n])
               ext == [k \in 1..(m + 1) |-> IF k = m + 1 THEN n + 1 ELSE pos[k]]
    <3>1. /\ m \in Nat /\ p[n + 1] = Append(p[n], s[n + 1]) /\ Len(p[n + 1]) = m + 1
          /\ \A k \in 1..m : p[n + 1][k] = p[n][k]
          /\ p[n + 1][m + 1] = s[n + 1]
      BY <2>2, <2>4
    <3> HIDE DEF m
    <3>2. /\ \A k \in 1..m : ext[k] = pos[k] /\ k \in 1..(m + 1)
          /\ ext[m + 1] = n + 1 /\ m + 1 \in 1..(m + 1)
          /\ \A k \in 1..(m + 1) : k \in 1..m \/ k = m + 1
      BY <3>1
    <3>3. \A k \in 1..m : pos[k] \in chosen /\ pos[k] \in 1..n
      BY <2>1 DEF Orders, m
    <3>4. ext \in [1..(m + 1) -> upTo(n + 1)]
      BY <2>2, <2>4, <3>1, <3>3
    <3> HIDE DEF ext
    <3>5. ASSUME NEW j \in 1..(m + 1), NEW k \in 1..(m + 1), j < k PROVE ext[j] < ext[k]
      <4>1. j \in 1..m /\ ext[j] = pos[j] /\ pos[j] \in 1..n
        BY <3>1, <3>2, <3>3, <3>5
      <4>2. CASE k = m + 1
        BY <2>2, <3>2, <4>1, <4>2
      <4>3. CASE k \in 1..m
        BY <2>1, <3>2, <3>5, <4>1, <4>3 DEF Orders, m
      <4> QED
        BY <3>2, <4>2, <4>3
    <3>6. \A i \in upTo(n + 1) : \E k \in 1..(m + 1) : ext[k] = i
      <4> SUFFICES ASSUME NEW i \in upTo(n + 1) PROVE \E k \in 1..(m + 1) : ext[k] = i
        OBVIOUS
      <4>1. CASE i = n + 1
        BY <3>2, <4>1
      <4>2. CASE i # n + 1
        <5>1. i \in upTo(n)
          BY <2>2, <4>2
        <5>2. PICK k \in 1..m : pos[k] = i
          BY <2>1, <5>1 DEF Orders, m
        <5> QED
          BY <3>2, <5>2
      <4> QED
        BY <4>1, <4>2
    <3>7. Orders(ext, Len(p[n + 1]), upTo(n + 1))
      BY <3>1, <3>4, <3>5, <3>6 DEF Orders
    <3>8. \A k \in 1..Len(p[n + 1]) : p[n + 1][k] = s[ext[k]]
      BY <2>1, <3>1, <3>2 DEF m
    <3>9. Good(n + 1)
      BY <3>7, <3>8
    <3> HIDE DEF Good
    <3> QED
      BY <2>2, <3>9
  <2> QED
    BY <2>3, <2>4
<1>4. S \in SUBSET (0..Len(s))
  OBVIOUS
<1> HIDE DEF S
<1>5. S = 0..Len(s)
  BY <1>0, <1>2, <1>3, <1>4, UpTo
<1>6. Good(Len(s)) /\ upTo(Len(s)) = chosen
  <2>1. upTo(Len(s)) = chosen /\ Len(s) \in S
    BY <1>0, <1>5
  <2> HIDE DEF Good
  <2>2. Good(Len(s))
    BY <2>1 DEF S
  <2> QED
    BY <2>1, <2>2
<1>7. p[Len(s)] \in Seq(T)
  BY <1>0, <1>1, PickStep
<1> QED
  BY <1>1, <1>6, <1>7

\* More positions give a longer sequence.
LEMMA PickMore ==
    ASSUME NEW T, NEW s \in Seq(T), NEW B \in SUBSET (DOMAIN s), NEW A \in SUBSET B
    PROVE  /\ Len(Pick(s, A)) <= Len(Pick(s, B))
           /\ Len(Pick(s, A)) = Len(Pick(s, B)) => A = B
<1>0. Len(s) \in Nat /\ DOMAIN s = 1..Len(s)
  OBVIOUS
<1>1. PICK p : Picks(p, T, s, A) /\ Pick(s, A) = p[Len(s)]
  BY <1>0, PickUnfolds
<1>2. PICK q : Picks(q, T, s, B) /\ Pick(s, B) = q[Len(s)]
  BY <1>0, PickUnfolds
<1> DEFINE S == {n \in 0..Len(s) :
                    /\ Len(p[n]) <= Len(q[n])
                    /\ Len(p[n]) = Len(q[n]) => A \cap (1..n) = B \cap (1..n)}
<1>3. 0 \in S
  <2>1. p[0] = <<>> /\ q[0] = <<>>
    BY <1>1, <1>2, PickStep
  <2> QED
    BY <1>0, <2>1
<1>4. ASSUME NEW n \in S, n < Len(s) PROVE n + 1 \in S
  <2>1. /\ n \in Nat /\ n + 1 \in 1..Len(s) /\ p[n] \in Seq(T) /\ q[n] \in Seq(T) /\ s[n + 1] \in T
        /\ p[n + 1] = IF n + 1 \in A THEN Append(p[n], s[n + 1]) ELSE p[n]
        /\ q[n + 1] = IF n + 1 \in B THEN Append(q[n], s[n + 1]) ELSE q[n]
    BY <1>0, <1>1, <1>2, <1>4, PickStep
  <2>2. /\ Len(p[n]) \in Nat /\ Len(q[n]) \in Nat
        /\ Len(p[n + 1]) = IF n + 1 \in A THEN Len(p[n]) + 1 ELSE Len(p[n])
        /\ Len(q[n + 1]) = IF n + 1 \in B THEN Len(q[n]) + 1 ELSE Len(q[n])
    BY <2>1
  <2>3. 1..(n + 1) = (1..n) \cup {n + 1}
    BY <2>1
  <2>4. Len(p[n + 1]) <= Len(q[n + 1])
    BY <2>2
  <2>5. ASSUME Len(p[n + 1]) = Len(q[n + 1]) PROVE A \cap (1..(n + 1)) = B \cap (1..(n + 1))
    <3>1. Len(p[n]) = Len(q[n]) /\ (n + 1 \in A <=> n + 1 \in B)
      BY <2>2, <2>5
    <3> QED
      BY <2>3, <3>1
  <2>6. n + 1 \in 0..Len(s)
    BY <2>1
  <2> QED
    BY <2>4, <2>5, <2>6
<1>5. S \in SUBSET (0..Len(s))
  OBVIOUS
<1> HIDE DEF S
<1>6. Len(s) \in S
  BY <1>0, <1>3, <1>4, <1>5, UpTo
<1> QED
  BY <1>0, <1>1, <1>2, <1>6 DEF S

\* Positions that all come before others are picked before them.
LEMMA PickSplit ==
    ASSUME NEW T, NEW s \in Seq(T), NEW A \in SUBSET (DOMAIN s), NEW B \in SUBSET (DOMAIN s),
           \A i \in A, j \in B : i < j
    PROVE  Pick(s, A \cup B) = Pick(s, A) \o Pick(s, B)
<1>0. Len(s) \in Nat /\ DOMAIN s = 1..Len(s)
  OBVIOUS
<1>1. PICK p : Picks(p, T, s, A) /\ Pick(s, A) = p[Len(s)]
  BY PickUnfolds
<1>2. PICK q : Picks(q, T, s, B) /\ Pick(s, B) = q[Len(s)]
  BY PickUnfolds
<1>3. PICK r : Picks(r, T, s, A \cup B) /\ Pick(s, A \cup B) = r[Len(s)]
  BY PickUnfolds
<1> DEFINE S == {n \in 0..Len(s) : /\ r[n] = p[n] \o q[n]
                                   /\ B \cap (1..n) = {} => q[n] = <<>>}
<1>4. 0 \in S
  <2>1. p[0] = <<>> /\ q[0] = <<>> /\ r[0] = <<>>
    BY <1>1, <1>2, <1>3, PickStep
  <2>2. 0 \in 0..Len(s) /\ <<>> \o <<>> = <<>>
    BY <1>0
  <2> QED
    BY <2>1, <2>2
<1>5. ASSUME NEW n \in S, n < Len(s) PROVE n + 1 \in S
  <2>1. /\ n \in 0..Len(s) /\ n \in Nat /\ n + 1 \in 1..Len(s) /\ s[n + 1] \in T
        /\ p[n] \in Seq(T) /\ q[n] \in Seq(T)
        /\ p[n + 1] = IF n + 1 \in A THEN Append(p[n], s[n + 1]) ELSE p[n]
        /\ q[n + 1] = IF n + 1 \in B THEN Append(q[n], s[n + 1]) ELSE q[n]
    BY <1>0, <1>1, <1>2, <1>5, PickStep
  <2>2. r[n + 1] = IF n + 1 \in A \cup B THEN Append(r[n], s[n + 1]) ELSE r[n]
    BY <1>3, <1>5, <2>1, PickStep
  <2>3. r[n] = p[n] \o q[n] /\ (B \cap (1..n) = {} => q[n] = <<>>)
    OBVIOUS
  <2>4. B \cap (1..(n + 1)) = {} => q[n + 1] = <<>>
    BY <2>1, <2>3
  <2>5. r[n + 1] = p[n + 1] \o q[n + 1]
    <3>1. CASE n + 1 \in A
      <4>1. n + 1 \notin B /\ B \cap (1..n) = {}
        BY <1>0, <2>1, <3>1
      <4>2. q[n] = <<>> /\ q[n + 1] = <<>> /\ p[n + 1] = Append(p[n], s[n + 1])
            /\ r[n + 1] = Append(p[n] \o q[n], s[n + 1])
        BY <2>1, <2>2, <2>3, <3>1, <4>1
      <4>3. <<>> \in Seq(T) /\ Append(p[n], s[n + 1]) \in Seq(T)
        BY <2>1
      <4>4. p[n] \o <<>> = p[n] /\ Append(p[n], s[n + 1]) \o <<>> = Append(p[n], s[n + 1])
        BY <2>1, <4>3
      <4> QED
        BY <4>2, <4>4
    <3>2. CASE n + 1 \notin A /\ n + 1 \in B
      <4>1. /\ p[n + 1] = p[n] /\ q[n + 1] = Append(q[n], s[n + 1])
            /\ r[n + 1] = Append(p[n] \o q[n], s[n + 1])
        BY <2>1, <2>2, <2>3, <3>2
      <4>2. Append(p[n] \o q[n], s[n + 1]) = p[n] \o Append(q[n], s[n + 1])
        <5> DEFINE u == p[n]
                   v == q[n]
                   x == s[n + 1]
        <5>1. u \in Seq(T) /\ v \in Seq(T) /\ x \in T
          BY <2>1
        <5> HIDE DEF u, v, x
        <5>2. /\ Append(u \o v, x) \in Seq(T) /\ u \o Append(v, x) \in Seq(T)
              /\ Len(Append(u \o v, x)) = Len(u \o Append(v, x))
          BY <5>1
        <5>3. ASSUME NEW k \in 1..Len(u \o Append(v, x))
              PROVE  Append(u \o v, x)[k] = (u \o Append(v, x))[k]
          <6>1. /\ Len(u) \in Nat /\ Len(v) \in Nat /\ k \in 1..(Len(u) + Len(v) + 1)
                /\ u \o v \in Seq(T) /\ Len(u \o v) = Len(u) + Len(v)
                /\ Append(v, x) \in Seq(T) /\ Len(Append(v, x)) = Len(v) + 1
            BY <5>1
          <6>2. CASE k \in 1..Len(u)
            <7>1. Append(u \o v, x)[k] = (u \o v)[k] /\ (u \o v)[k] = u[k]
              BY <5>1, <6>1, <6>2
            <7>2. (u \o Append(v, x))[k] = u[k]
              BY <5>1, <6>1, <6>2
            <7> QED
              BY <7>1, <7>2
          <6>3. CASE k \in (Len(u) + 1)..(Len(u) + Len(v))
            <7>1. Append(u \o v, x)[k] = (u \o v)[k] /\ (u \o v)[k] = v[k - Len(u)]
              BY <5>1, <6>1, <6>3
            <7>2. (u \o Append(v, x))[k] = Append(v, x)[k - Len(u)]
              BY <5>1, <6>1, <6>3
            <7>3. Append(v, x)[k - Len(u)] = v[k - Len(u)]
              BY <5>1, <6>1, <6>3
            <7> QED
              BY <7>1, <7>2, <7>3
          <6>4. CASE k = Len(u) + Len(v) + 1
            <7>1. Append(u \o v, x)[k] = x
              BY <5>1, <6>1, <6>4
            <7>2. (u \o Append(v, x))[k] = Append(v, x)[Len(v) + 1]
              BY <5>1, <6>1, <6>4
            <7> QED
              BY <5>1, <6>1, <7>1, <7>2
          <6>5. k \in 1..Len(u) \/ k \in (Len(u) + 1)..(Len(u) + Len(v)) \/ k = Len(u) + Len(v) + 1
            <7> DEFINE i == Len(u)
                       j == Len(v)
            <7>1. i \in Nat /\ j \in Nat /\ k \in 1..(i + j + 1)
              BY <6>1
            <7> HIDE DEF i, j
            <7>2. k \in 1..i \/ k \in (i + 1)..(i + j) \/ k = i + j + 1
              BY <7>1
            <7> QED
              BY <7>2 DEF i, j
          <6> QED
            BY <6>2, <6>3, <6>4, <6>5
        <5>4. Append(u \o v, x) = u \o Append(v, x)
          <6> DEFINE l == Append(u \o v, x)
                     m == u \o Append(v, x)
          <6>1. l \in Seq(T) /\ m \in Seq(T) /\ Len(l) = Len(m) /\ \A k \in 1..Len(m) : l[k] = m[k]
            BY <5>2, <5>3
          <6> HIDE DEF l, m
          <6>2. l = m
            BY <6>1
          <6> QED
            BY <6>2 DEF l, m
        <5> QED
          BY <5>4 DEF u, v, x
      <4> QED
        BY <4>1, <4>2
    <3>3. CASE n + 1 \notin A /\ n + 1 \notin B
      BY <2>1, <2>2, <2>3, <3>3
    <3> QED
      BY <3>1, <3>2, <3>3
  <2>6. n + 1 \in 0..Len(s)
    BY <2>1
  <2> QED
    BY <2>4, <2>5, <2>6
<1>6. S \in SUBSET (0..Len(s))
  OBVIOUS
<1> HIDE DEF S
<1>7. Len(s) \in S
  BY <1>0, <1>4, <1>5, <1>6, UpTo
<1> QED
  BY <1>1, <1>2, <1>3, <1>7 DEF S

\* Positions without a gap give a part of the sequence as it is.
LEMMA PickRun ==
    ASSUME NEW T, NEW s \in Seq(T), NEW a \in Nat, NEW b \in Nat, a <= b, b <= Len(s)
    PROVE  /\ Pick(s, (a + 1)..b) \in Seq(T)
           /\ Len(Pick(s, (a + 1)..b)) = b - a
           /\ \A k \in 1..(b - a) : Pick(s, (a + 1)..b)[k] = s[a + k]
<1>0. Len(s) \in Nat
  OBVIOUS
<1>1. PICK p : Picks(p, T, s, (a + 1)..b) /\ Pick(s, (a + 1)..b) = p[Len(s)]
  BY PickUnfolds
<1> DEFINE long(n) == IF n <= a THEN 0 ELSE IF n <= b THEN n - a ELSE b - a
           S == {n \in 0..Len(s) : /\ Len(p[n]) = long(n)
                                   /\ \A k \in 1..long(n) : p[n][k] = s[a + k]}
<1>2. 0 \in S
  <2>1. p[0] = <<>> /\ long(0) = 0 /\ 0 \in 0..Len(s)
    BY <1>0, <1>1, PickStep
  <2> QED
    BY <2>1
<1>3. ASSUME NEW n \in S, n < Len(s) PROVE n + 1 \in S
  <2>1. /\ n \in Nat /\ n + 1 \in 0..Len(s) /\ p[n] \in Seq(T) /\ s[n + 1] \in T
        /\ p[n + 1] = IF n + 1 \in (a + 1)..b THEN Append(p[n], s[n + 1]) ELSE p[n]
    BY <1>0, <1>1, <1>3, PickStep
  <2>2. Len(p[n]) = long(n) /\ \A k \in 1..long(n) : p[n][k] = s[a + k]
    OBVIOUS
  <2>3. CASE n + 1 \in (a + 1)..b
    <3>1. long(n) = n - a /\ long(n + 1) = n - a + 1 /\ n - a \in Nat
      BY <2>1, <2>3
    <3>2. p[n + 1] = Append(p[n], s[n + 1]) /\ Len(p[n]) = n - a
      BY <2>1, <2>2, <2>3, <3>1
    <3>3. /\ Len(p[n + 1]) = n - a + 1
          /\ \A k \in 1..(n - a) : p[n + 1][k] = p[n][k]
          /\ p[n + 1][n - a + 1] = s[n + 1]
      <4> DEFINE x == s[n + 1]
                 t == p[n]
      <4>1. t \in Seq(T) /\ x \in T /\ Len(t) = n - a /\ p[n + 1] = Append(t, x)
        BY <2>1, <3>2
      <4> HIDE DEF x, t
      <4>2. /\ Len(Append(t, x)) = Len(t) + 1
            /\ \A k \in 1..Len(t) : Append(t, x)[k] = t[k]
            /\ Append(t, x)[Len(t) + 1] = x
        BY <4>1
      <4> QED
        BY <4>1, <4>2 DEF x, t
    <3>4. \A k \in 1..(n - a + 1) : k \in 1..(n - a) \/ (k = n - a + 1 /\ a + k = n + 1)
      BY <2>1, <3>1
    <3>5. \A k \in 1..(n - a + 1) : p[n + 1][k] = s[a + k]
      BY <2>2, <3>1, <3>3, <3>4
    <3> QED
      BY <2>1, <3>1, <3>3, <3>5
  <2>4. CASE n + 1 \notin (a + 1)..b
    <3>1. p[n + 1] = p[n] /\ long(n + 1) = long(n)
      BY <2>1, <2>4
    <3> HIDE DEF long
    <3> QED
      BY <2>1, <2>2, <3>1
  <2> QED
    BY <2>3, <2>4
<1>4. S \in SUBSET (0..Len(s))
  OBVIOUS
<1> HIDE DEF S
<1>5. Len(s) \in S
  BY <1>0, <1>2, <1>3, <1>4, UpTo
<1>6. long(Len(s)) = b - a
  BY <1>0
<1>7. p[Len(s)] \in Seq(T)
  BY <1>0, <1>1, PickStep
<1> QED
  BY <1>1, <1>5, <1>6, <1>7 DEF S

------------------------------------------------------------------------------
(* What FlattenSeq and Total compute *)

\* FlattenSeq appends the sequences one after the other.
LEMMA FlattenUnfolds ==
    ASSUME NEW T, NEW ss \in Seq(Seq(T)), ss # <<>>
    PROVE  \E f : /\ f \in [1..Len(ss) -> Seq(T)]
                  /\ f[1] = ss[1]
                  /\ \A n \in 1..Len(ss) : n < Len(ss) => f[n + 1] = f[n] \o ss[n + 1]
                  /\ FlattenSeq(ss) = f[Len(ss)]
<1> DEFINE Next1(v, i) == IF i = 1 THEN ss[i] ELSE v \o ss[i]
           step == [z \in Seq(T) \X (1..Len(ss)) |-> Next1(z[1], z[2])]
           Solves(f) == f = [i \in 1..Len(ss) |-> IF i = 1 THEN ss[i] ELSE f[i - 1] \o ss[i]]
<1>1. Len(ss) \in Nat \ {0} /\ <<>> \in Seq(T) /\ 1 \in 1..Len(ss)
  OBVIOUS
<1>2. \A i \in 1..Len(ss) : ss[i] \in Seq(T)
  OBVIOUS
<1>3. \A v \in Seq(T), i \in 1..Len(ss) : Next1(v, i) \in Seq(T)
  BY <1>2
<1>4. step \in [Seq(T) \X (1..Len(ss)) -> Seq(T)]
      /\ \A v \in Seq(T), i \in 1..Len(ss) : step[<<v, i>>] = Next1(v, i)
  <2> HIDE DEF Next1
  <2> QED
    BY <1>3
<1> HIDE DEF step
<1>5. Iterable(Len(ss), Seq(T), <<>>, step)
  BY <1>1, <1>4, Iterates
<1>6. \E f : Solves(f)
  <2>1. PICK p \in [0..Len(ss) -> Seq(T)] : \A i \in 1..Len(ss) : p[i] = step[<<p[i - 1], i>>]
    BY <1>5 DEF Iterable
  <2> DEFINE f == [i \in 1..Len(ss) |-> p[i]]
  <2>2. ASSUME NEW i \in 1..Len(ss) PROVE f[i] = IF i = 1 THEN ss[i] ELSE f[i - 1] \o ss[i]
    <3>1. i - 1 \in 0..Len(ss) /\ (i # 1 => i - 1 \in 1..Len(ss))
      BY <1>1
    <3>2. f[i] = Next1(p[i - 1], i)
      BY <1>4, <2>1, <3>1
    <3> QED
      BY <3>1, <3>2
  <2>3. f = [i \in 1..Len(ss) |-> f[i]]
    OBVIOUS
  <2> HIDE DEF f
  <2>4. Solves(f)
    BY <2>2, <2>3
  <2> QED
    BY <2>4
<1> DEFINE q == CHOOSE f : Solves(f)
<1>7. Solves(q)
  BY <1>6
<1>8. FlattenSeq(ss) = q[Len(ss)]
  <2>1. Len(ss) # 0
    BY <1>1
  <2> QED
    BY <2>1, Zenon DEF FlattenSeq
<1> HIDE DEF q
<1>9. q[1] = ss[1]
  BY <1>1, <1>7
<1>10. ASSUME NEW n \in 1..Len(ss), n < Len(ss) PROVE q[n + 1] = q[n] \o ss[n + 1]
  <2>1. n + 1 \in 1..Len(ss) /\ n + 1 # 1 /\ (n + 1) - 1 = n
    BY <1>1, <1>10
  <2>2. q[n + 1] = q[(n + 1) - 1] \o ss[n + 1]
    BY <1>7, <2>1
  <2> QED
    BY <2>1, <2>2
<1> DEFINE S == {n \in 0..Len(ss) : n = 0 \/ q[n] \in Seq(T)}
<1>11. S = 0..Len(ss)
  <2>1. 0 \in S /\ S \in SUBSET (0..Len(ss))
    BY <1>1
  <2>2. ASSUME NEW n \in S, n < Len(ss) PROVE n + 1 \in S
    <3>1. n + 1 \in 1..Len(ss) /\ n + 1 \in 0..Len(ss)
      BY <1>1, <2>2
    <3>2. CASE n = 0
      BY <1>1, <1>2, <1>9, <3>1, <3>2
    <3>3. CASE n # 0
      <4>1. n \in 1..Len(ss) /\ q[n] \in Seq(T)
        BY <1>1, <3>3
      <4>2. q[n + 1] = q[n] \o ss[n + 1] /\ ss[n + 1] \in Seq(T)
        BY <1>2, <1>10, <2>2, <3>1, <4>1
      <4>3. q[n + 1] \in Seq(T)
        BY <4>1, <4>2
      <4> QED
        BY <3>1, <4>3
    <3> QED
      BY <3>2, <3>3
  <2> HIDE DEF S
  <2> QED
    BY <1>1, <2>1, <2>2, UpTo
<1>12. q \in [1..Len(ss) -> Seq(T)]
  <2>1. ASSUME NEW n \in 1..Len(ss) PROVE q[n] \in Seq(T)
    <3>1. n \in 0..Len(ss) /\ n # 0
      BY <1>1
    <3>2. n \in S
      BY <1>11, <3>1
    <3> QED
      BY <3>1, <3>2
  <2>2. q = [n \in 1..Len(ss) |-> q[n]]
    BY <1>7
  <2> QED
    BY <2>1, <2>2
<1> QED
  BY <1>8, <1>9, <1>10, <1>12

Sums(f, s) ==
    /\ f \in [0..Len(s) -> Int]
    /\ f[0] = 0
    /\ \A n \in 0..Len(s) : n < Len(s) => f[n + 1] = f[n] + s[n + 1]

\* Total adds up the prefixes.
LEMMA TotalUnfolds ==
    ASSUME NEW s \in Seq(Int)
    PROVE  \E f : Sums(f, s) /\ Total(s) = f[Len(s)]
<1> DEFINE step == [z \in Int \X (1..Len(s)) |-> z[1] + s[z[2]]]
           Solves(f) == f = [n \in 0..Len(s) |-> IF n = 0 THEN 0 ELSE f[n - 1] + s[n]]
<1>1. Len(s) \in Nat /\ 0 \in Int /\ \A i \in 1..Len(s) : s[i] \in Int
  OBVIOUS
<1>2. /\ step \in [Int \X (1..Len(s)) -> Int]
      /\ \A v \in Int, i \in 1..Len(s) : step[<<v, i>>] = v + s[i]
  BY <1>1
<1> HIDE DEF step
<1>3. Iterable(Len(s), Int, 0, step)
  BY <1>1, <1>2, Iterates
<1>4. \E f : Solves(f)
  <2>1. PICK p \in [0..Len(s) -> Int] :
           p[0] = 0 /\ \A i \in 1..Len(s) : p[i] = step[<<p[i - 1], i>>]
    BY <1>3 DEF Iterable
  <2>2. ASSUME NEW n \in 0..Len(s) PROVE p[n] = IF n = 0 THEN 0 ELSE p[n - 1] + s[n]
    <3>1. CASE n = 0
      BY <2>1, <3>1
    <3>2. CASE n # 0
      <4>1. n \in 1..Len(s) /\ n - 1 \in 0..Len(s)
        BY <1>1, <3>2
      <4>2. p[n - 1] \in Int /\ p[n] = step[<<p[n - 1], n>>]
        BY <2>1, <4>1
      <4>3. p[n] = p[n - 1] + s[n]
        BY <1>2, <4>1, <4>2
      <4> QED
        BY <3>2, <4>3
    <3> QED
      BY <3>1, <3>2
  <2>3. p = [n \in 0..Len(s) |-> p[n]]
    BY <2>1
  <2> QED
    BY <2>2, <2>3
<1> DEFINE q == CHOOSE f : Solves(f)
<1>5. Solves(q)
  BY <1>4
<1>6. Total(s) = q[Len(s)]
  BY Zenon DEF Total
<1> HIDE DEF q
<1>7. q[0] = 0
  BY <1>1, <1>5
<1>8. ASSUME NEW n \in 0..Len(s), n < Len(s) PROVE q[n + 1] = q[n] + s[n + 1]
  <2>1. n + 1 \in 0..Len(s) /\ n + 1 # 0 /\ (n + 1) - 1 = n
    BY <1>1, <1>8
  <2>2. q[n + 1] = q[(n + 1) - 1] + s[n + 1]
    BY <1>5, <2>1
  <2> QED
    BY <2>1, <2>2
<1> DEFINE S == {n \in 0..Len(s) : q[n] \in Int}
<1>9. S = 0..Len(s)
  <2>1. 0 \in S /\ S \in SUBSET (0..Len(s))
    BY <1>1, <1>7
  <2>2. ASSUME NEW n \in S, n < Len(s) PROVE n + 1 \in S
    <3>1. n + 1 \in 0..Len(s) /\ s[n + 1] \in Int /\ q[n] \in Int
      BY <1>1, <2>2
    <3> QED
      BY <1>8, <2>2, <3>1
  <2> HIDE DEF S
  <2> QED
    BY <1>1, <2>1, <2>2, UpTo
<1>10. q \in [0..Len(s) -> Int]
  <2>1. q = [n \in 0..Len(s) |-> q[n]]
    BY <1>5
  <2> QED
    BY <1>9, <2>1
<1> QED
  BY <1>6, <1>7, <1>8, <1>10 DEF Sums

\* Total of one element more.
LEMMA TotalAppend ==
    ASSUME NEW s \in Seq(Int), NEW x \in Int
    PROVE  Total(s) \in Int /\ Total(Append(s, x)) = Total(s) + x
<1> DEFINE t == Append(s, x)
<1>1. /\ Len(s) \in Nat /\ t \in Seq(Int) /\ Len(t) = Len(s) + 1 /\ t[Len(s) + 1] = x
      /\ \A i \in 1..Len(s) : t[i] = s[i]
  OBVIOUS
<1> HIDE DEF t
<1>2. PICK f : Sums(f, s) /\ Total(s) = f[Len(s)]
  BY TotalUnfolds
<1>3. PICK g : Sums(g, t) /\ Total(t) = g[Len(t)]
  BY <1>1, TotalUnfolds
<1> DEFINE S == {n \in 0..Len(s) : f[n] = g[n]}
<1>4. 0 \in S /\ S \in SUBSET (0..Len(s))
  BY <1>1, <1>2, <1>3 DEF Sums
<1>5. ASSUME NEW n \in S, n < Len(s) PROVE n + 1 \in S
  <2>1. n \in 0..Len(s) /\ n \in 0..Len(t) /\ n < Len(t) /\ n + 1 \in 1..Len(s) /\ n + 1 \in 0..Len(s)
    BY <1>1, <1>5
  <2>2. f[n + 1] = f[n] + s[n + 1] /\ g[n + 1] = g[n] + t[n + 1]
    BY <1>2, <1>3, <1>5, <2>1 DEF Sums
  <2> QED
    BY <1>1, <2>1, <2>2
<1> HIDE DEF S
<1>6. Len(s) \in S
  BY <1>1, <1>4, <1>5, UpTo
<1>7. Len(s) \in 0..Len(t) /\ Len(s) < Len(t) /\ Len(s) \in 0..Len(s)
  BY <1>1
<1>8. g[Len(s) + 1] = g[Len(s)] + t[Len(s) + 1] /\ f[Len(s)] \in Int
  BY <1>2, <1>3, <1>7 DEF Sums
<1>9. f[Len(s)] = g[Len(s)]
  BY <1>6 DEF S
<1> QED
  BY <1>1, <1>2, <1>3, <1>8, <1>9 DEF t

\* The fields of operations, one by one.
LEMMA FieldTypes ==
    ASSUME NEW s \in Seq(Operations)
    PROVE  /\ Amounts(s) \in Seq(Int) /\ Len(Amounts(s)) = Len(s)
           /\ AccountsOf(s) \in Seq(Accounts) /\ Len(AccountsOf(s)) = Len(s)
           /\ CoinsOf(s) \in Seq(Coins \cup {NoCoin}) /\ Len(CoinsOf(s)) = Len(s)
           /\ \A n \in 1..Len(s) : /\ Amounts(s)[n] = s[n].amount
                                   /\ AccountsOf(s)[n] = s[n].account
                                   /\ CoinsOf(s)[n] = s[n].coin
<1>1. /\ Amounts(s) = [n \in 1..Len(s) |-> s[n].amount]
      /\ AccountsOf(s) = [n \in 1..Len(s) |-> s[n].account]
      /\ CoinsOf(s) = [n \in 1..Len(s) |-> s[n].coin]
  BY DEF Amounts, AccountsOf, CoinsOf, Field
<1>2. /\ Len(s) \in Nat
      /\ \A n \in 1..Len(s) : s[n].amount \in Int /\ s[n].account \in Accounts
                               /\ s[n].coin \in Coins \cup {NoCoin}
  <2>1. \A n \in 1..Len(s) : s[n] \in Operations
    OBVIOUS
  <2>2. \A op \in Operations : op.amount \in Int /\ op.account \in Accounts
                                /\ op.coin \in Coins \cup {NoCoin}
    BY DEF Operations
  <2> QED
    BY <2>1, <2>2
<1>3. Amounts(s) \in Seq(Int) /\ Len(Amounts(s)) = Len(s)
  BY <1>1, <1>2
<1>4. AccountsOf(s) \in Seq(Accounts) /\ Len(AccountsOf(s)) = Len(s)
  BY <1>1, <1>2
<1>5. CoinsOf(s) \in Seq(Coins \cup {NoCoin}) /\ Len(CoinsOf(s)) = Len(s)
  BY <1>1, <1>2
<1> QED
  BY <1>1, <1>3, <1>4, <1>5

\* The amounts of some positions and of the others add up to all amounts.
LEMMA TotalSplit ==
    ASSUME NEW s \in Seq(Operations), NEW A \in SUBSET (DOMAIN s)
    PROVE  Total(Amounts(s)) = Total(Amounts(Pick(s, A))) + Total(Amounts(Pick(s, DOMAIN s \ A)))
<1> DEFINE B == DOMAIN s \ A
<1>0. Len(s) \in Nat /\ DOMAIN s = 1..Len(s)
  OBVIOUS
<1>1. PICK p : Picks(p, Operations, s, A) /\ Pick(s, A) = p[Len(s)]
  BY PickUnfolds
<1>2. PICK q : Picks(q, Operations, s, B) /\ Pick(s, B) = q[Len(s)]
  BY PickUnfolds
<1>3. Amounts(s) \in Seq(Int) /\ Len(Amounts(s)) = Len(s) /\ \A n \in 1..Len(s) : Amounts(s)[n] = s[n].amount
  BY FieldTypes
<1>4. PICK f : Sums(f, Amounts(s)) /\ Total(Amounts(s)) = f[Len(s)]
  BY <1>3, TotalUnfolds
<1>5. Amounts(<<>>) = <<>> /\ Total(<<>>) = 0
  <2>1. Amounts(<<>>) = <<>>
    BY DEF Amounts, Field
  <2>2. <<>> \in Seq(Int) /\ Len(<<>>) = 0
    OBVIOUS
  <2>3. PICK g : Sums(g, <<>>) /\ Total(<<>>) = g[0]
    BY <2>2, TotalUnfolds
  <2> QED
    BY <2>1, <2>3 DEF Sums
<1>6. ASSUME NEW t \in Seq(Operations), NEW op \in Operations
      PROVE  /\ Total(Amounts(t)) \in Int
             /\ Total(Amounts(Append(t, op))) = Total(Amounts(t)) + op.amount
  <2>1. Amounts(t) \in Seq(Int) /\ Len(Amounts(t)) = Len(t) /\ op.amount \in Int
        /\ \A n \in 1..Len(t) : Amounts(t)[n] = t[n].amount
    BY FieldTypes DEF Operations
  <2>2. Amounts(Append(t, op)) = Append(Amounts(t), op.amount)
    <3> DEFINE u == Append(t, op)
               l == Amounts(u)
               r == Append(Amounts(t), op.amount)
    <3>1. u \in Seq(Operations) /\ Len(u) = Len(t) + 1 /\ u[Len(t) + 1] = op
          /\ \A n \in 1..Len(t) : u[n] = t[n]
      OBVIOUS
    <3> HIDE DEF u
    <3>2. l \in Seq(Int) /\ Len(l) = Len(t) + 1 /\ \A n \in 1..(Len(t) + 1) : l[n] = u[n].amount
      BY <3>1, FieldTypes
    <3>3. r \in Seq(Int) /\ Len(r) = Len(t) + 1 /\ \A n \in 1..(Len(t) + 1) : r[n] = u[n].amount
      BY <2>1, <3>1
    <3> HIDE DEF l, r
    <3>4. Len(l) = Len(r) /\ \A n \in 1..Len(l) : l[n] = r[n]
      BY <3>2, <3>3
    <3>5. l = r
      BY <3>2, <3>3, <3>4
    <3> QED
      BY <3>5 DEF l, r, u
  <2> QED
    BY <2>1, <2>2, TotalAppend
<1> DEFINE S == {n \in 0..Len(s) : f[n] = Total(Amounts(p[n])) + Total(Amounts(q[n]))}
<1>7. 0 \in S /\ S \in SUBSET (0..Len(s))
  <2>1. p[0] = <<>> /\ q[0] = <<>> /\ f[0] = 0 /\ 0 \in 0..Len(s)
    BY <1>0, <1>1, <1>2, <1>4, PickStep DEF Sums
  <2> QED
    BY <1>5, <2>1
<1>8. ASSUME NEW n \in S, n < Len(s) PROVE n + 1 \in S
  <2>1. /\ n \in 0..Len(s) /\ n + 1 \in 1..Len(s) /\ n + 1 \in 0..Len(s) /\ s[n + 1] \in Operations
        /\ p[n] \in Seq(Operations) /\ q[n] \in Seq(Operations)
        /\ p[n + 1] = IF n + 1 \in A THEN Append(p[n], s[n + 1]) ELSE p[n]
        /\ q[n + 1] = IF n + 1 \in B THEN Append(q[n], s[n + 1]) ELSE q[n]
    BY <1>0, <1>1, <1>2, <1>8, PickStep
  <2>2. f[n + 1] = f[n] + s[n + 1].amount
    BY <1>3, <1>4, <1>8, <2>1 DEF Sums
  <2>3. f[n] = Total(Amounts(p[n])) + Total(Amounts(q[n]))
    OBVIOUS
  <2>4. /\ Total(Amounts(p[n])) \in Int /\ Total(Amounts(q[n])) \in Int
        /\ Total(Amounts(Append(p[n], s[n + 1]))) = Total(Amounts(p[n])) + s[n + 1].amount
        /\ Total(Amounts(Append(q[n], s[n + 1]))) = Total(Amounts(q[n])) + s[n + 1].amount
        /\ s[n + 1].amount \in Int
    BY <1>6, <2>1 DEF Operations
  <2>5. CASE n + 1 \in A
    <3>1. p[n + 1] = Append(p[n], s[n + 1]) /\ q[n + 1] = q[n]
      BY <2>1, <2>5
    <3>2. f[n + 1] = Total(Amounts(p[n + 1])) + Total(Amounts(q[n + 1]))
      BY <2>2, <2>3, <2>4, <3>1
    <3> QED
      BY <2>1, <3>2
  <2>6. CASE n + 1 \notin A
    <3>1. n + 1 \in B
      BY <1>0, <2>1, <2>6
    <3>2. q[n + 1] = Append(q[n], s[n + 1]) /\ p[n + 1] = p[n]
      BY <2>1, <2>6, <3>1
    <3>3. f[n + 1] = Total(Amounts(p[n + 1])) + Total(Amounts(q[n + 1]))
      BY <2>2, <2>3, <2>4, <3>2
    <3> QED
      BY <2>1, <3>3
  <2> QED
    BY <2>5, <2>6
<1> HIDE DEF S
<1>9. Len(s) \in S
  BY <1>0, <1>7, <1>8, UpTo
<1> QED
  BY <1>1, <1>2, <1>4, <1>9 DEF S

------------------------------------------------------------------------------
(* The coins preprocess and metadata pass on *)

\* The coins of a list of operations after another.
LEMMA CoinsOfConcat ==
    ASSUME NEW a \in Seq(Operations), NEW b \in Seq(Operations)
    PROVE  CoinsOf(a \o b) = CoinsOf(a) \o CoinsOf(b)
<1>1. /\ CoinsOf(a \o b) \in Seq(Coins \cup {NoCoin})
      /\ CoinsOf(a) \in Seq(Coins \cup {NoCoin}) /\ CoinsOf(b) \in Seq(Coins \cup {NoCoin})
      /\ Len(CoinsOf(a \o b)) = Len(a) + Len(b) /\ Len(CoinsOf(a)) = Len(a) /\ Len(CoinsOf(b)) = Len(b)
      /\ \A k \in 1..(Len(a) + Len(b)) : CoinsOf(a \o b)[k] = (a \o b)[k].coin
      /\ \A k \in 1..Len(a) : CoinsOf(a)[k] = a[k].coin
      /\ \A k \in 1..Len(b) : CoinsOf(b)[k] = b[k].coin
  <2>1. a \o b \in Seq(Operations) /\ Len(a \o b) = Len(a) + Len(b)
    OBVIOUS
  <2> DEFINE c == a \o b
  <2> HIDE DEF c
  <2>2. CoinsOf(c) \in Seq(Coins \cup {NoCoin}) /\ Len(CoinsOf(c)) = Len(c)
        /\ \A k \in 1..Len(c) : CoinsOf(c)[k] = c[k].coin
    BY <2>1, FieldTypes DEF c
  <2> QED
    BY <2>1, <2>2, FieldTypes DEF c
<1> DEFINE l == CoinsOf(a \o b)
           r == CoinsOf(a) \o CoinsOf(b)
<1>2. l \in Seq(Coins \cup {NoCoin}) /\ r \in Seq(Coins \cup {NoCoin}) /\ Len(l) = Len(r)
  BY <1>1
<1>3. ASSUME NEW k \in 1..Len(l) PROVE l[k] = r[k]
  <2>1. Len(a) \in Nat /\ Len(b) \in Nat /\ k \in 1..(Len(a) + Len(b))
    BY <1>1
  <2>2. CASE k \in 1..Len(a)
    <3>1. (a \o b)[k] = a[k] /\ r[k] = CoinsOf(a)[k]
      BY <1>1, <2>2
    <3> QED
      BY <1>1, <2>1, <2>2, <3>1
  <2>3. CASE k \notin 1..Len(a)
    <3>1. k - Len(a) \in 1..Len(b)
      BY <2>1, <2>3
    <3>2. (a \o b)[k] = b[k - Len(a)] /\ r[k] = CoinsOf(b)[k - Len(a)]
      BY <1>1, <2>1, <2>3
    <3> QED
      BY <1>1, <2>1, <3>1, <3>2
  <2> QED
    BY <2>2, <2>3
<1> HIDE DEF l, r
<1>4. l = r
  BY <1>2, <1>3
<1> QED
  BY <1>4 DEF l, r

\* The debits of one account are not interrupted by those of another.
DebitsTogether(s) ==
    \A i, j, k \in Debits(s) :
        i < j /\ j < k /\ s[i].account = s[k].account => s[j].account = s[i].account

\* Every account with a debit is a payer, once, in the order of the first debits.
LEMMA PayersInOrder ==
    ASSUME NEW s \in Seq(Operations)
    PROVE  /\ Payers(s) \in Seq(Accounts)
           /\ \E pos : /\ Orders(pos, Len(Payers(s)), FirstDebits(s))
                       /\ \A n \in 1..Len(Payers(s)) : Payers(s)[n] = s[pos[n]].account
           /\ \A i \in Debits(s) : \E n \in 1..Len(Payers(s)) : Payers(s)[n] = s[i].account
<1>1. Debits(s) \in SUBSET (DOMAIN s) /\ FirstDebits(s) \in SUBSET (DOMAIN s) /\ Debits(s) \subseteq Nat
  BY DEF Debits, FirstDebits
<1> DEFINE picked == Pick(s, FirstDebits(s))
<1>2. /\ picked \in Seq(Operations)
      /\ \E pos : /\ Orders(pos, Len(picked), FirstDebits(s))
                  /\ \A k \in 1..Len(picked) : picked[k] = s[pos[k]]
  BY <1>1, PickPositions
<1> HIDE DEF picked
<1>3. Payers(s) = AccountsOf(picked)
  BY DEF Payers, picked
<1>4. Payers(s) \in Seq(Accounts) /\ Len(Payers(s)) = Len(picked)
      /\ \A k \in 1..Len(picked) : Payers(s)[k] = picked[k].account
  BY <1>2, <1>3, FieldTypes
<1>5. PICK pos : Orders(pos, Len(picked), FirstDebits(s)) /\ \A k \in 1..Len(picked) : picked[k] = s[pos[k]]
  BY <1>2
<1>6. ASSUME NEW i \in Debits(s) PROVE \E n \in 1..Len(Payers(s)) : Payers(s)[n] = s[i].account
  <2> DEFINE same == {j \in Debits(s) : s[j].account = s[i].account}
  <2>1. PICK first \in same : \A j \in same : ~ (<<j, first>> \in OpToRel(<, Nat))
    BY <1>1, NatLessThanWellFounded, WFMin
  <2>2. \A j \in same : ~ (j < first)
    BY <1>1, <2>1 DEF OpToRel
  <2>3. first \in FirstDebits(s)
    BY <1>1, <2>2 DEF FirstDebits
  <2>4. PICK n \in 1..Len(picked) : pos[n] = first
    BY <1>5, <2>3 DEF Orders
  <2> QED
    BY <1>4, <1>5, <2>4
<1> QED
  BY <1>4, <1>5, <1>6

\* the debits of the first n payers
DebitsUpTo(s, n) == {i \in Debits(s) : \E m \in 1..n : Payers(s)[m] = s[i].account}

\* When no account is interrupted, the debits of a payer come after those of all payers
\* before it.
LEMMA PayersInTurn ==
    ASSUME NEW s \in Seq(Operations), DebitsTogether(s), NEW n \in 1..Len(Payers(s)), n < Len(Payers(s))
    PROVE  /\ DebitsUpTo(s, n + 1) = DebitsUpTo(s, n) \cup DebitsOf(s, Payers(s)[n + 1])
           /\ \A i \in DebitsUpTo(s, n), j \in DebitsOf(s, Payers(s)[n + 1]) : i < j
<1> DEFINE N == Len(Payers(s))
<1>1. N \in Nat /\ n \in Nat /\ n + 1 \in 1..N /\ 1..(n + 1) = (1..n) \cup {n + 1}
      /\ \A m \in 1..n : m \in 1..N /\ m < n + 1
  BY PayersInOrder
<1>2. PICK pos : /\ Orders(pos, N, FirstDebits(s))
                 /\ \A m \in 1..N : Payers(s)[m] = s[pos[m]].account
  BY PayersInOrder
<1>3. DebitsUpTo(s, n + 1) = DebitsUpTo(s, n) \cup DebitsOf(s, Payers(s)[n + 1])
  BY <1>1 DEF DebitsUpTo, DebitsOf
<1> HIDE DEF N
<1>4. ASSUME NEW i \in DebitsUpTo(s, n), NEW j \in DebitsOf(s, Payers(s)[n + 1]) PROVE i < j
  <2>1. PICK m \in 1..n : Payers(s)[m] = s[i].account
    BY DEF DebitsUpTo
  <2>2. /\ i \in Debits(s) /\ j \in Debits(s) /\ s[j].account = Payers(s)[n + 1]
        /\ \A k \in Debits(s) : k \in Nat
    BY DEF DebitsUpTo, DebitsOf, Debits
  <2>3. /\ pos[m] \in FirstDebits(s) /\ pos[n + 1] \in FirstDebits(s) /\ pos[m] < pos[n + 1]
        /\ s[pos[m]].account = s[i].account /\ s[pos[n + 1]].account = s[j].account
    BY <1>1, <1>2, <2>1, <2>2 DEF Orders
  <2>4. /\ pos[m] \in Debits(s) /\ pos[n + 1] \in Debits(s) /\ pos[m] <= i /\ pos[n + 1] <= j
        /\ s[pos[n + 1]].account = s[pos[m]].account => pos[n + 1] <= pos[m]
    BY <2>2, <2>3 DEF FirstDebits
  <2>5. s[j].account # s[i].account
    BY <2>2, <2>3, <2>4
  <2>6. SUFFICES ASSUME j < i PROVE FALSE
    BY <2>2, <2>5
  <2>7. pos[m] < j
    BY <2>2, <2>3, <2>4
  <2> QED
    BY <2>2, <2>3, <2>4, <2>5, <2>6, <2>7 DEF DebitsTogether
<1> QED
  BY <1>3, <1>4

\* the relevant inputs metadata answers to the balances preprocess required
RelevantInputs(s) == FlattenSeq(Field(RequiredBalances(s), LAMBDA balance : balance.coins))

\* The lists metadata joins.
LEMMA Purses ==
    ASSUME NEW s \in Seq(Operations)
    PROVE  /\ Payers(s) \in Seq(Accounts)
           /\ \A n \in 1..Len(Payers(s)) :
                 /\ Pick(s, DebitsOf(s, Payers(s)[n])) \in Seq(Operations)
                 /\ CoinsOf(Pick(s, DebitsOf(s, Payers(s)[n]))) \in Seq(Coins \cup {NoCoin})
           /\ RequiredBalances(s) = <<>> <=> Payers(s) = <<>>
           /\ \E ss \in Seq(Seq(Coins \cup {NoCoin})) :
                 /\ Len(ss) = Len(Payers(s))
                 /\ \A n \in 1..Len(ss) : ss[n] = CoinsOf(Pick(s, DebitsOf(s, Payers(s)[n])))
                 /\ RelevantInputs(s) = FlattenSeq(ss)
<1>1. Payers(s) \in Seq(Accounts) /\ Len(Payers(s)) \in Nat /\ DOMAIN Payers(s) = 1..Len(Payers(s))
  BY PayersInOrder
<1>2. \A account : Pick(s, DebitsOf(s, account)) \in Seq(Operations)
  <2>1. \A account : DebitsOf(s, account) \in SUBSET (DOMAIN s)
    BY DEF DebitsOf, Debits
  <2> QED
    BY <2>1, PickPositions
<1>3. \A account : CoinsOf(Pick(s, DebitsOf(s, account))) \in Seq(Coins \cup {NoCoin})
  BY <1>2, FieldTypes
<1>4. RequiredBalances(s) = [n \in 1..Len(Payers(s)) |->
          [account |-> Payers(s)[n], coins |-> CoinsOf(Pick(s, DebitsOf(s, Payers(s)[n])))]]
  BY <1>1 DEF RequiredBalances
<1>5. RequiredBalances(s) = <<>> <=> Payers(s) = <<>>
  <2>1. Payers(s) = <<>> <=> Len(Payers(s)) = 0
    BY <1>1
  <2>2. Len(Payers(s)) = 0 <=> 1..Len(Payers(s)) = {}
    <3>1. ASSUME NEW m \in Nat PROVE m = 0 <=> 1..m = {}
      <4>1. m # 0 => 1 \in 1..m
        OBVIOUS
      <4>2. m = 0 => 1..m = {}
        OBVIOUS
      <4> QED
        BY <4>1, <4>2
    <3> QED
      BY <1>1, <3>1
  <2>3. RequiredBalances(s) = <<>> <=> DOMAIN RequiredBalances(s) = {}
    BY <1>4
  <2> QED
    BY <1>4, <2>1, <2>2, <2>3
<1> DEFINE ss == [n \in 1..Len(Payers(s)) |-> CoinsOf(Pick(s, DebitsOf(s, Payers(s)[n])))]
<1>6. ss \in Seq(Seq(Coins \cup {NoCoin})) /\ Len(ss) = Len(Payers(s))
  BY <1>1, <1>3
<1>7. Field(RequiredBalances(s), LAMBDA balance : balance.coins) = ss
  BY <1>4 DEF Field
<1>8. RelevantInputs(s) = FlattenSeq(ss)
  BY <1>7 DEF RelevantInputs
<1>9. \A n \in 1..Len(ss) : ss[n] = CoinsOf(Pick(s, DebitsOf(s, Payers(s)[n])))
  BY <1>6
<1> HIDE DEF ss
<1> QED
  BY <1>1, <1>2, <1>3, <1>5, <1>6, <1>8, <1>9

\* The coins that debit an account, when every debit names a coin.
LEMMA DebitCoins ==
    ASSUME NEW s \in Seq(Operations), \A i \in Debits(s) : s[i].coin \in Coins, NEW account
    PROVE  CoinsOf(Pick(s, DebitsOf(s, account))) \in Seq(Coins)
<1> DEFINE picked == Pick(s, DebitsOf(s, account))
<1>1. DebitsOf(s, account) \in SUBSET (DOMAIN s) /\ \A i \in DebitsOf(s, account) : s[i].coin \in Coins
  BY DEF DebitsOf, Debits
<1>2. picked \in Seq(Operations)
      /\ \E pos : /\ Orders(pos, Len(picked), DebitsOf(s, account))
                  /\ \A k \in 1..Len(picked) : picked[k] = s[pos[k]]
  BY <1>1, PickPositions
<1> HIDE DEF picked
<1>3. \A k \in 1..Len(picked) : picked[k].coin \in Coins
  BY <1>1, <1>2 DEF Orders
<1>4. CoinsOf(picked) \in Seq(Coins \cup {NoCoin}) /\ Len(CoinsOf(picked)) = Len(picked)
      /\ \A k \in 1..Len(picked) : CoinsOf(picked)[k] = picked[k].coin
  BY <1>2, FieldTypes
<1>5. CoinsOf(picked) \in Seq(Coins)
  BY <1>3, <1>4
<1> QED
  BY <1>5 DEF picked

\* Whatever the accounts, the relevant inputs are coins that debits name.
LEMMA RelevantCoins ==
    ASSUME NEW s \in Seq(Operations), RequiredBalances(s) # <<>>,
           \A i \in Debits(s) : s[i].coin \in Coins
    PROVE  RelevantInputs(s) \in Seq(Coins)
<1>1. PICK ss \in Seq(Seq(Coins \cup {NoCoin})) :
         /\ Len(ss) = Len(Payers(s))
         /\ \A n \in 1..Len(ss) : ss[n] = CoinsOf(Pick(s, DebitsOf(s, Payers(s)[n])))
         /\ RelevantInputs(s) = FlattenSeq(ss)
  BY Purses
<1>2. \A account : CoinsOf(Pick(s, DebitsOf(s, account))) \in Seq(Coins)
  BY DebitCoins
<1>3. ss \in Seq(Seq(Coins))
  <2>1. \A n \in 1..Len(ss) : ss[n] \in Seq(Coins)
    BY <1>1, <1>2
  <2>2. Len(ss) \in Nat /\ ss = [n \in 1..Len(ss) |-> ss[n]]
    OBVIOUS
  <2> DEFINE V == Seq(Coins)
  <2>3. \A n \in 1..Len(ss) : ss[n] \in V
    BY <2>1
  <2> HIDE DEF V
  <2>4. ss \in Seq(V)
    BY <2>2, <2>3
  <2> QED
    BY <2>4 DEF V
<1>4. ss # <<>>
  BY <1>1, Purses
<1>5. PICK f \in [1..Len(ss) -> Seq(Coins)] : FlattenSeq(ss) = f[Len(ss)]
  BY <1>3, <1>4, FlattenUnfolds
<1>6. Len(ss) \in 1..Len(ss)
  BY <1>3, <1>4
<1>7. f[Len(ss)] \in Seq(Coins)
  BY <1>5, <1>6
<1> QED
  BY <1>1, <1>5, <1>7

\* When no account is interrupted, regrouping the coins by account changes nothing.
LEMMA GroupedFlat ==
    ASSUME NEW s \in Seq(Operations), RequiredBalances(s) # <<>>, DebitsTogether(s)
    PROVE  RelevantInputs(s) = CoinsOf(Pick(s, Debits(s)))
<1> DEFINE N == Len(Payers(s))
           T == Coins \cup {NoCoin}
<1>1. PICK ss \in Seq(Seq(T)) :
         /\ Len(ss) = N
         /\ \A n \in 1..N : ss[n] = CoinsOf(Pick(s, DebitsOf(s, Payers(s)[n])))
         /\ RelevantInputs(s) = FlattenSeq(ss)
  BY Purses
<1>2. N \in Nat \ {0} /\ ss # <<>>
  BY <1>1, Purses
<1>3. PICK f : /\ f \in [1..Len(ss) -> Seq(T)]
               /\ f[1] = ss[1]
               /\ \A n \in 1..Len(ss) : n < Len(ss) => f[n + 1] = f[n] \o ss[n + 1]
               /\ FlattenSeq(ss) = f[Len(ss)]
  BY <1>2, FlattenUnfolds
<1>4. \A n \in 0..N : DebitsUpTo(s, n) \in SUBSET (DOMAIN s)
                      /\ Pick(s, DebitsUpTo(s, n)) \in Seq(Operations)
  <2>1. \A n \in 0..N : DebitsUpTo(s, n) \in SUBSET (DOMAIN s)
    BY DEF DebitsUpTo, Debits
  <2> QED
    BY <2>1, PickPositions
<1> DEFINE S == {n \in 0..N : n = 0 \/ f[n] = CoinsOf(Pick(s, DebitsUpTo(s, n)))}
<1>5. 0 \in S /\ S \in SUBSET (0..N)
  BY <1>2
<1>6. ASSUME NEW n \in S, n < N PROVE n + 1 \in S
  <2>1. n \in Nat /\ n + 1 \in 1..N /\ n + 1 \in 0..N
    BY <1>2, <1>6
  <2>2. CASE n = 0
    <3>1. DebitsUpTo(s, 1) = DebitsOf(s, Payers(s)[1])
      BY DEF DebitsUpTo, DebitsOf
    <3>2. f[1] = CoinsOf(Pick(s, DebitsUpTo(s, 1)))
      BY <1>1, <1>3, <2>1, <2>2, <3>1
    <3> QED
      BY <2>1, <2>2, <3>2
  <2>3. CASE n # 0
    <3>1. n \in 1..N /\ n \in 0..N /\ f[n] = CoinsOf(Pick(s, DebitsUpTo(s, n)))
      BY <1>2, <2>1, <2>3
    <3> DEFINE A == DebitsUpTo(s, n)
               B == DebitsOf(s, Payers(s)[n + 1])
    <3>2. A \in SUBSET (DOMAIN s) /\ B \in SUBSET (DOMAIN s)
      BY <1>4, <3>1 DEF DebitsOf, Debits
    <3>3. DebitsUpTo(s, n + 1) = A \cup B /\ \A i \in A, j \in B : i < j
      BY <1>6, <3>1, PayersInTurn
    <3>4. Pick(s, A) \in Seq(Operations) /\ Pick(s, B) \in Seq(Operations)
      BY <3>2, PickPositions
    <3>5. f[n + 1] = f[n] \o ss[n + 1] /\ ss[n + 1] = CoinsOf(Pick(s, B))
      BY <1>1, <1>3, <1>6, <2>1, <3>1
    <3> HIDE DEF A, B
    <3>6. Pick(s, A \cup B) = Pick(s, A) \o Pick(s, B)
      BY <3>2, <3>3, PickSplit
    <3>7. CoinsOf(Pick(s, A \cup B)) = CoinsOf(Pick(s, A)) \o CoinsOf(Pick(s, B))
      BY <3>4, <3>6, CoinsOfConcat
    <3>8. f[n] = CoinsOf(Pick(s, A))
      BY <3>1 DEF A
    <3>9. f[n + 1] = CoinsOf(Pick(s, DebitsUpTo(s, n + 1)))
      BY <3>3, <3>5, <3>7, <3>8
    <3> QED
      BY <2>1, <3>9
  <2> QED
    BY <2>2, <2>3
<1> HIDE DEF S, N
<1>7. N \in S
  <2>1. S = 0..N
    BY <1>2, <1>5, <1>6, UpTo
  <2> QED
    BY <1>2, <2>1
<1> USE DEF N
<1>8. DebitsUpTo(s, N) = Debits(s)
  BY PayersInOrder DEF DebitsUpTo
<1> QED
  BY <1>1, <1>2, <1>3, <1>7, <1>8 DEF S

------------------------------------------------------------------------------
(* The operations a client may ask for *)

\* What preprocess regroups are INPUT operations, whose coins it passes on.
LEMMA Prepared ==
    ASSUME NEW s \in Intents, ~HasInvalidOutput(s)
    PROVE  /\ Debits(s) \subseteq Typed(s, "INPUT")
           /\ \A i \in Debits(s) : s[i].coin \in Coins
           /\ \A n \in DOMAIN RequiredBalances(s) :
                 /\ RequiredBalances(s)[n].account \in Accounts
                 /\ RequiredBalances(s)[n].coins \in Seq(Coins)
           /\ RequiredBalances(s) # <<>> => RelevantInputs(s) \in Seq(Coins)
<1>0. s \in Seq(Operations) /\ \A i \in DOMAIN s : s[i] \in Operations
  BY IntentsAreOperations
<1>1. Debits(s) \subseteq Typed(s, "INPUT")
  BY <1>0 DEF Debits, Typed, HasInvalidOutput, Operations
<1>2. \A i \in Debits(s) : s[i].coin \in Coins
  BY <1>1, IntentsAreOperations DEF Typed
<1>3. RequiredBalances(s) # <<>> => RelevantInputs(s) \in Seq(Coins)
  BY <1>0, <1>2, RelevantCoins
<1>4. ASSUME NEW n \in DOMAIN RequiredBalances(s)
      PROVE  RequiredBalances(s)[n].account \in Accounts /\ RequiredBalances(s)[n].coins \in Seq(Coins)
  <2>1. Payers(s) \in Seq(Accounts) /\ n \in DOMAIN Payers(s)
    BY <1>0, PayersInOrder DEF RequiredBalances
  <2>2. /\ RequiredBalances(s)[n].account = Payers(s)[n]
        /\ RequiredBalances(s)[n].coins = CoinsOf(Pick(s, DebitsOf(s, Payers(s)[n])))
    BY <2>1 DEF RequiredBalances
  <2> QED
    BY <1>0, <1>2, <2>1, <2>2, DebitCoins
<1> QED
  BY <1>1, <1>2, <1>3, <1>4

\* Inputs and Outputs share out the operations.
LEMMA IntentParts ==
    ASSUME NEW s \in Intents
    PROVE  /\ Inputs(s) \in Seq(Operations) /\ Outputs(s) \in Seq(Operations)
           /\ \A k \in 1..Len(Inputs(s)) : Inputs(s)[k].type = "INPUT" /\ Inputs(s)[k].coin \in Coins
           /\ \A k \in 1..Len(Outputs(s)) : Outputs(s)[k].type = "OUTPUT"
<1>0. s \in Seq(Operations) /\ \A type : Typed(s, type) \in SUBSET (DOMAIN s)
  BY IntentsAreOperations DEF Typed
<1>1. ASSUME NEW type
      PROVE  /\ Pick(s, Typed(s, type)) \in Seq(Operations)
             /\ \A k \in 1..Len(Pick(s, Typed(s, type))) :
                   /\ Pick(s, Typed(s, type))[k].type = type
                   /\ Pick(s, Typed(s, type))[k].type = "INPUT"
                         => Pick(s, Typed(s, type))[k].coin \in Coins
  <2> DEFINE picked == Pick(s, Typed(s, type))
  <2>1. picked \in Seq(Operations)
        /\ \E pos : /\ Orders(pos, Len(picked), Typed(s, type))
                    /\ \A k \in 1..Len(picked) : picked[k] = s[pos[k]]
    BY <1>0, PickPositions
  <2> HIDE DEF picked
  <2>2. \A k \in 1..Len(picked) : picked[k].type = type /\ (picked[k].type = "INPUT" => picked[k].coin \in Coins)
    BY <2>1, IntentsAreOperations DEF Orders, Typed
  <2> QED
    BY <2>1, <2>2 DEF picked
<1> QED
  BY <1>1 DEF Inputs, Outputs

\* When no account is interrupted, and no INPUT was left out, the relevant inputs are the
\* coins of the INPUT operations, in their order.
LEMMA GroupedInputs ==
    ASSUME NEW s \in Intents, ~HasInvalidOutput(s), RequiredBalances(s) # <<>>, Grouped(s),
           Len(Inputs(s)) = Len(RelevantInputs(s))
    PROVE  RelevantInputs(s) = CoinsOf(Inputs(s)) /\ Debits(s) = Typed(s, "INPUT")
<1>0. s \in Seq(Operations) /\ Typed(s, "INPUT") \in SUBSET (DOMAIN s)
  BY IntentsAreOperations DEF Typed
<1>1. Debits(s) \in SUBSET Typed(s, "INPUT")
  BY Prepared
<1>2. DebitsTogether(s)
  BY <1>1 DEF DebitsTogether, Grouped
<1>3. RelevantInputs(s) = CoinsOf(Pick(s, Debits(s)))
  BY <1>0, <1>2, GroupedFlat
<1>4. Debits(s) \in SUBSET (DOMAIN s)
  BY <1>0, <1>1
<1>5. Pick(s, Debits(s)) \in Seq(Operations)
  BY <1>0, <1>4, PickPositions
<1>6. Len(Pick(s, Debits(s))) = Len(Pick(s, Typed(s, "INPUT")))
  BY <1>3, <1>5, FieldTypes DEF Inputs
<1>7. Debits(s) = Typed(s, "INPUT")
  BY <1>0, <1>1, <1>6, PickMore
<1> QED
  BY <1>3, <1>7 DEF Inputs

\* A transfer of a single coin.
LEMMA SingleInput ==
    ASSUME NEW s \in Intents, Len(Inputs(s)) = 1
    PROVE  /\ Grouped(s)
           /\ \E i \in DOMAIN s : Typed(s, "INPUT") = {i} /\ Inputs(s)[1] = s[i]
<1>0. s \in Seq(Operations) /\ Typed(s, "INPUT") \in SUBSET (DOMAIN s)
  BY IntentsAreOperations DEF Typed
<1>1. PICK pos : /\ Orders(pos, Len(Pick(s, Typed(s, "INPUT"))), Typed(s, "INPUT"))
                 /\ \A k \in 1..Len(Pick(s, Typed(s, "INPUT"))) : Pick(s, Typed(s, "INPUT"))[k] = s[pos[k]]
  BY <1>0, PickPositions
<1>2. Orders(pos, 1, Typed(s, "INPUT")) /\ Inputs(s)[1] = s[pos[1]]
  BY <1>1 DEF Inputs
<1>3. pos[1] \in Typed(s, "INPUT") /\ \A i \in Typed(s, "INPUT") : i = pos[1]
  BY <1>2 DEF Orders
<1>4. Typed(s, "INPUT") = {pos[1]}
  BY <1>3
<1>5. pos[1] \in Nat
  BY <1>0, <1>3
<1>6. Grouped(s)
  BY <1>4, <1>5 DEF Grouped
<1> QED
  BY <1>0, <1>2, <1>3, <1>4, <1>6

------------------------------------------------------------------------------
(* The invariant: every answer, as a function of the operations *)

\* the stages once metadata has answered, once payloads has, and so on
Building == {"parseUnsigned", "sign", "combine", "parseSigned", "submit", "accepted", "rejected"}
Signing == Building \ {"parseUnsigned", "sign"}
Combined == Signing \ {"combine"}

\* payloads has answered: a refusal of combine leaves its answer as it is
Built == stage \in Building \/ (stage = "refused" /\ payloads # <<>>)

UnsignedTx == [coins |-> inputs, outputs |-> Outputs(ops),
               addresses |-> AccountsOf(Inputs(ops)), amounts |-> Amounts(Inputs(ops))]

\* the signature the wallet gives for input i, in the form it has chosen
SignatureOf(i) == [key |-> PayloadOf(i).address, signs |-> PayloadOf(i).hash,
                   form |-> signatures[i].form]

SignedTx == [coins |-> inputs, outputs |-> Outputs(ops), amounts |-> Amounts(Inputs(ops)),
             signatures |-> [i \in DOMAIN inputs |-> SignatureOf(i)]]

\* The accounts and their coins are those of preprocess, which saw no invalid output.
RequiredInv ==
    /\ required # <<>> \/ stage = "metadata" =>
          ~HasInvalidOutput(ops) /\ required = RequiredBalances(ops)
    /\ inputs # <<>> \/ stage = "payloads" => required # <<>> /\ inputs = RelevantInputs(ops)

\* The transaction and the payloads are those payloads answered, which it could build.
BuiltInv ==
    IF Built
    THEN ~Unbuildable /\ unsigned = UnsignedTx /\ payloads = [i \in DOMAIN inputs |-> PayloadOf(i)]
    ELSE /\ unsigned = [coins |-> <<>>, outputs |-> <<>>, addresses |-> <<>>, amounts |-> <<>>]
         /\ payloads = <<>> /\ intent = <<>>

\* So are the signatures, the signed transaction, and what parse reads from either.
SignedInv ==
    /\ stage \in Signing => signatures = [i \in DOMAIN inputs |-> SignatureOf(i)]
    /\ IF stage \in Combined THEN signed = SignedTx
       ELSE signed = [coins |-> <<>>, outputs |-> <<>>, amounts |-> <<>>, signatures |-> <<>>]
    /\ intent = <<>> \/ intent = Parsed(unsigned, unsigned.addresses)
    /\ stage = "accepted" => NodeAccepts(signed)

CInv == ops \in Intents /\ stage \in Stages /\ RequiredInv /\ BuiltInv /\ SignedInv

LEMMA InitCInv == Init => CInv
BY DEF Init, CInv, Stages, Outcomes, RequiredInv, BuiltInv, Built, SignedInv, Building, Signing, Combined

\* Once built, there is a coin for each INPUT operation.
LEMMA BuiltShapes ==
    ASSUME CInv, Built
    PROVE  /\ inputs \in Seq(Coins) /\ Len(inputs) = Len(Inputs(ops)) /\ Len(inputs) > 0
           /\ DOMAIN inputs = 1..Len(inputs)
           /\ inputs = RelevantInputs(ops) /\ RequiredBalances(ops) # <<>> /\ ~HasInvalidOutput(ops)
           /\ unsigned = UnsignedTx /\ payloads = [i \in DOMAIN inputs |-> PayloadOf(i)]
<1>1. ops \in Intents /\ ~Unbuildable
  BY DEF CInv, BuiltInv, Built
<1>2. inputs # <<>> /\ Len(Inputs(ops)) = Len(inputs)
  BY <1>1 DEF Unbuildable
<1>3. required = RequiredBalances(ops) /\ required # <<>> /\ inputs = RelevantInputs(ops)
      /\ ~HasInvalidOutput(ops)
  BY <1>2 DEF CInv, RequiredInv
<1>4. inputs \in Seq(Coins)
  BY <1>1, <1>3, Prepared
<1>5. unsigned = UnsignedTx /\ payloads = [i \in DOMAIN inputs |-> PayloadOf(i)]
  BY DEF CInv, BuiltInv, Built
<1> QED
  BY <1>2, <1>3, <1>4, <1>5

\* Parse reads the same from the signed transaction as from the unsigned one.
LEMMA ParsedAlike ==
    ASSUME CInv, stage \in Combined
    PROVE  Parsed(signed, Field(signed.signatures, LAMBDA s : s.key)) = Parsed(unsigned, unsigned.addresses)
<1>1. Built
  BY DEF Combined, Signing, Built, Building
<1>2. /\ inputs \in Seq(Coins) /\ Len(inputs) = Len(Inputs(ops)) /\ DOMAIN inputs = 1..Len(inputs)
      /\ unsigned = UnsignedTx
  BY <1>1, BuiltShapes
<1>3. signed = SignedTx /\ ops \in Intents
  BY DEF CInv, SignedInv
<1>4. Inputs(ops) \in Seq(Operations)
  BY <1>3, IntentParts
<1>5. \A i \in DOMAIN inputs : AccountsOf(Inputs(ops))[i] = Inputs(ops)[i].account
  BY <1>2, <1>4, FieldTypes
<1>6. \A i \in DOMAIN inputs : SignatureOf(i).key = Inputs(ops)[i].account
  BY DEF SignatureOf, PayloadOf
<1> DEFINE keys == Field(signed.signatures, LAMBDA s : s.key)
<1>7. /\ signed.coins = inputs /\ signed.outputs = Outputs(ops) /\ signed.amounts = Amounts(Inputs(ops))
      /\ signed.signatures = [i \in DOMAIN inputs |-> SignatureOf(i)]
  BY <1>3 DEF SignedTx
<1>8. keys = [i \in DOMAIN inputs |-> SignatureOf(i).key]
  BY <1>7 DEF Field
<1>9. /\ unsigned.coins = inputs /\ unsigned.outputs = Outputs(ops)
      /\ unsigned.amounts = Amounts(Inputs(ops)) /\ unsigned.addresses = AccountsOf(Inputs(ops))
  BY <1>2 DEF UnsignedTx
<1>10. \A i \in DOMAIN inputs : keys[i] = unsigned.addresses[i]
  BY <1>5, <1>6, <1>8, <1>9
<1> HIDE DEF keys
<1> DEFINE row(tx, account, i) == [type |-> "INPUT", account |-> account[i],
                                   amount |-> tx.amounts[i], coin |-> tx.coins[i]]
<1>11. \A i \in DOMAIN inputs : row(signed, keys, i) = row(unsigned, unsigned.addresses, i)
  BY <1>7, <1>9, <1>10
<1>12. Parsed(signed, keys) = [i \in DOMAIN inputs |-> row(signed, keys, i)] \o Outputs(ops)
  BY <1>7 DEF Parsed
<1>13. Parsed(unsigned, unsigned.addresses)
         = [i \in DOMAIN inputs |-> row(unsigned, unsigned.addresses, i)] \o Outputs(ops)
  BY <1>9 DEF Parsed
<1> HIDE DEF row
<1> QED
  BY <1>11, <1>12, <1>13 DEF keys

\* Every endpoint keeps the invariant.
LEMMA StepCInv == CInv /\ [Next]_vars => CInv'
<1> SUFFICES ASSUME CInv, [Next]_vars PROVE CInv'
  OBVIOUS
<1> USE DEF CInv
<1> DEFINE Same == ops' = ops /\ required' = required /\ inputs' = inputs /\ unsigned' = unsigned
                   /\ payloads' = payloads /\ signatures' = signatures /\ signed' = signed
                   /\ intent' = intent
<1>1. ASSUME stage \in {"preprocess", "metadata", "payloads"}, Refused PROVE CInv'
  <2>1. Same /\ stage' = "refused" /\ stage' \in Stages
    BY <1>1 DEF Refused, Stages, Outcomes
  <2>2. RequiredInv'
    BY <2>1 DEF RequiredInv
  <2>3. BuiltInv'
    BY <1>1, <2>1 DEF BuiltInv, Built, Building
  <2>4. SignedInv'
    BY <1>1, <2>1 DEF SignedInv, Building, Signing, Combined
  <2> QED
    BY <2>1, <2>2, <2>3, <2>4
<1>2. CASE Preprocess
  <2>1. CASE HasInvalidOutput(ops) /\ Refused
    BY <1>1, <1>2, <2>1 DEF Preprocess
  <2>2. CASE ~HasInvalidOutput(ops) /\ ~Refused
    <3>1. /\ stage = "preprocess" /\ stage' = "metadata" /\ required' = RequiredBalances(ops)
          /\ ops' = ops /\ inputs' = inputs /\ unsigned' = unsigned /\ payloads' = payloads
          /\ signatures' = signatures /\ signed' = signed /\ intent' = intent
      BY <1>2, <2>2 DEF Preprocess
    <3>2. RequiredInv'
      BY <2>2, <3>1 DEF RequiredInv
    <3>3. BuiltInv' /\ SignedInv'
      BY <3>1 DEF BuiltInv, Built, SignedInv, Building, Signing, Combined
    <3> QED
      BY <3>1, <3>2, <3>3 DEF Stages
  <2> QED
    BY <1>1, <1>2, <2>1, <2>2 DEF Preprocess
<1>3. CASE Metadata
  <2>1. CASE required = <<>> /\ Refused
    BY <1>1, <1>3, <2>1 DEF Metadata
  <2>2. CASE required # <<>>
    <3>1. /\ stage = "metadata" /\ stage' = "payloads"
          /\ inputs' = FlattenSeq(Field(required, LAMBDA balance : balance.coins))
          /\ ops' = ops /\ required' = required /\ unsigned' = unsigned /\ payloads' = payloads
          /\ signatures' = signatures /\ signed' = signed /\ intent' = intent
      BY <1>3, <2>2 DEF Metadata
    <3>2. required = RequiredBalances(ops) /\ ~HasInvalidOutput(ops)
      BY <3>1 DEF RequiredInv
    <3>3. RequiredInv'
      <4>1. inputs' = RelevantInputs(ops)
        BY <3>1, <3>2 DEF RelevantInputs
      <4> QED
        BY <2>2, <3>1, <3>2, <4>1 DEF RequiredInv
    <3>4. BuiltInv' /\ SignedInv'
      BY <3>1 DEF BuiltInv, Built, SignedInv, Building, Signing, Combined
    <3> QED
      BY <3>1, <3>3, <3>4 DEF Stages
  <2> QED
    BY <1>3, <2>1, <2>2 DEF Metadata
<1>4. CASE Payloads
  <2>1. CASE Unbuildable /\ Refused
    BY <1>1, <1>4, <2>1 DEF Payloads
  <2>2. CASE ~Unbuildable /\ BuildPayloads
    <3>1. /\ stage = "payloads" /\ stage' = "parseUnsigned" /\ unsigned' = UnsignedTx
          /\ payloads' = [i \in DOMAIN inputs |-> PayloadOf(i)]
          /\ ops' = ops /\ required' = required /\ inputs' = inputs
          /\ signatures' = signatures /\ signed' = signed /\ intent' = intent
      BY <1>4, <2>2 DEF Payloads, BuildPayloads, UnsignedTx
    <3>2. RequiredInv'
      BY <3>1 DEF RequiredInv
    <3>3. BuiltInv'
      BY <2>2, <3>1 DEF BuiltInv, Built, Building, Unbuildable, UnsignedTx, PayloadOf
    <3>4. SignedInv'
      BY <3>1 DEF BuiltInv, Built, SignedInv, Building, Signing, Combined
    <3> QED
      BY <3>1, <3>2, <3>3, <3>4 DEF Stages
  <2> QED
    BY <1>4, <2>1, <2>2 DEF Payloads
<1>5. CASE ParseUnsigned
  <2>1. /\ stage = "parseUnsigned" /\ stage' = "sign" /\ intent' = Parsed(unsigned, unsigned.addresses)
        /\ ops' = ops /\ required' = required /\ inputs' = inputs /\ unsigned' = unsigned
        /\ payloads' = payloads /\ signatures' = signatures /\ signed' = signed
    BY <1>5 DEF ParseUnsigned
  <2>2. RequiredInv'
    BY <2>1 DEF RequiredInv
  <2>3. BuiltInv'
    <3>1. Built /\ Built'
      BY <2>1 DEF Built, Building
    <3> QED
      BY <2>1, <3>1 DEF BuiltInv, Unbuildable, UnsignedTx, PayloadOf
  <2>4. SignedInv'
    BY <2>1 DEF SignedInv, Building, Signing, Combined
  <2> QED
    BY <2>1, <2>2, <2>3, <2>4 DEF Stages
<1>6. CASE Sign
  <2>1. /\ stage = "sign" /\ stage' = "combine"
        /\ ops' = ops /\ required' = required /\ inputs' = inputs /\ unsigned' = unsigned
        /\ payloads' = payloads /\ signed' = signed /\ intent' = intent
    BY <1>6 DEF Sign
  <2>6. PICK form \in Forms :
           signatures' = Field(payloads, LAMBDA p : [key |-> p.address, signs |-> p.hash,
                                                     form |-> form])
    BY <1>6 DEF Sign
  <2>2. RequiredInv'
    BY <2>1 DEF RequiredInv
  <2>3. BuiltInv'
    <3>1. Built /\ Built'
      BY <2>1 DEF Built, Building
    <3> QED
      BY <2>1, <3>1 DEF BuiltInv, Unbuildable, UnsignedTx, PayloadOf
  <2>4. signatures' = [i \in DOMAIN inputs |-> SignatureOf(i)']
    <3>1. payloads = [i \in DOMAIN inputs |-> PayloadOf(i)]
      <4>1. Built
        BY <2>1 DEF Built, Building
      <4> QED
        BY <4>1 DEF BuiltInv
    <3>2. signatures' = [i \in DOMAIN inputs |-> [key |-> PayloadOf(i).address,
                                                  signs |-> PayloadOf(i).hash, form |-> form]]
      BY <2>6, <3>1 DEF Field
    <3>3. \A i \in DOMAIN inputs : signatures'[i].form = form
      BY <3>2
    <3>4. \A i \in DOMAIN inputs : PayloadOf(i)' = PayloadOf(i)
      BY <2>1 DEF PayloadOf
    <3>5. \A i \in DOMAIN inputs :
             SignatureOf(i)' = [key |-> PayloadOf(i).address, signs |-> PayloadOf(i).hash,
                                form |-> form]
      BY <3>3, <3>4 DEF SignatureOf
    <3> QED
      BY <3>2, <3>5
  <2>5. SignedInv'
    <3>1. (signatures = [i \in DOMAIN inputs |-> SignatureOf(i)])'
      BY <2>1, <2>4
    <3> QED
      BY <2>1, <3>1 DEF SignedInv, Building, Signing, Combined
  <2> QED
    BY <2>1, <2>2, <2>3, <2>5 DEF Stages
<1>7. CASE stage = "combine" /\ PutSignatures
  <2>1. /\ stage = "combine" /\ stage' = "parseSigned"
        /\ signed' = [coins |-> unsigned.coins, outputs |-> unsigned.outputs,
                      amounts |-> unsigned.amounts,
                      signatures |-> [i \in DOMAIN unsigned.coins |-> signatures[i]]]
        /\ ops' = ops /\ required' = required /\ inputs' = inputs /\ unsigned' = unsigned
        /\ payloads' = payloads /\ signatures' = signatures /\ intent' = intent
    BY <1>7 DEF PutSignatures
  <2>2. RequiredInv'
    BY <2>1 DEF RequiredInv
  <2>3. BuiltInv'
    <3>1. Built /\ Built'
      BY <2>1 DEF Built, Building
    <3> QED
      BY <2>1, <3>1 DEF BuiltInv, Unbuildable, UnsignedTx, PayloadOf
  <2>4. signed' = SignedTx
    <3>1. unsigned = UnsignedTx /\ signatures = [i \in DOMAIN inputs |-> SignatureOf(i)]
      BY <2>1 DEF BuiltInv, Built, SignedInv, Building, Signing
    <3> QED
      BY <2>1, <3>1 DEF UnsignedTx, SignedTx
  <2>5. SignedInv'
    BY <2>1, <2>4 DEF SignedInv, Building, Signing, Combined, SignedTx, SignatureOf, PayloadOf
  <2> QED
    BY <2>1, <2>2, <2>3, <2>5 DEF Stages
<1>8. CASE ParseSigned
  <2>1. /\ stage = "parseSigned" /\ stage' = "submit"
        /\ intent' = Parsed(signed, Field(signed.signatures, LAMBDA s : s.key))
        /\ ops' = ops /\ required' = required /\ inputs' = inputs /\ unsigned' = unsigned
        /\ payloads' = payloads /\ signatures' = signatures /\ signed' = signed
    BY <1>8 DEF ParseSigned
  <2>2. RequiredInv'
    BY <2>1 DEF RequiredInv
  <2>3. BuiltInv'
    <3>1. Built /\ Built'
      BY <2>1 DEF Built, Building
    <3> QED
      BY <2>1, <3>1 DEF BuiltInv, Unbuildable, UnsignedTx, PayloadOf
  <2>4. stage \in Combined
    BY <2>1 DEF Combined, Signing, Building
  <2>5. intent' = Parsed(unsigned, unsigned.addresses)
    BY <2>1, <2>4, ParsedAlike
  <2>6. SignedInv'
    BY <2>1, <2>5 DEF SignedInv, Building, Signing, Combined, SignedTx, SignatureOf, PayloadOf
  <2> QED
    BY <2>1, <2>2, <2>3, <2>6 DEF Stages
<1>9. CASE Submit
  <2>1. /\ stage = "submit" /\ Same
        /\ stage' = IF NodeAccepts(signed) THEN "accepted" ELSE "rejected"
    BY <1>9 DEF Submit
  <2>2. RequiredInv'
    BY <2>1 DEF RequiredInv
  <2>3. BuiltInv'
    <3>1. Built /\ Built'
      BY <2>1 DEF Built, Building
    <3> QED
      BY <2>1, <3>1 DEF BuiltInv, Unbuildable, UnsignedTx, PayloadOf
  <2>4. stage \in Signing /\ stage \in Combined /\ stage' \in Combined /\ stage' \in Signing
    BY <2>1 DEF Combined, Signing, Building
  <2>5. SignedInv'
    <3>1. stage' = "accepted" => NodeAccepts(signed')
      BY <2>1
    <3>2. (stage \in Signing => signatures = [i \in DOMAIN inputs |-> SignatureOf(i)])
          /\ signed = SignedTx /\ (intent = <<>> \/ intent = Parsed(unsigned, unsigned.addresses))
      BY <2>4 DEF SignedInv
    <3>3. (signatures = [i \in DOMAIN inputs |-> SignatureOf(i)])' /\ (signed = SignedTx)'
      BY <2>1, <2>4, <3>2 DEF SignedTx, SignatureOf, PayloadOf
    <3>4. (intent = <<>> \/ intent = Parsed(unsigned, unsigned.addresses))'
      BY <2>1, <3>2
    <3> QED
      BY <2>4, <3>1, <3>3, <3>4 DEF SignedInv
  <2> QED
    BY <2>1, <2>2, <2>3, <2>5 DEF Stages, Outcomes
<1>10. CASE stage = "combine" /\ Refused
  <2>1. stage = "combine" /\ stage' = "refused" /\ Same
    BY <1>10 DEF Refused
  <2>2. RequiredInv'
    BY <2>1 DEF RequiredInv
  <2>3. Built /\ ~Unbuildable /\ unsigned = UnsignedTx
        /\ payloads = [i \in DOMAIN inputs |-> PayloadOf(i)]
    <3>1. Built
      BY <2>1 DEF Built, Building
    <3> QED
      BY <3>1 DEF BuiltInv
  <2>4. payloads # <<>>
    <3>1. inputs \in Seq(Coins) /\ Len(inputs) > 0
      BY <2>3, BuiltShapes
    <3>2. 1 \in DOMAIN payloads
      BY <2>3, <3>1
    <3> QED
      BY <3>2
  <2>5. BuiltInv'
    BY <2>1, <2>3, <2>4 DEF BuiltInv, Built, Unbuildable, UnsignedTx, PayloadOf
  <2>6. SignedInv'
    BY <2>1 DEF SignedInv, Building, Signing, Combined
  <2> QED
    BY <2>1, <2>2, <2>5, <2>6 DEF Stages, Outcomes
<1>11. CASE UNCHANGED vars
  <2>1. Same /\ stage' = stage
    BY <1>11 DEF vars
  <2>2. RequiredInv'
    BY <2>1 DEF RequiredInv
  <2>3. BuiltInv'
    BY <2>1 DEF BuiltInv, Built, Unbuildable, UnsignedTx, PayloadOf
  <2>4. SignedInv'
    BY <2>1 DEF SignedInv, SignedTx, SignatureOf, PayloadOf
  <2> QED
    BY <2>1, <2>2, <2>3, <2>4
<1> QED
  BY <1>2, <1>3, <1>4, <1>5, <1>6, <1>7, <1>8, <1>9, <1>10, <1>11 DEF Next, Combine

LEMMA SpecCInv == Spec => []CInv
<1>1. Init => CInv
  BY InitCInv
<1>2. CInv /\ [Next]_vars => CInv'
  BY StepCInv
<1> QED
  BY <1>1, <1>2, PTL DEF Spec

------------------------------------------------------------------------------
(* Types *)

LEMMA CInvTypes == CInv => TypeOK
<1> SUFFICES ASSUME CInv PROVE TypeOK
  OBVIOUS
<1>1. ops \in Intents /\ stage \in Stages
  BY DEF CInv
<1>2. ASSUME NEW n \in DOMAIN required
      PROVE  required[n].account \in Accounts /\ required[n].coins \in Seq(Coins)
  <2>1. required # <<>>
    BY <1>2
  <2>2. ~HasInvalidOutput(ops) /\ required = RequiredBalances(ops)
    BY <2>1 DEF CInv, RequiredInv
  <2> QED
    BY <1>1, <1>2, <2>2, Prepared
<1>3. inputs \in Seq(Coins)
  <2>1. CASE inputs = <<>>
    BY <2>1
  <2>2. CASE inputs # <<>>
    <3>1. /\ ~HasInvalidOutput(ops) /\ RequiredBalances(ops) # <<>>
          /\ inputs = RelevantInputs(ops)
      BY <2>2 DEF CInv, RequiredInv
    <3> QED
      BY <1>1, <3>1, Prepared
  <2> QED
    BY <2>1, <2>2
<1>4. /\ DOMAIN unsigned.coins = DOMAIN unsigned.addresses
      /\ DOMAIN unsigned.coins = DOMAIN unsigned.amounts
      /\ DOMAIN unsigned.coins = DOMAIN payloads
  <2>1. CASE Built
    <3>1. /\ DOMAIN inputs = 1..Len(Inputs(ops)) /\ unsigned = UnsignedTx
          /\ payloads = [i \in DOMAIN inputs |-> PayloadOf(i)]
      BY <2>1, BuiltShapes
    <3>2. Inputs(ops) \in Seq(Operations)
      BY <1>1, IntentParts
    <3>3. /\ DOMAIN AccountsOf(Inputs(ops)) = 1..Len(Inputs(ops))
          /\ DOMAIN Amounts(Inputs(ops)) = 1..Len(Inputs(ops))
      BY <3>2 DEF AccountsOf, Amounts, Field
    <3>4. /\ unsigned.coins = inputs /\ unsigned.addresses = AccountsOf(Inputs(ops))
          /\ unsigned.amounts = Amounts(Inputs(ops))
      BY <3>1 DEF UnsignedTx
    <3>5. DOMAIN payloads = DOMAIN inputs
      BY <3>1
    <3> QED
      BY <3>1, <3>3, <3>4, <3>5
  <2>2. CASE ~Built
    BY <2>2 DEF CInv, BuiltInv, Built
  <2> QED
    BY <2>1, <2>2
<1>5. DOMAIN signed.coins = DOMAIN signed.signatures
  <2>1. CASE stage \in Combined
    BY <2>1 DEF CInv, SignedInv, SignedTx
  <2>2. CASE stage \notin Combined
    BY <2>2 DEF CInv, SignedInv
  <2> QED
    BY <2>1, <2>2
<1> QED
  BY <1>1, <1>2, <1>3, <1>4, <1>5 DEF TypeOK

\* The answers of the endpoints keep their shapes, and every list that travels beside the
\* coins of a transaction is as long as they are (ConstructionService.js:211-322), however
\* the client repeats accounts or coins.
THEOREM AnswersHaveShapes == Spec => []TypeOK
BY SpecCInv, CInvTypes, PTL

------------------------------------------------------------------------------
(* What parse reads *)

LEMMA CInvIntent == CInv => IntentPreserved
<1> SUFFICES ASSUME CInv, intent # <<>>, Grouped(ops)
             PROVE  Inputs(intent) = Inputs(ops) /\ Outputs(intent) = Outputs(ops)
  BY DEF IntentPreserved
<1> DEFINE N == Len(inputs)
           rows == [i \in 1..N |-> [type |-> "INPUT", account |-> AccountsOf(Inputs(ops))[i],
                                    amount |-> Amounts(Inputs(ops))[i], coin |-> inputs[i]]]
           outs == Outputs(ops)
           M == Len(outs)
<1>1. ops \in Intents /\ Built
  BY DEF CInv, BuiltInv, Built
<1>2. /\ inputs \in Seq(Coins) /\ N \in Nat /\ N = Len(Inputs(ops)) /\ DOMAIN inputs = 1..N
      /\ inputs = RelevantInputs(ops) /\ RequiredBalances(ops) # <<>> /\ ~HasInvalidOutput(ops)
      /\ unsigned = UnsignedTx
  BY <1>1, BuiltShapes
<1>3. Inputs(ops) \in Seq(Operations) /\ outs \in Seq(Operations) /\ M \in Nat
      /\ (\A k \in 1..N : Inputs(ops)[k].type = "INPUT")
      /\ \A k \in 1..M : outs[k].type = "OUTPUT"
  BY <1>1, <1>2, IntentParts
<1>4. inputs = CoinsOf(Inputs(ops))
  BY <1>1, <1>2, GroupedInputs
<1>5. \A i \in 1..N : /\ AccountsOf(Inputs(ops))[i] = Inputs(ops)[i].account
                      /\ Amounts(Inputs(ops))[i] = Inputs(ops)[i].amount
                      /\ inputs[i] = Inputs(ops)[i].coin
  BY <1>2, <1>3, <1>4, FieldTypes
<1>6. intent = rows \o outs
  <2>1. intent = Parsed(unsigned, unsigned.addresses)
    BY DEF CInv, SignedInv
  <2>2. /\ unsigned.coins = inputs /\ unsigned.outputs = outs
        /\ unsigned.amounts = Amounts(Inputs(ops)) /\ unsigned.addresses = AccountsOf(Inputs(ops))
    BY <1>2 DEF UnsignedTx
  <2> QED
    BY <1>2, <2>1, <2>2 DEF Parsed
<1>7. \A i \in 1..N : rows[i] = Inputs(ops)[i] /\ rows[i] \in Operations
  <2>1. \A op \in Operations : op = [type |-> op.type, account |-> op.account,
                                     amount |-> op.amount, coin |-> op.coin]
    BY DEF Operations
  <2>2. \A i \in 1..N : Inputs(ops)[i] \in Operations
    BY <1>2, <1>3
  <2> QED
    BY <1>3, <1>5, <2>1, <2>2
<1>8. rows \in Seq(Operations) /\ Len(rows) = N
  BY <1>2, <1>7
<1> HIDE DEF N, rows, outs, M
<1>9. /\ intent \in Seq(Operations) /\ Len(intent) = N + M
      /\ \A k \in 1..N : intent[k] = rows[k]
      /\ \A k \in 1..M : intent[N + k] = outs[k]
  <2>1. rows \in Seq(Operations) /\ outs \in Seq(Operations) /\ Len(rows) = N /\ Len(outs) = M
        /\ N \in Nat /\ M \in Nat
    BY <1>2, <1>3, <1>8 DEF M
  <2>2. rows \o outs \in Seq(Operations) /\ Len(rows \o outs) = N + M
    BY <2>1
  <2>3. \A k \in 1..N : (rows \o outs)[k] = rows[k]
    BY <2>1
  <2>4. \A k \in 1..M : (rows \o outs)[N + k] = outs[k]
    BY <2>1
  <2> QED
    BY <1>6, <2>2, <2>3, <2>4
<1>10. Typed(intent, "INPUT") = (0 + 1)..N /\ Typed(intent, "OUTPUT") = (N + 1)..(N + M)
  <2>1. DOMAIN intent = 1..(N + M)
    BY <1>9
  <2>2. \A k \in 1..N : intent[k].type = "INPUT"
    BY <1>3, <1>7, <1>9
  <2>3. ASSUME NEW k \in (N + 1)..(N + M) PROVE intent[k].type = "OUTPUT"
    <3>1. k - N \in 1..M /\ N + (k - N) = k
      BY <1>2, <1>3
    <3> QED
      BY <1>3, <1>9, <3>1
  <2>4. \A k \in 1..(N + M) : k \in 1..N \/ k \in (N + 1)..(N + M)
    BY <1>2, <1>3
  <2>5. (1..N) \cup ((N + 1)..(N + M)) \subseteq 1..(N + M)
    BY <1>2, <1>3
  <2> QED
    BY <2>1, <2>2, <2>3, <2>4, <2>5 DEF Typed
<1> DEFINE part(a, b) == Pick(intent, (a + 1)..b)
<1>11. \A a, b \in Nat : a <= b /\ b <= Len(intent) =>
          /\ part(a, b) \in Seq(Operations) /\ Len(part(a, b)) = b - a
          /\ \A k \in 1..(b - a) : part(a, b)[k] = intent[a + k]
  BY <1>9, PickRun
<1>12. Inputs(intent) = part(0, N) /\ Outputs(intent) = part(N, N + M)
  BY <1>10 DEF Inputs, Outputs
<1> HIDE DEF part
<1>13. Inputs(intent) = Inputs(ops)
  <2> DEFINE l == Inputs(intent)
             r == Inputs(ops)
  <2>1. l \in Seq(Operations) /\ Len(l) = N - 0 /\ \A k \in 1..(N - 0) : l[k] = intent[0 + k]
    <3>1. 0 \in Nat /\ N \in Nat /\ 0 <= N /\ N <= Len(intent)
      BY <1>2, <1>3, <1>9
    <3> QED
      BY <1>11, <1>12, <3>1
  <2>2. r \in Seq(Operations) /\ Len(r) = N
    BY <1>2, <1>3
  <2>3. \A k \in 1..N : l[k] = r[k]
    BY <1>2, <1>7, <1>9, <2>1
  <2> HIDE DEF l, r
  <2>4. l = r
    BY <1>2, <2>1, <2>2, <2>3
  <2> QED
    BY <2>4 DEF l, r
<1>14. Outputs(intent) = Outputs(ops)
  <2> DEFINE l == Outputs(intent)
  <2>1. l \in Seq(Operations) /\ Len(l) = (N + M) - N /\ \A k \in 1..((N + M) - N) : l[k] = intent[N + k]
    <3>1. N <= N + M /\ N + M <= Len(intent) /\ N + M \in Nat
      BY <1>2, <1>3, <1>9
    <3> DEFINE c == N + M
    <3>2. N \in Nat /\ c \in Nat /\ N <= c /\ c <= Len(intent)
      BY <1>2, <3>1
    <3>3. l = part(N, c)
      BY <1>12
    <3> HIDE DEF c, l
    <3>4. l \in Seq(Operations) /\ Len(l) = c - N /\ \A k \in 1..(c - N) : l[k] = intent[N + k]
      BY <1>11, <3>2, <3>3
    <3> QED
      BY <3>4 DEF c
  <2>2. Len(l) = M /\ \A k \in 1..M : l[k] = outs[k]
    BY <1>2, <1>3, <1>9, <2>1
  <2> HIDE DEF l
  <2>3. l = outs
    BY <1>3, <2>1, <2>2 DEF M
  <2> QED
    BY <2>3 DEF l, outs
<1> QED
  BY <1>13, <1>14

\* When no account's inputs are interrupted by another's, parse reads the operations the
\* client asked for from the transaction, before and after signing (ConstructionService.js:
\* 211-322), for lists of operations of every length.
THEOREM ParseGivesIntentBack == Spec => []IntentPreserved
BY SpecCInv, CInvIntent, PTL

------------------------------------------------------------------------------
(* What the node accepts *)

\* A signature made before the later inputs were added is valid for the last input only.
LEMMA CInvSubmitted == CInv => SubmittedIsIntended
<1> SUFFICES ASSUME CInv, stage = "accepted"
             PROVE  /\ ToSet(signed.coins) = ToSet(CoinsOf(Inputs(ops)))
                    /\ signed.outputs = Outputs(ops)
                    /\ \A i \in DOMAIN ops :
                          ops[i].type = "INPUT" => /\ ops[i].account = Owner[ops[i].coin]
                                                   /\ ops[i].amount = -Worth[ops[i].coin]
  BY DEF SubmittedIsIntended
<1>1. ops \in Intents /\ Built /\ signed = SignedTx /\ NodeAccepts(signed)
  <2>1. Built /\ stage \in Combined
    BY DEF Built, Building, Signing, Combined
  <2> QED
    BY <2>1 DEF CInv, SignedInv
<1>2. /\ inputs \in Seq(Coins) /\ Len(inputs) = Len(Inputs(ops)) /\ Len(inputs) > 0
      /\ DOMAIN inputs = 1..Len(inputs)
      /\ inputs = RelevantInputs(ops) /\ RequiredBalances(ops) # <<>> /\ ~HasInvalidOutput(ops)
  BY <1>1, BuiltShapes
<1>3. /\ signed.coins = inputs /\ signed.outputs = Outputs(ops)
      /\ signed.signatures = [i \in DOMAIN inputs |-> SignatureOf(i)]
  BY <1>1 DEF SignedTx
<1> DEFINE op == Inputs(ops)[1]
           c == inputs[1]
<1>4. /\ op.account = Owner[c] /\ Abs(op.amount) = Worth[c]
      /\ SubSeq(inputs, 1, 1) = inputs
  <2>1. 1 \in DOMAIN inputs
    BY <1>2
  <2>2. SignedByOwner(signed, 1)
    BY <1>1, <1>3, <2>1 DEF NodeAccepts
  <2>3. SignatureOf(1) = [key |-> Owner[c],
                          signs |-> Digest(1, inputs, Outputs(ops), Owner[c], Worth[c]),
                          form |-> "script"]
    BY <1>3, <2>1, <2>2 DEF SignedByOwner
  <2>4. /\ SignatureOf(1).key = op.account
        /\ SignatureOf(1).signs = Digest(1, SubSeq(inputs, 1, 1), Outputs(ops), op.account, Abs(op.amount))
    BY DEF SignatureOf, PayloadOf
  <2>5. Digest(1, SubSeq(inputs, 1, 1), Outputs(ops), op.account, Abs(op.amount))
          = Digest(1, inputs, Outputs(ops), Owner[c], Worth[c])
    BY <2>3, <2>4
  <2> HIDE DEF op, c
  <2>6. SubSeq(inputs, 1, 1) = inputs /\ Abs(op.amount) = Worth[c] /\ op.account = Owner[c]
    BY <2>5 DEF Digest
  <2> QED
    BY <2>6
<1>5. Len(inputs) = 1
  <2>1. Len(SubSeq(inputs, 1, 1)) = 1
    BY <1>2
  <2> QED
    BY <1>4, <2>1
<1>6. PICK i \in DOMAIN ops : Typed(ops, "INPUT") = {i} /\ op = ops[i]
  BY <1>1, <1>2, <1>5, SingleInput
<1>7. inputs = CoinsOf(Inputs(ops)) /\ Debits(ops) = Typed(ops, "INPUT")
  BY <1>1, <1>2, <1>5, SingleInput, GroupedInputs
<1>8. c = op.coin
  <2>1. Inputs(ops) \in Seq(Operations)
    BY <1>1, IntentParts
  <2>2. CoinsOf(Inputs(ops))[1] = Inputs(ops)[1].coin
    BY <1>2, <1>5, <2>1, FieldTypes
  <2> QED
    BY <1>7, <2>2
<1>9. op.amount < 0 /\ op.amount \in Int /\ Worth[c] \in Nat
  <2>1. i \in Debits(ops) /\ ops \in Seq(Operations)
    BY <1>1, <1>6, <1>7, IntentsAreOperations
  <2>2. ops[i].amount < 0
    BY <2>1 DEF Debits
  <2>3. ops[i] \in Operations
    BY <1>6, <2>1
  <2>4. ops[i].amount \in Int
    BY <2>3 DEF Operations
  <2>5. c \in Coins
    BY <1>2
  <2> HIDE DEF c, op
  <2> QED
    BY <1>6, <2>2, <2>4, <2>5, CoinsHaveOwners
<1>10. op.amount = -Worth[c]
  <2> HIDE DEF c, op
  <2> QED
    BY <1>4, <1>9 DEF Abs
<1>11. \A j \in DOMAIN ops : ops[j].type = "INPUT" => ops[j] = op
  BY <1>6 DEF Typed
<1> HIDE DEF c, op
<1>12. ToSet(signed.coins) = ToSet(CoinsOf(Inputs(ops)))
  BY <1>3, <1>7
<1> QED
  BY <1>3, <1>4, <1>8, <1>10, <1>11, <1>12

\* A transaction the node accepts is the one that was asked for, whatever the endpoints
\* mixed up on the way (ConstructionService.js:211-322, 353-437): by the theorem it is one
\* of a single coin, since the first payload commits to the first input alone.
THEOREM AcceptedIsIntended == Spec => []SubmittedIsIntended
BY SpecCInv, CInvSubmitted, PTL

\* The sums of a transfer of one coin.
LEMMA SingleTotals ==
    ASSUME NEW s \in Intents, Honest(s), Len(Inputs(s)) = 1
    PROVE  Total(Amounts(Outputs(s))) <= Worth[Inputs(s)[1].coin]
<1>0. s \in Seq(Operations) /\ Typed(s, "INPUT") \in SUBSET (DOMAIN s)
  BY IntentsAreOperations DEF Typed
<1>1. PICK i \in DOMAIN s : Typed(s, "INPUT") = {i} /\ Inputs(s)[1] = s[i]
  BY SingleInput
<1> DEFINE w == Worth[s[i].coin]
<1>2. s[i].amount = -w /\ w \in Nat
  <2>1. s[i].type = "INPUT" /\ s[i].coin \in Coins
    BY <1>1, IntentsAreOperations DEF Typed
  <2>2. s[i].amount = -Worth[s[i].coin]
    BY <1>1, <2>1 DEF Honest
  <2> QED
    BY <2>1, <2>2, CoinsHaveOwners
<1>3. \A k \in DOMAIN s : s[k].type \in {"INPUT", "OUTPUT"}
  <2>1. \A k \in DOMAIN s : s[k] \in Operations
    BY <1>0
  <2> QED
    BY <2>1 DEF Operations
<1>4. DOMAIN s \ Typed(s, "INPUT") = Typed(s, "OUTPUT")
  BY <1>3 DEF Typed
<1>5. Total(Amounts(s)) = Total(Amounts(Inputs(s))) + Total(Amounts(Outputs(s)))
  BY <1>0, <1>4, TotalSplit DEF Inputs, Outputs
<1>6. Total(<<>>) \in Int /\ Total(<<>>) = 0
  <2>1. <<>> \in Seq(Int) /\ Len(<<>>) = 0
    OBVIOUS
  <2>2. PICK f : Sums(f, <<>>) /\ Total(<<>>) = f[0]
    BY <2>1, TotalUnfolds
  <2> QED
    BY <2>2 DEF Sums
<1>7. Inputs(s) \in Seq(Operations) /\ Outputs(s) \in Seq(Operations)
  BY IntentParts
<1>8. Amounts(Inputs(s)) = Append(<<>>, -w)
  <2> DEFINE l == Amounts(Inputs(s))
             r == Append(<<>>, -w)
  <2>1. l \in Seq(Int) /\ Len(l) = 1 /\ l[1] = -w
    BY <1>1, <1>2, <1>7, FieldTypes
  <2>2. r \in Seq(Int) /\ Len(r) = 1 /\ r[1] = -w
    BY <1>2
  <2> HIDE DEF l, r
  <2>3. Len(l) = Len(r) /\ \A k \in 1..Len(l) : l[k] = r[k]
    BY <2>1, <2>2
  <2>4. l = r
    BY <2>1, <2>2, <2>3
  <2> QED
    BY <2>4 DEF l, r
<1>9. Total(Amounts(Inputs(s))) = -w
  <2>1. <<>> \in Seq(Int) /\ -w \in Int
    BY <1>2
  <2>2. Total(Append(<<>>, -w)) = Total(<<>>) + (-w)
    BY <2>1, TotalAppend
  <2> HIDE DEF w
  <2> QED
    BY <1>2, <1>6, <1>8, <2>2
<1>10. Total(Amounts(s)) <= 0
  BY DEF Honest
<1>11. Total(Amounts(Outputs(s))) \in Int
  <2>1. Amounts(Outputs(s)) \in Seq(Int)
    BY <1>7, FieldTypes
  <2>2. PICK f : Sums(f, Amounts(Outputs(s))) /\ Total(Amounts(Outputs(s))) = f[Len(Amounts(Outputs(s)))]
    BY <2>1, TotalUnfolds
  <2>3. Len(Amounts(Outputs(s))) \in 0..Len(Amounts(Outputs(s)))
    BY <2>1
  <2> QED
    BY <2>2, <2>3 DEF Sums
<1>12. Total(Amounts(Outputs(s))) <= w
  <2> HIDE DEF w
  <2> QED
    BY <1>2, <1>5, <1>9, <1>10, <1>11
<1> QED
  BY <1>1, <1>12

\* What an honest transfer of one coin is for the endpoints.
LEMMA HonestSingle ==
    ASSUME NEW s \in Intents, Honest(s), Len(Inputs(s)) = 1
    PROVE  /\ ~HasInvalidOutput(s) /\ RequiredBalances(s) # <<>>
           /\ RelevantInputs(s) = CoinsOf(Inputs(s))
           /\ Inputs(s)[1].coin \in Coins
           /\ Inputs(s)[1].account = Owner[Inputs(s)[1].coin]
           /\ Abs(Inputs(s)[1].amount) = Worth[Inputs(s)[1].coin]
<1>0. s \in Seq(Operations) /\ \A k \in DOMAIN s : s[k] \in Operations
  BY IntentsAreOperations
<1>1. PICK i \in DOMAIN s : Typed(s, "INPUT") = {i} /\ Inputs(s)[1] = s[i]
  BY SingleInput
<1>2. \A k \in DOMAIN s : s[k].type \in {"INPUT", "OUTPUT"} /\ s[k].amount \in Int
  BY <1>0 DEF Operations
<1>3. s[i].type = "INPUT" /\ s[i].coin \in Coins
  BY <1>1, IntentsAreOperations DEF Typed
<1>4. s[i].account = Owner[s[i].coin] /\ s[i].amount = -Worth[s[i].coin] /\ s[i].amount < 0
  BY <1>1, <1>3 DEF Honest
<1>5. ~HasInvalidOutput(s)
  <2>1. \A k \in DOMAIN s : s[k].type = "OUTPUT" => s[k].amount > 0
    BY DEF Honest
  <2> QED
    BY <1>2, <2>1 DEF HasInvalidOutput
<1>6. i \in Debits(s)
  BY <1>1, <1>4 DEF Debits
<1>7. RequiredBalances(s) # <<>>
  <2>1. PICK n \in 1..Len(Payers(s)) : TRUE
    BY <1>0, <1>6, PayersInOrder
  <2>2. Payers(s) # <<>>
    BY <2>1
  <2> QED
    BY <1>0, <2>2, Purses
<1>8. Debits(s) = Typed(s, "INPUT")
  BY <1>1, <1>5, <1>6, Prepared
<1>9. DebitsTogether(s)
  BY <1>8, SingleInput DEF DebitsTogether, Grouped
<1>10. RelevantInputs(s) = CoinsOf(Inputs(s))
  BY <1>0, <1>7, <1>8, <1>9, GroupedFlat DEF Inputs
<1>11. Abs(s[i].amount) = Worth[s[i].coin]
  <2>1. Worth[s[i].coin] \in Nat
    BY <1>3, CoinsHaveOwners
  <2> QED
    BY <1>4, <2>1 DEF Abs
<1> QED
  BY <1>1, <1>3, <1>4, <1>5, <1>7, <1>10, <1>11

\* No endpoint, nor the node, refuses an honest transfer of one coin, if the signature has the
\* form of a scriptSig.
LEMMA StepSingle == CInv /\ SingleCoinSubmitted /\ [Next]_vars => SingleCoinSubmitted'
<1> SUFFICES ASSUME CInv, SingleCoinSubmitted, [Next]_vars,
                    Len(Inputs(ops')) = 1, Honest(ops'), ForScripts'
             PROVE  stage' \notin {"refused", "rejected"}
  BY DEF SingleCoinSubmitted, TransferSubmitted
<1>1. ops' = ops
  BY DEF Next, vars, Preprocess, Metadata, Payloads, BuildPayloads, ParseUnsigned, ParseSigned, Sign,
     Combine, PutSignatures, Submit, Refused
<1>2. ops \in Intents /\ Len(Inputs(ops)) = 1 /\ Honest(ops)
  BY <1>1 DEF CInv
<1>3. /\ ~HasInvalidOutput(ops) /\ RequiredBalances(ops) # <<>>
      /\ RelevantInputs(ops) = CoinsOf(Inputs(ops))
      /\ Inputs(ops)[1].coin \in Coins
      /\ Inputs(ops)[1].account = Owner[Inputs(ops)[1].coin]
      /\ Abs(Inputs(ops)[1].amount) = Worth[Inputs(ops)[1].coin]
  BY <1>2, HonestSingle
<1>4. CoinsOf(Inputs(ops)) \in Seq(Coins) /\ Len(CoinsOf(Inputs(ops))) = 1
      /\ CoinsOf(Inputs(ops))[1] = Inputs(ops)[1].coin
  <2>1. Inputs(ops) \in Seq(Operations)
    BY <1>2, IntentParts
  <2>2. CoinsOf(Inputs(ops)) \in Seq(Coins \cup {NoCoin}) /\ Len(CoinsOf(Inputs(ops))) = 1
        /\ CoinsOf(Inputs(ops))[1] = Inputs(ops)[1].coin
    BY <1>2, <2>1, FieldTypes
  <2>3. CoinsOf(Inputs(ops)) \in Seq(Coins)
    BY <1>2, <1>3, Prepared
  <2> QED
    BY <2>2, <2>3
<1>5. CASE Preprocess
  BY <1>3, <1>5 DEF Preprocess
<1>6. CASE Metadata
  <2>1. stage = "metadata" /\ required # <<>>
    BY <1>3, <1>6 DEF Metadata, CInv, RequiredInv
  <2> QED
    BY <1>6, <2>1 DEF Metadata
<1>7. CASE Payloads
  <2>1. inputs = CoinsOf(Inputs(ops))
    BY <1>3, <1>7 DEF Payloads, CInv, RequiredInv
  <2>2. inputs \in Seq(Coins) /\ Len(inputs) = 1
    BY <1>4, <2>1
  <2>3. inputs # <<>> /\ \A i, j \in DOMAIN inputs : i = j
    <3>1. DOMAIN inputs = 1..1
      BY <2>2
    <3>2. DOMAIN inputs = {1} /\ 1 \in DOMAIN inputs
      BY <3>1
    <3> QED
      BY <3>2
  <2>4. ~Unbuildable
    BY <1>2, <2>2, <2>3 DEF Unbuildable
  <2> QED
    BY <1>7, <2>4 DEF Payloads, BuildPayloads
<1>8. CASE Submit
  <2>1. Built /\ signed = SignedTx
    <3>1. Built /\ stage \in Combined
      BY <1>8 DEF Submit, Built, Building, Signing, Combined
    <3> QED
      BY <3>1 DEF CInv, SignedInv
  <2>2. inputs = CoinsOf(Inputs(ops))
    BY <1>3, <2>1, BuiltShapes
  <2> DEFINE op == Inputs(ops)[1]
             c == inputs[1]
  <2>3. inputs \in Seq(Coins) /\ Len(inputs) = 1 /\ c = op.coin /\ DOMAIN inputs = {1}
    BY <1>4, <2>2
  <2>4. /\ signed.coins = inputs /\ signed.outputs = Outputs(ops)
        /\ signed.signatures = [i \in DOMAIN inputs |-> SignatureOf(i)]
    BY <2>1 DEF SignedTx
  <2>5. SignedByOwner(signed, 1)
    <3>1. SubSeq(inputs, 1, 1) = inputs
      BY <2>3
    <3>2. SignatureOf(1) = [key |-> op.account,
                            signs |-> Digest(1, inputs, Outputs(ops), op.account, Abs(op.amount)),
                            form |-> "script"]
      <4>1. signatures = [i \in DOMAIN inputs |-> SignatureOf(i)] /\ ForScripts
        BY <1>8 DEF Submit, CInv, SignedInv, Building, Signing, ForScripts
      <4>2. signatures[1].form = "script"
        BY <2>3, <4>1 DEF ForScripts
      <4> QED
        BY <3>1, <4>2 DEF SignatureOf, PayloadOf
    <3>3. signed.signatures[1] = SignatureOf(1)
      BY <2>3, <2>4
    <3> QED
      BY <1>3, <2>3, <2>4, <3>2, <3>3 DEF SignedByOwner
  <2>6. Total(Field(inputs, LAMBDA coin : Worth[coin])) = Worth[c]
    <3> DEFINE w == Worth[c]
               l == Field(inputs, LAMBDA coin : Worth[coin])
               r == Append(<<>>, w)
    <3>1. Worth[c] \in Nat
      <4>1. c \in Coins
        BY <1>3, <2>3
      <4> HIDE DEF c
      <4> QED
        BY <4>1, CoinsHaveOwners
    <3>2. l = [k \in 1..1 |-> Worth[inputs[k]]]
      BY <2>3 DEF Field
    <3>3. l \in Seq(Int) /\ Len(l) = 1 /\ l[1] = w
      <4>1. l = [k \in 1..1 |-> w]
        BY <3>2
      <4> HIDE DEF w, l
      <4> QED
        BY <3>1, <4>1 DEF w
    <3>4. r \in Seq(Int) /\ Len(r) = 1 /\ r[1] = w
      <4> HIDE DEF w
      <4> QED
        BY <3>1 DEF w
    <3>5. Total(r) = Total(<<>>) + w
      <4>1. <<>> \in Seq(Int) /\ w \in Int
        BY <3>1
      <4> HIDE DEF w
      <4> QED
        BY <4>1, TotalAppend
    <3>6. PICK f : Sums(f, <<>>) /\ Total(<<>>) = f[0]
      <4>1. <<>> \in Seq(Int) /\ Len(<<>>) = 0
        OBVIOUS
      <4> QED
        BY <4>1, TotalUnfolds
    <3>7. Total(<<>>) = 0
      BY <3>6 DEF Sums
    <3> HIDE DEF l, r, w
    <3>8. Len(l) = Len(r) /\ \A k \in 1..Len(l) : l[k] = r[k]
      BY <3>3, <3>4
    <3>9. l = r
      BY <3>3, <3>4, <3>8
    <3>10. Total(l) = Worth[c]
      BY <3>1, <3>5, <3>7, <3>9 DEF w
    <3> QED
      BY <3>10 DEF l
  <2>7. Total(Amounts(Outputs(ops))) <= Worth[c]
    BY <1>2, <2>3, SingleTotals
  <2>8. NodeAccepts(signed)
    <3>1. Outputs(ops) # <<>>
      BY <1>2 DEF Honest
    <3> QED
      BY <2>3, <2>4, <2>5, <2>6, <2>7, <3>1 DEF NodeAccepts
  <2> QED
    BY <1>8, <2>8 DEF Submit
<1>9. CASE ParseUnsigned \/ ParseSigned \/ Sign \/ Combine
  BY <1>9 DEF ParseUnsigned, ParseSigned, Sign, Combine, PutSignatures, Refused, ForScripts
<1>10. CASE UNCHANGED vars
  BY <1>2, <1>10 DEF vars, SingleCoinSubmitted, TransferSubmitted, ForScripts
<1> QED
  BY <1>5, <1>6, <1>7, <1>8, <1>9, <1>10 DEF Next

\* A transfer of one coin that the chain allows passes every endpoint and is accepted by
\* the node (ConstructionService.js: constructionSubmit), whatever its outputs, if the wallet
\* signs in the form that combine puts into the scriptSig as it is.
THEOREM SingleCoinsPass == Spec => []SingleCoinSubmitted
<1>1. Init => SingleCoinSubmitted
  BY DEF Init, SingleCoinSubmitted, TransferSubmitted
<1>2. CInv /\ SingleCoinSubmitted /\ [Next]_vars => SingleCoinSubmitted'
  BY StepSingle
<1> QED
  BY <1>1, <1>2, SpecCInv, PTL DEF Spec
==============================================================================
