------------------------ MODULE ContactReports_proofs ------------------------
(***************************************************************************)
(* Proofs about ContactReports, for every squad, every queue and every     *)
(* choice of the radio delays.                                             *)
(***************************************************************************)
EXTENDS ContactReports, SequenceTheorems, FiniteSetTheorems, WellFoundedInduction, TLAPS

----------------------------------------------------------------------------
(* Induction, and what it says of recursive functions.                     *)

\* A set that has 0 and, with a number, the next one, has all of them.
LEMMA SetInduction ==
  ASSUME NEW S, 0 \in S, \A n \in Nat : n \in S => n + 1 \in S
  PROVE  Nat \subseteq S
  <1> DEFINE R == {p \in Nat \X Nat : p[1] < p[2]}
             T == Nat \ S
  <1>1. SUFFICES ASSUME T # {} PROVE FALSE
    OBVIOUS
  <1>2. IsWellFoundedOn(R, Nat)
    BY NatLessThanWellFounded DEF OpToRel
  <1>3. PICK x \in T : \A y \in T : <<y, x>> \notin R
    <2> HIDE DEF R
    <2>1. T \subseteq Nat
      OBVIOUS
    <2> HIDE DEF T
    <2> QED BY <1>1, <1>2, <2>1, WFMin, Zenon
  <1>4. x - 1 \in T
    BY <1>3
  <1>5. <<x - 1, x>> \in R
    BY <1>4
  <1> HIDE DEF R, T
  <1> QED BY <1>3, <1>4, <1>5

\* The same up to a bound.
LEMMA BoundedInduction ==
  ASSUME NEW n \in Nat, NEW S, 0 \in S, \A k \in 0 .. n - 1 : k \in S => k + 1 \in S
  PROVE  0 .. n \subseteq S
  <1> DEFINE T == {k \in Nat : k <= n => k \in S}
  <1>1. 0 \in T
    OBVIOUS
  <1>2. \A k \in Nat : k \in T => k + 1 \in T
    OBVIOUS
  <1>3. Nat \subseteq T
    <2> HIDE DEF T
    <2> QED BY <1>1, <1>2, SetInduction
  <1> QED BY <1>3

\* g goes from x0 through the steps of a function.
IsWalk(g, n, x0, step) == g[0] = x0 /\ \A i \in 1 .. n : g[i] = step[<<g[i - 1], i>>]

\* A walk of n steps through a set exists from each of its elements.
LEMMA WalkExists ==
  ASSUME NEW n \in Nat, NEW X, NEW x0 \in X, NEW step \in [X \X (1 .. n) -> X]
  PROVE  \E g \in [0 .. n -> X] : IsWalk(g, n, x0, step)
  <1> DEFINE Good(k, g) == IsWalk(g, k, x0, step)
             S == {k \in Nat : k <= n => \E g \in [0 .. k -> X] : Good(k, g)}
  <1>1. 0 \in S
    <2>1. Good(0, [i \in 0 .. 0 |-> x0]) /\ [i \in 0 .. 0 |-> x0] \in [0 .. 0 -> X]
      BY DEF IsWalk
    <2> HIDE DEF Good
    <2> QED BY <2>1
  <1>2. ASSUME NEW k \in Nat, k \in S PROVE k + 1 \in S
    <2>1. SUFFICES ASSUME k + 1 <= n PROVE \E g \in [0 .. k + 1 -> X] : Good(k + 1, g)
      OBVIOUS
    <2>2. k <= n
      BY <2>1
    <2>3. PICK g \in [0 .. k -> X] : Good(k, g)
      <3> HIDE DEF Good
      <3> QED BY <1>2, <2>2
    <2> DEFINE h == [i \in 0 .. k + 1 |-> IF i <= k THEN g[i] ELSE step[<<g[k], k + 1>>]]
    <2>4. step[<<g[k], k + 1>>] \in X
      <3>1. g[k] \in X /\ k + 1 \in 1 .. n
        BY <2>1
      <3> QED BY <3>1
    <2>5. h \in [0 .. k + 1 -> X]
      BY <2>4
    <2>6. Good(k + 1, h)
      <3>1. h[0] = x0
        BY <2>3 DEF IsWalk
      <3>2. ASSUME NEW i \in 1 .. k + 1 PROVE h[i] = step[<<h[i - 1], i>>]
        <4>1. CASE i <= k
          BY <2>3, <4>1 DEF IsWalk
        <4>2. CASE i = k + 1
          <5>1. h[k + 1] = step[<<g[k], k + 1>>] /\ h[k] = g[k]
            OBVIOUS
          <5>2. i - 1 = k
            BY <4>2
          <5> HIDE DEF h
          <5> QED BY <4>2, <5>1, <5>2, Zenon
        <4> QED BY <4>1, <4>2
      <3> HIDE DEF h
      <3> QED BY <3>1, <3>2 DEF IsWalk
    <2> HIDE DEF Good, h
    <2> QED BY <2>5, <2>6
  <1>3. Nat \subseteq S
    <2> HIDE DEF S
    <2> QED BY <1>1, <1>2, SetInduction
  <1>4. n \in S
    BY <1>3
  <1> QED BY <1>4

\* A finite list of numbers has a largest one.
LEMMA LargestOfList ==
  ASSUME NEW n \in Nat \ {0}, NEW g \in [1 .. n -> Nat]
  PROVE  \E m \in 1 .. n : \A i \in 1 .. n : g[i] <= g[m]
  <1> DEFINE S == {k \in 0 .. n - 1 : \E m \in 1 .. k + 1 : \A i \in 1 .. k + 1 : g[i] <= g[m]}
  <1>1. 0 \in S
    OBVIOUS
  <1>2. ASSUME NEW k \in 0 .. (n - 1) - 1, k \in S PROVE k + 1 \in S
    <2>1. PICK m \in 1 .. k + 1 : \A i \in 1 .. k + 1 : g[i] <= g[m]
      BY <1>2
    <2>2. k + 2 \in 1 .. n /\ m \in 1 .. n /\ g[m] \in Nat /\ g[k + 2] \in Nat /\ k + 1 \in 0 .. n - 1
      OBVIOUS
    <2>3. \A i \in 1 .. k + 2 : i \in 1 .. k + 1 \/ i = k + 2
      OBVIOUS
    <2>4. \A i \in 1 .. k + 1 : i \in 1 .. n /\ g[i] \in Nat
      OBVIOUS
    <2>5. CASE g[k + 2] <= g[m]
      <3>1. \A i \in 1 .. k + 2 : g[i] <= g[m]
        BY <2>1, <2>3, <2>5
      <3>2. m \in 1 .. k + 2
        OBVIOUS
      <3>3. (k + 1) + 1 = k + 2
        OBVIOUS
      <3> QED BY <2>2, <3>1, <3>2, <3>3
    <2>6. CASE g[m] <= g[k + 2]
      <3>1. \A i \in 1 .. k + 2 : g[i] <= g[k + 2]
        BY <2>1, <2>2, <2>3, <2>4, <2>6
      <3>2. k + 2 \in 1 .. k + 2 /\ (k + 1) + 1 = k + 2
        OBVIOUS
      <3> QED BY <2>2, <3>1, <3>2
    <2> QED BY <2>2, <2>5, <2>6
  <1>3. 0 .. n - 1 \subseteq S
    <2>1. n - 1 \in Nat
      OBVIOUS
    <2> HIDE DEF S
    <2> QED BY <2>1, <1>1, <1>2, BoundedInduction
  <1>4. n - 1 \in S
    <2> HIDE DEF S
    <2> QED BY <1>3
  <1> QED BY <1>4

\* A set of numbers that is not empty has a least one.
LEMMA LeastExists ==
  ASSUME NEW T, T \subseteq Nat, T # {}
  PROVE  \E x \in T : \A y \in T : x <= y
  <1> DEFINE R == {p \in Nat \X Nat : p[1] < p[2]}
  <1>1. IsWellFoundedOn(R, Nat)
    BY NatLessThanWellFounded DEF OpToRel
  <1>2. PICK x \in T : \A y \in T : <<y, x>> \notin R
    <2> HIDE DEF R
    <2> QED BY <1>1, WFMin, Zenon
  <1>3. ASSUME NEW y \in T PROVE x <= y
    <2>1. x \in Nat /\ y \in Nat
      BY <1>2
    <2>2. y < x => <<y, x>> \in R
      BY <2>1
    <2>3. <<y, x>> \notin R
      <3> HIDE DEF R
      <3> QED BY <1>2
    <2> HIDE DEF R
    <2> QED BY <2>1, <2>2, <2>3
  <1> QED BY <1>3

----------------------------------------------------------------------------
(* Delays and recipients.                                                  *)

\* The slowest of the radio's delays.
LEMMA SlowestBounds ==
  Slowest \in Nat /\ \A d \in Delay : d \in Nat /\ d <= Slowest
  <1> DEFINE n == Cardinality(Delay)
  <1>1. n \in Nat \ {0} /\ \E f : f \in Bijection(1 .. n, Delay)
    <2>1. IsFiniteSet(Delay) /\ Delay # {}
      BY RadioAssumption
    <2> QED BY <2>1, FS_CardinalityType, FS_EmptySet DEF ExistsBijection
  <1>2. PICK f \in [1 .. n -> Delay] : \A d \in Delay : \E k \in 1 .. n : f[k] = d
    BY <1>1 DEF Bijection, Injection, Surjection
  <1>3. \A d \in Delay : d \in Nat
    BY RadioAssumption
  <1> HIDE DEF n
  <1>4. f \in [1 .. n -> Nat]
    BY <1>2, <1>3
  <1>5. PICK m \in 1 .. n : \A k \in 1 .. n : f[k] <= f[m]
    BY <1>1, <1>4, LargestOfList
  <1>6. \E d \in Delay : \A e \in Delay : e <= d
    BY <1>2, <1>5
  <1>7. Slowest \in Delay /\ \A e \in Delay : e <= Slowest
    BY <1>6, Zenon DEF Slowest
  <1> QED BY <1>3, <1>7

\* A list of n elements of S in ascending order.
Ascending(order, n, S) ==
  /\ order \in [1 .. n -> S]
  /\ \A i, j \in 1 .. n : i < j => order[i] < order[j]

\* Every set of members can be listed in ascending order.
LEMMA AscendingExists ==
  ASSUME NEW S, S \subseteq Member
  PROVE  /\ IsFiniteSet(S) /\ Cardinality(S) \in Nat
         /\ \E order : Ascending(order, Cardinality(S), S)
  <1> DEFINE Good == {n \in Nat : \A T \in SUBSET Member :
                        Cardinality(T) = n => \E order : Ascending(order, n, T)}
  <1>1. \A T \in SUBSET Member : IsFiniteSet(T) /\ Cardinality(T) \in Nat /\ T \subseteq Nat
    <2>1. IsFiniteSet(Member) /\ Member \subseteq Nat
      BY SizeAssumption, FS_Interval DEF Member
    <2> QED BY <2>1, FS_Subset, FS_CardinalityType
  <1>2. 0 \in Good
    <2> SUFFICES ASSUME NEW T \in SUBSET Member, Cardinality(T) = 0
                 PROVE  \E order : Ascending(order, 0, T)
      OBVIOUS
    <2>1. T = {}
      BY <1>1, FS_EmptySet
    <2>2. Ascending([i \in 1 .. 0 |-> i], 0, T)
      BY <2>1 DEF Ascending
    <2> QED BY <2>2
  <1>3. ASSUME NEW n \in Nat, n \in Good PROVE n + 1 \in Good
    <2> SUFFICES ASSUME NEW T \in SUBSET Member, Cardinality(T) = n + 1
                 PROVE  \E order : Ascending(order, n + 1, T)
      OBVIOUS
    <2>1. T # {} /\ T \subseteq Nat
      BY <1>1, FS_EmptySet
    <2>2. PICK x \in T : \A y \in T : x <= y
      BY <2>1, LeastExists
    <2>3. T \ {x} \in SUBSET Member /\ Cardinality(T \ {x}) = n
      BY <1>1, FS_RemoveElement
    <2>4. PICK order : Ascending(order, n, T \ {x})
      BY <1>3, <2>3
    <2> DEFINE new == [i \in 1 .. n + 1 |-> IF i = 1 THEN x ELSE order[i - 1]]
    <2>5. \A i \in 1 .. n + 1 : i = 1 \/ i - 1 \in 1 .. n
      OBVIOUS
    <2>6. new \in [1 .. n + 1 -> T]
      BY <2>4, <2>5 DEF Ascending
    <2>7. ASSUME NEW i \in 1 .. n + 1, NEW j \in 1 .. n + 1, i < j PROVE new[i] < new[j]
      <3>1. j - 1 \in 1 .. n /\ new[j] = order[j - 1]
        BY <2>7
      <3>2. order[j - 1] \in T /\ order[j - 1] # x
        BY <2>4, <3>1 DEF Ascending
      <3>3. CASE i = 1
        <4>1. new[i] = x /\ x \in Nat /\ order[j - 1] \in Nat
          BY <2>1, <3>2, <3>3
        <4> QED BY <2>2, <3>1, <3>2, <4>1
      <3>4. CASE i # 1
        <4>1. i - 1 \in 1 .. n /\ i - 1 < j - 1 /\ new[i] = order[i - 1]
          BY <2>7, <3>4
        <4> HIDE DEF new
        <4> QED BY <2>4, <3>1, <4>1 DEF Ascending
      <3> QED BY <3>3, <3>4
    <2>8. Ascending(new, n + 1, T)
      <3> HIDE DEF new
      <3> QED BY <2>6, <2>7 DEF Ascending
    <2> HIDE DEF new
    <2> QED BY <2>8
  <1>4. Nat \subseteq Good
    <2> HIDE DEF Good
    <2> QED BY <1>2, <1>3, SetInduction
  <1> QED BY <1>1, <1>4

\* InOrder lists every element of S once.
LEMMA InOrderLists ==
  ASSUME NEW S, S \subseteq Member
  PROVE  /\ Cardinality(S) \in Nat
         /\ InOrder(S) \in [1 .. Cardinality(S) -> S]
         /\ \A i, j \in 1 .. Cardinality(S) : InOrder(S)[i] = InOrder(S)[j] => i = j
         /\ \A x \in S : \E i \in 1 .. Cardinality(S) : InOrder(S)[i] = x
  <1> DEFINE n == Cardinality(S)
             order == InOrder(S)
  <1>1. n \in Nat /\ IsFiniteSet(S) /\ \E o : Ascending(o, n, S)
    BY AscendingExists
  <1>2. Ascending(order, n, S)
    <2>1. \E o \in [1 .. n -> S] : \A i, j \in 1 .. n : i < j => o[i] < o[j]
      BY <1>1 DEF Ascending
    <2>2. /\ order \in [1 .. n -> S]
          /\ \A i, j \in 1 .. n : i < j => order[i] < order[j]
      <3> HIDE DEF n
      <3> QED BY <2>1, Zenon DEF InOrder, n
    <2> QED BY <2>2 DEF Ascending
  <1> HIDE DEF order
  <1>3. order \in [1 .. n -> S] /\ S \subseteq Nat
    BY <1>2, SizeAssumption DEF Ascending, Member
  <1>4. ASSUME NEW i \in 1 .. n, NEW j \in 1 .. n, order[i] = order[j] PROVE i = j
    <2>1. order[i] \in Nat /\ order[j] \in Nat
      BY <1>3
    <2>2. i < j => order[i] < order[j]
      BY <1>2 DEF Ascending
    <2>3. j < i => order[j] < order[i]
      BY <1>2 DEF Ascending
    <2> QED BY <1>1, <1>4, <2>1, <2>2, <2>3
  <1>5. \A x \in S : \E i \in 1 .. n : order[i] = x
    <2> HIDE DEF n
    <2>1. order \in Injection(1 .. n, S)
      BY <1>3, <1>4 DEF Injection, IsInjective
    <2>2. Cardinality(1 .. n) = n
      BY <1>1, FS_Interval
    <2>3. order \in Surjection(1 .. n, S)
      BY <1>1, <2>1, <2>2, FS_Injection DEF n
    <2> QED BY <2>3 DEF Surjection
  <1> QED BY <1>1, <1>3, <1>4, <1>5 DEF order

----------------------------------------------------------------------------
(* The queue.                                                              *)

\* A delivery is told from every other one by its report and its recipient.
Key(d) == <<d.report, d.to>>
KeysOf(q) == {Key(q[i]) : i \in 1 .. Len(q)}
KeyInjective(q) == \A i, j \in 1 .. Len(q) : Key(q[i]) = Key(q[j]) => i = j

\* The elements of a queue.
LEMMA QueueElements ==
  ASSUME NEW q \in Seq(Delivery)
  PROVE  /\ Len(q) \in Nat /\ DOMAIN q = 1 .. Len(q) /\ q \in [1 .. Len(q) -> Delivery]
         /\ ToSet(q) = {q[i] : i \in 1 .. Len(q)}
         /\ DeliveriesOf(ToSet(q)) = KeysOf(q)
  <1>1. Len(q) \in Nat /\ DOMAIN q = 1 .. Len(q) /\ q \in [1 .. Len(q) -> Delivery]
    BY LenProperties
  <1>2. ToSet(q) = {q[i] : i \in 1 .. Len(q)}
    BY <1>1 DEF ToSet
  <1>3. DeliveriesOf(ToSet(q)) = KeysOf(q)
    BY <1>2 DEF DeliveriesOf, KeysOf, Key
  <1> QED BY <1>1, <1>2, <1>3

\* A queue without repetition has as many deliveries as keys.
LEMMA KeyCount ==
  ASSUME NEW q \in Seq(Delivery), KeyInjective(q)
  PROVE  IsFiniteSet(KeysOf(q)) /\ Cardinality(KeysOf(q)) = Len(q)
  <1> DEFINE n == Len(q)
             f == [i \in 1 .. n |-> Key(q[i])]
  <1>1. n \in Nat
    BY QueueElements
  <1>2. f \in Bijection(1 .. n, KeysOf(q))
    <2>1. f \in [1 .. n -> KeysOf(q)] /\ \A i, j \in 1 .. n : f[i] = f[j] => i = j
      BY DEF KeysOf, KeyInjective
    <2>2. \A x \in KeysOf(q) : \E i \in 1 .. n : f[i] = x
      BY DEF KeysOf
    <2> HIDE DEF f, n
    <2> QED BY <2>1, <2>2 DEF Bijection, Injection, Surjection, IsInjective
  <1>3. IsFiniteSet(1 .. n) /\ Cardinality(1 .. n) = n
    BY <1>1, FS_Interval
  <1> HIDE DEF f
  <1> QED BY <1>2, <1>3, FS_Bijection DEF ExistsBijection

\* RemoveAtSwap takes one delivery out and keeps the others.
LEMMA RemovalEffect ==
  ASSUME NEW q \in Seq(Delivery), NEW i \in 1 .. Len(q)
  PROVE  LET r == RemoveAtSwap(q, i)
         IN  /\ r \in Seq(Delivery) /\ Len(r) = Len(q) - 1
             /\ \A j \in 1 .. Len(q) - 1 : r[j] = IF j = i THEN q[Len(q)] ELSE q[j]
             /\ KeyInjective(q) => KeyInjective(r) /\ ToSet(r) = ToSet(q) \ {q[i]}
  <1> DEFINE r == RemoveAtSwap(q, i)
             n == Len(q)
  <1>1. n \in Nat \ {0} /\ n - 1 \in Nat /\ \A j \in 1 .. n : q[j] \in Delivery
    BY QueueElements
  <1>2. r = [j \in 1 .. n - 1 |-> IF j = i THEN q[n] ELSE q[j]]
    BY DEF RemoveAtSwap
  <1>3. \A j \in 1 .. n - 1 : r[j] = IF j = i THEN q[n] ELSE q[j]
    BY <1>2
  <1>4. r \in Seq(Delivery) /\ Len(r) = n - 1
    <2>1. r \in [1 .. n - 1 -> Delivery]
      <3> HIDE DEF r, n
      <3> QED BY <1>1, <1>2
    <2> HIDE DEF r, n
    <2> QED BY <1>1, <2>1
  <1> DEFINE at(j) == IF j = i THEN n ELSE j
  <1>5. \A j \in 1 .. n - 1 : r[j] = q[at(j)] /\ at(j) \in 1 .. n /\ at(j) # i
    BY <1>1, <1>3
  <1>6. \A j, l \in 1 .. n - 1 : at(j) = at(l) => j = l
    BY <1>1
  <1>7. \A l \in 1 .. n : l # i => \E j \in 1 .. n - 1 : at(j) = l
    <2> SUFFICES ASSUME NEW l \in 1 .. n, l # i PROVE \E j \in 1 .. n - 1 : at(j) = l
      OBVIOUS
    <2>1. CASE l = n
      BY <1>1, <2>1
    <2>2. CASE l # n
      BY <1>1, <2>2
    <2> QED BY <2>1, <2>2
  <1> HIDE DEF r, n, at
  <1>8. ASSUME KeyInjective(q) PROVE KeyInjective(r) /\ ToSet(r) = ToSet(q) \ {q[i]}
    <2>1. \A j, l \in 1 .. n : Key(q[j]) = Key(q[l]) => j = l
      BY <1>8 DEF KeyInjective, n
    <2>2. KeyInjective(r)
      BY <1>4, <1>5, <1>6, <2>1 DEF KeyInjective
    <2>3. ToSet(r) = {r[j] : j \in 1 .. n - 1} /\ ToSet(q) = {q[j] : j \in 1 .. n}
      BY <1>4, QueueElements DEF n
    <2>4. i \in 1 .. n
      BY DEF n
    <2>5. \A j \in 1 .. n : q[j] = q[i] => j = i
      BY <2>1, <2>4
    <2>6. ToSet(r) \subseteq ToSet(q) \ {q[i]}
      BY <1>5, <2>3, <2>5
    <2>7. ToSet(q) \ {q[i]} \subseteq ToSet(r)
      BY <1>5, <1>7, <2>3
    <2> QED BY <2>2, <2>6, <2>7
  <1> QED BY <1>3, <1>4, <1>8 DEF r, n

\* RemoveAtSwap of anything leaves a queue.
LEMMA RemovalType ==
  ASSUME NEW q \in Seq(Delivery), NEW i \in Int
  PROVE  RemoveAtSwap(q, i) \in Seq(Delivery)
  <1> DEFINE n == Len(q)
  <1>1. n \in Nat /\ \A j \in 1 .. n : q[j] \in Delivery
    BY QueueElements
  <1>2. CASE n = 0
    <2>1. RemoveAtSwap(q, i) = [j \in 1 .. 0 |-> IF j = i THEN q[Len(q)] ELSE q[j]]
      BY <1>2 DEF RemoveAtSwap
    <2>2. RemoveAtSwap(q, i) \in [1 .. 0 -> Delivery]
      BY <2>1
    <2> QED BY <2>2
  <1>3. CASE n # 0
    <2>1. n - 1 \in Nat
      BY <1>1, <1>3
    <2>2. RemoveAtSwap(q, i) \in [1 .. n - 1 -> Delivery]
      BY <1>1, <1>3 DEF RemoveAtSwap
    <2> HIDE DEF n
    <2> QED BY <2>1, <2>2
  <1> QED BY <1>2, <1>3

\* after[k] is the queue once the walk of Phase_DeliverPendingReports did k steps.
IsSweep(after) ==
  /\ after[0] = queue
  /\ \A k \in 1 .. Len(queue) :
       after[k] = IF Due(after[k - 1][Len(queue) + 1 - k])
                  THEN RemoveAtSwap(after[k - 1], Len(queue) + 1 - k) ELSE after[k - 1]

\* The recursive function of Swept is that walk.
LEMMA SweptIsSweep ==
  ASSUME queue \in Seq(Delivery)
  PROVE  \E after : IsSweep(after) /\ Swept = after[Len(queue)]
  <1> DEFINE n == Len(queue)
             Eq(f) == [k \in 0 .. Len(queue) |->
                         LET i == Len(queue) + 1 - k
                         IN  IF k = 0 THEN queue
                             ELSE IF Due(f[k - 1][i]) THEN RemoveAtSwap(f[k - 1], i)
                             ELSE f[k - 1]]
             step == [p \in Seq(Delivery) \X (1 .. n) |->
                        IF Due(p[1][n + 1 - p[2]]) THEN RemoveAtSwap(p[1], n + 1 - p[2]) ELSE p[1]]
             Next1(q, k) == IF Due(q[n + 1 - k]) THEN RemoveAtSwap(q, n + 1 - k) ELSE q
  <1>1. n \in Nat
    BY QueueElements
  <1>2. ASSUME NEW f
        PROVE  Eq(f)[0] = queue /\ \A k \in 1 .. n : Eq(f)[k] = Next1(f[k - 1], k)
    <2>1. Eq(f)[0] = queue
      BY <1>1
    <2>2. \A k \in 1 .. n : Eq(f)[k] = Next1(f[k - 1], k)
      BY <1>1
    <2> HIDE DEF Eq, Next1
    <2> QED BY <2>1, <2>2
  <1>3. \E f : f = Eq(f)
    <2>1. \A q \in Seq(Delivery), k \in 1 .. n : Next1(q, k) \in Seq(Delivery)
      BY <1>1, RemovalType
    <2>2. /\ step = [p \in Seq(Delivery) \X (1 .. n) |-> Next1(p[1], p[2])]
          /\ \A q \in Seq(Delivery), k \in 1 .. n : step[<<q, k>>] = Next1(q, k)
      OBVIOUS
    <2>3. step \in [Seq(Delivery) \X (1 .. n) -> Seq(Delivery)]
      <3> HIDE DEF step, Next1, n
      <3> QED BY <2>1, <2>2
    <2>4. PICK g \in [0 .. n -> Seq(Delivery)] : IsWalk(g, n, queue, step)
      <3> HIDE DEF step, n
      <3> QED BY <1>1, <2>3, WalkExists
    <2>5. g[0] = queue /\ \A k \in 1 .. n : g[k] = Next1(g[k - 1], k)
      <3>1. \A k \in 1 .. n : g[k - 1] \in Seq(Delivery)
        BY <1>1
      <3> HIDE DEF step, Next1, n
      <3>2. g[0] = queue /\ \A k \in 1 .. n : g[k] = step[<<g[k - 1], k>>]
        BY <2>4 DEF IsWalk
      <3> QED BY <2>2, <3>1, <3>2
    <2>6. \A k \in 0 .. n : g[k] = Eq(g)[k]
      <3> HIDE DEF Eq, Next1, n
      <3>1. Eq(g)[0] = queue /\ \A k \in 1 .. n : Eq(g)[k] = Next1(g[k - 1], k)
        BY <1>2, Zenon
      <3> QED BY <1>1, <2>5, <3>1
    <2>7. g = Eq(g)
      BY <2>6
    <2> HIDE DEF Eq
    <2> QED BY <2>7
  <1> DEFINE after == CHOOSE f : f = Eq(f)
  <1>4. after = Eq(after)
    <2> HIDE DEF Eq
    <2> QED BY <1>3
  <1>5. Swept = after[n]
    BY DEF Swept
  <1>6. after[0] = queue /\ \A k \in 1 .. n : after[k] = Next1(after[k - 1], k)
    <2> HIDE DEF Eq, after, Next1, n
    <2> QED BY <1>2, <1>4
  <1> HIDE DEF after
  <1>7. IsSweep(after)
    BY <1>6, Zenon DEF IsSweep
  <1> QED BY <1>5, <1>7

\* A squad tick takes what is due, and nothing else, out of the queue: the delivery that
\* RemoveAtSwap moves under the walk was looked at before.
LEMMA SweepEffect ==
  ASSUME queue \in Seq(Delivery), KeyInjective(queue)
  PROVE  /\ Swept \in Seq(Delivery) /\ Len(Swept) <= Len(queue)
         /\ KeyInjective(Swept)
         /\ ToSet(Swept) = {d \in ToSet(queue) : ~Due(d)}
  <1> DEFINE n == Len(queue)
             Left(k) == {queue[j] : j \in {l \in 1 .. n : l <= n - k \/ ~Due(queue[l])}}
             Fine(q, k) == /\ q \in Seq(Delivery) /\ Len(q) <= n /\ Len(q) >= n - k
                           /\ \A j \in 1 .. n - k : q[j] = queue[j]
                           /\ KeyInjective(q)
                           /\ ToSet(q) = Left(k)
  <1>1. n \in Nat /\ ToSet(queue) = {queue[j] : j \in 1 .. n}
    BY QueueElements
  <1>2. PICK after : IsSweep(after) /\ Swept = after[n]
    BY SweptIsSweep
  <1>3. \A j, l \in 1 .. n : queue[j] = queue[l] => j = l
    BY DEF KeyInjective
  <1> DEFINE S == {k \in 0 .. n : Fine(after[k], k)}
  <1>4. 0 \in S
    <2>1. after[0] = queue
      BY <1>2 DEF IsSweep
    <2>2. Left(0) = {queue[j] : j \in 1 .. n}
      BY <1>1
    <2>3. Fine(queue, 0)
      <3> HIDE DEF Left, n
      <3> QED BY <1>1, <2>2 DEF n
    <2> HIDE DEF Fine
    <2> QED BY <1>1, <2>1, <2>3
  <1>5. ASSUME NEW k \in 0 .. n - 1, k \in S PROVE k + 1 \in S
    <2> DEFINE q == after[k]
               i == n - k
    <2>1. k + 1 \in 1 .. n /\ (k + 1) - 1 = k /\ n + 1 - (k + 1) = i /\ i \in 1 .. n /\ n - (k + 1) = i - 1
      BY <1>1
    <2>2. after[k + 1] = IF Due(q[i]) THEN RemoveAtSwap(q, i) ELSE q
      <3>1. after[k + 1] = IF Due(after[(k + 1) - 1][Len(queue) + 1 - (k + 1)])
                           THEN RemoveAtSwap(after[(k + 1) - 1], Len(queue) + 1 - (k + 1))
                           ELSE after[(k + 1) - 1]
        BY <1>2, <2>1 DEF IsSweep
      <3> QED BY <2>1, <3>1
    <2>3. Fine(q, k)
      BY <1>5
    <2> HIDE DEF q
    <2>4. q[i] = queue[i] /\ Len(q) \in Nat /\ i \in 1 .. Len(q)
      <3>1. q \in Seq(Delivery) /\ Len(q) >= i /\ \A j \in 1 .. i : q[j] = queue[j]
        BY <2>3
      <3>2. Len(q) \in Nat
        BY <3>1, QueueElements
      <3> HIDE DEF i, n
      <3> QED BY <1>1, <2>1, <3>1, <3>2
    <2>5. CASE ~Due(queue[i])
      <3>1. after[k + 1] = q
        BY <2>2, <2>4, <2>5
      <3>2. Left(k + 1) = Left(k)
        <4>1. \A l \in 1 .. n : (l <= n - (k + 1) \/ ~Due(queue[l])) <=> (l <= n - k \/ ~Due(queue[l]))
          BY <1>1, <2>5
        <4> QED BY <4>1
      <3>3. Fine(q, k + 1)
        <4>1. /\ q \in Seq(Delivery) /\ Len(q) <= n /\ Len(q) >= n - k
              /\ \A j \in 1 .. n - k : q[j] = queue[j]
              /\ KeyInjective(q) /\ ToSet(q) = Left(k + 1)
          BY <2>3, <3>2
        <4>2. Len(q) >= n - (k + 1) /\ \A j \in 1 .. n - (k + 1) : q[j] = queue[j]
          <5> HIDE DEF n
          <5> QED BY <1>1, <2>4, <4>1
        <4> HIDE DEF Left, n
        <4> QED BY <4>1, <4>2
      <3> HIDE DEF Fine
      <3> QED BY <2>1, <3>1, <3>3
    <2>6. CASE Due(queue[i])
      <3> DEFINE r == RemoveAtSwap(q, i)
      <3>1. after[k + 1] = r
        BY <2>2, <2>4, <2>6
      <3>2. q \in Seq(Delivery) /\ KeyInjective(q) /\ ToSet(q) = Left(k)
            /\ Len(q) <= n /\ Len(q) >= i /\ \A j \in 1 .. i : q[j] = queue[j]
        BY <2>3
      <3>3. /\ r \in Seq(Delivery) /\ Len(r) = Len(q) - 1
            /\ \A j \in 1 .. Len(q) - 1 : r[j] = IF j = i THEN q[Len(q)] ELSE q[j]
            /\ KeyInjective(r) /\ ToSet(r) = ToSet(q) \ {q[i]}
        <4> HIDE DEF i
        <4> QED BY <2>4, <3>2, RemovalEffect
      <3>4. Left(k + 1) = Left(k) \ {queue[i]}
        <4>1. \A l \in 1 .. n : (l <= n - (k + 1) \/ ~Due(queue[l]))
                                  <=> (l <= n - k \/ ~Due(queue[l])) /\ l # i
          BY <1>1, <2>6
        <4> QED BY <1>3, <2>1, <4>1
      <3> HIDE DEF r
      <3>5. Len(r) <= n /\ Len(r) >= n - (k + 1) /\ \A j \in 1 .. n - (k + 1) : r[j] = queue[j]
        <4>1. \A j \in 1 .. i - 1 : j \in 1 .. Len(q) - 1 /\ j # i /\ j \in 1 .. i
          <5> HIDE DEF i
          <5> QED BY <2>1, <2>4
        <4>2. \A j \in 1 .. i - 1 : r[j] = queue[j]
          <5> HIDE DEF i
          <5> QED BY <3>2, <3>3, <4>1
        <4>3. Len(r) <= n /\ Len(r) >= i - 1
          <5> HIDE DEF i, n
          <5> QED BY <1>1, <2>1, <2>4, <3>2, <3>3
        <4> QED BY <2>1, <4>2, <4>3
      <3>6. ToSet(r) = Left(k + 1)
        <4> HIDE DEF Left, i
        <4> QED BY <2>4, <3>2, <3>3, <3>4
      <3>7. Fine(r, k + 1)
        <4> HIDE DEF Left, n
        <4> QED BY <3>3, <3>5, <3>6
      <3> HIDE DEF Fine
      <3> QED BY <2>1, <3>1, <3>7
    <2> QED BY <2>5, <2>6
  <1>6. n \in S
    <2>1. 0 .. n \subseteq S
      <3> HIDE DEF S, n
      <3> QED BY <1>1, <1>4, <1>5, BoundedInduction
    <2> HIDE DEF S
    <2> QED BY <1>1, <2>1
  <1>7. Fine(Swept, n)
    <2> HIDE DEF Fine
    <2> QED BY <1>2, <1>6
  <1>8. Left(n) = {d \in ToSet(queue) : ~Due(d)}
    <2>1. \A l \in 1 .. n : ~(l <= n - n)
      BY <1>1
    <2> QED BY <1>1, <2>1
  <1> HIDE DEF Left
  <1> QED BY <1>7, <1>8

\* Two queues without a common delivery, one after the other.
LEMMA JoinedQueues ==
  ASSUME NEW q \in Seq(Delivery), NEW r \in Seq(Delivery), KeyInjective(q), KeyInjective(r),
         KeysOf(q) \cap KeysOf(r) = {}
  PROVE  /\ q \o r \in Seq(Delivery) /\ KeyInjective(q \o r)
         /\ KeysOf(q \o r) = KeysOf(q) \cup KeysOf(r)
  <1> DEFINE m == Len(q)
             n == Len(r)
             b == q \o r
  <1>1. m \in Nat /\ n \in Nat
    BY QueueElements
  <1>2. /\ b \in Seq(Delivery) /\ Len(b) = m + n
        /\ \A i \in 1 .. m + n : b[i] = IF i <= m THEN q[i] ELSE r[i - m]
    BY ConcatProperties
  <1> HIDE DEF b
  <1>3. /\ \A i \in 1 .. m : Key(q[i]) \in KeysOf(q)
        /\ \A i \in 1 .. n : Key(r[i]) \in KeysOf(r)
    BY DEF KeysOf
  <1>4. /\ \A i, j \in 1 .. m : Key(q[i]) = Key(q[j]) => i = j
        /\ \A i, j \in 1 .. n : Key(r[i]) = Key(r[j]) => i = j
    BY DEF KeyInjective
  <1>5. KeysOf(b) = {Key(b[i]) : i \in 1 .. m + n}
    BY <1>2 DEF KeysOf
  <1>6. KeysOf(q) = {Key(q[i]) : i \in 1 .. m} /\ KeysOf(r) = {Key(r[i]) : i \in 1 .. n}
    BY DEF KeysOf
  <1> HIDE DEF m, n
  <1>7. \A i \in 1 .. m + n : (i <= m => i \in 1 .. m) /\ (~(i <= m) => i - m \in 1 .. n)
    BY <1>1
  <1>8. ASSUME NEW i \in 1 .. m + n, NEW j \in 1 .. m + n, Key(b[i]) = Key(b[j]) PROVE i = j
    <2>1. CASE i <= m /\ j <= m
      BY <1>2, <1>4, <1>7, <1>8, <2>1
    <2>2. CASE ~(i <= m) /\ ~(j <= m)
      <3>1. i - m = j - m
        BY <1>2, <1>4, <1>7, <1>8, <2>2
      <3> QED BY <1>1, <3>1
    <2>3. CASE i <= m /\ ~(j <= m)
      BY <1>2, <1>3, <1>7, <1>8, <2>3
    <2>4. CASE ~(i <= m) /\ j <= m
      BY <1>2, <1>3, <1>7, <1>8, <2>4
    <2> QED BY <2>1, <2>2, <2>3, <2>4
  <1>9. KeyInjective(b)
    BY <1>2, <1>8 DEF KeyInjective
  <1>10. KeysOf(b) \subseteq KeysOf(q) \cup KeysOf(r)
    BY <1>2, <1>3, <1>5, <1>7
  <1>11. KeysOf(q) \subseteq KeysOf(b)
    <2>1. \A i \in 1 .. m : i \in 1 .. m + n /\ i <= m
      BY <1>1
    <2> QED BY <1>2, <1>5, <1>6, <2>1
  <1>12. KeysOf(r) \subseteq KeysOf(b)
    <2>1. \A i \in 1 .. n : m + i \in 1 .. m + n /\ ~(m + i <= m) /\ (m + i) - m = i
      BY <1>1
    <2>2. \A i \in 1 .. n : b[m + i] = r[i]
      BY <1>2, <2>1
    <2> QED BY <1>5, <1>6, <2>1, <2>2
  <1> QED BY <1>2, <1>9, <1>10, <1>11, <1>12 DEF b

\* A queue that is cut in two.
LEMMA CutQueue ==
  ASSUME NEW b \in Seq(Delivery), KeyInjective(b), NEW o \in 0 .. Len(b)
  PROVE  LET kept == SubSeq(b, o + 1, Len(b))
             dropped == SubSeq(b, 1, o)
         IN  /\ kept \in Seq(Delivery) /\ Len(kept) = Len(b) - o /\ KeyInjective(kept)
             /\ KeysOf(kept) \cup DeliveriesOf(ToSet(dropped)) = KeysOf(b)
             /\ KeysOf(kept) \cap DeliveriesOf(ToSet(dropped)) = {}
  <1> DEFINE n == Len(b)
             kept == SubSeq(b, o + 1, Len(b))
             dropped == SubSeq(b, 1, o)
  <1>1. n \in Nat /\ o \in Nat /\ o <= n /\ \A i \in 1 .. n : b[i] \in Delivery
    BY QueueElements
  <1>2. /\ kept \in Seq(Delivery) /\ Len(kept) = n - o
        /\ \A i \in 1 .. n - o : kept[i] = b[o + i]
    <2>1. \A i \in o + 1 .. n : b[i] \in Delivery
      BY <1>1
    <2>2. /\ kept \in Seq(Delivery)
          /\ Len(kept) = IF o + 1 <= n THEN n - (o + 1) + 1 ELSE 0
          /\ \A i \in 1 .. n - (o + 1) + 1 : kept[i] = b[(o + 1) + i - 1]
      BY <1>1, <2>1, SubSeqProperties
    <2>3. n - (o + 1) + 1 = n - o /\ (~(o + 1 <= n) => n - o = 0)
          /\ \A i \in 1 .. n - o : (o + 1) + i - 1 = o + i
      BY <1>1
    <2> HIDE DEF kept, n
    <2> QED BY <2>2, <2>3
  <1>3. /\ dropped \in Seq(Delivery) /\ Len(dropped) = o
        /\ \A i \in 1 .. o : dropped[i] = b[i]
    <2>1. \A i \in 1 .. o : b[i] \in Delivery
      BY <1>1
    <2>2. /\ dropped \in Seq(Delivery)
          /\ Len(dropped) = IF 1 <= o THEN o - 1 + 1 ELSE 0
          /\ \A i \in 1 .. o - 1 + 1 : dropped[i] = b[1 + i - 1]
      BY <1>1, <2>1, SubSeqProperties
    <2>3. o - 1 + 1 = o /\ (~(1 <= o) => o = 0) /\ \A i \in 1 .. o : 1 + i - 1 = i
      BY <1>1
    <2> HIDE DEF dropped, n
    <2> QED BY <2>2, <2>3
  <1>4. DeliveriesOf(ToSet(dropped)) = KeysOf(dropped)
    BY <1>3, QueueElements
  <1> HIDE DEF kept, dropped
  <1>5. \A i, j \in 1 .. n : Key(b[i]) = Key(b[j]) => i = j
    BY DEF KeyInjective
  <1>6. /\ KeysOf(b) = {Key(b[i]) : i \in 1 .. n}
        /\ KeysOf(kept) = {Key(kept[i]) : i \in 1 .. n - o}
        /\ KeysOf(dropped) = {Key(dropped[i]) : i \in 1 .. o}
    BY <1>2, <1>3 DEF KeysOf
  <1> HIDE DEF n
  <1>7. \A i \in 1 .. n - o : o + i \in 1 .. n /\ o + i > o
    BY <1>1
  <1>8. \A i \in 1 .. o : i \in 1 .. n /\ ~(i > o)
    BY <1>1
  <1>9. \A i \in 1 .. n : i \in 1 .. o \/ (i - o \in 1 .. n - o /\ o + (i - o) = i)
    BY <1>1
  <1>10. KeyInjective(kept)
    <2> SUFFICES ASSUME NEW i \in 1 .. n - o, NEW j \in 1 .. n - o, Key(kept[i]) = Key(kept[j])
                 PROVE  i = j
      BY <1>2 DEF KeyInjective
    <2>1. o + i = o + j
      BY <1>2, <1>5, <1>7
    <2> QED BY <1>1, <2>1
  <1>11. KeysOf(kept) \cup KeysOf(dropped) \subseteq KeysOf(b)
    BY <1>2, <1>3, <1>6, <1>7, <1>8
  <1>12. KeysOf(b) \subseteq KeysOf(kept) \cup KeysOf(dropped)
    <2> SUFFICES ASSUME NEW i \in 1 .. n PROVE Key(b[i]) \in KeysOf(kept) \cup KeysOf(dropped)
      BY <1>6
    <2>1. CASE i \in 1 .. o
      BY <1>3, <1>6, <2>1
    <2>2. CASE i - o \in 1 .. n - o /\ o + (i - o) = i
      <3>1. kept[i - o] = b[i]
        BY <1>2, <2>2
      <3> QED BY <1>6, <2>2, <3>1
    <2> QED BY <1>9, <2>1, <2>2
  <1>13. KeysOf(kept) \cap KeysOf(dropped) = {}
    BY <1>2, <1>3, <1>5, <1>6, <1>7, <1>8
  <1>14. KeysOf(kept) \cup DeliveriesOf(ToSet(dropped)) = KeysOf(b)
         /\ KeysOf(kept) \cap DeliveriesOf(ToSet(dropped)) = {}
    BY <1>4, <1>11, <1>12, <1>13
  <1> QED BY <1>2, <1>10, <1>14, Zenon DEF kept, dropped, n

\* The queue stays within its depth, and what is added is kept or thrown away, not both.
LEMMA EnqueuedEffect ==
  ASSUME queue \in Seq(Delivery), NEW added \in Seq(Delivery),
         KeyInjective(queue), KeyInjective(added), KeysOf(queue) \cap KeysOf(added) = {}
  PROVE  /\ Enqueued(added).kept \in Seq(Delivery) /\ Len(Enqueued(added).kept) <= MaxDepth
         /\ KeyInjective(Enqueued(added).kept)
         /\ KeysOf(Enqueued(added).kept) \cup DeliveriesOf(Enqueued(added).out)
              = KeysOf(queue) \cup KeysOf(added)
         /\ KeysOf(Enqueued(added).kept) \cap DeliveriesOf(Enqueued(added).out) = {}
  <1> DEFINE both == queue \o added
             o == IF Len(both) > MaxDepth THEN Len(both) - MaxDepth ELSE 0
  <1>1. both \in Seq(Delivery) /\ KeyInjective(both) /\ KeysOf(both) = KeysOf(queue) \cup KeysOf(added)
    BY JoinedQueues
  <1>2. Enqueued(added).kept = SubSeq(both, o + 1, Len(both))
        /\ Enqueued(added).out = ToSet(SubSeq(both, 1, o))
    BY DEF Enqueued
  <1> HIDE DEF both
  <1>3. Len(both) \in Nat /\ MaxDepth \in Nat
    BY <1>1, QueueElements, SizeAssumption
  <1>4. o \in 0 .. Len(both) /\ Len(both) - o <= MaxDepth
    BY <1>3
  <1> HIDE DEF o
  <1>5. /\ SubSeq(both, o + 1, Len(both)) \in Seq(Delivery)
        /\ Len(SubSeq(both, o + 1, Len(both))) = Len(both) - o
        /\ KeyInjective(SubSeq(both, o + 1, Len(both)))
        /\ KeysOf(SubSeq(both, o + 1, Len(both))) \cup DeliveriesOf(ToSet(SubSeq(both, 1, o))) = KeysOf(both)
        /\ KeysOf(SubSeq(both, o + 1, Len(both))) \cap DeliveriesOf(ToSet(SubSeq(both, 1, o))) = {}
    BY <1>1, <1>4, CutQueue
  <1> QED BY <1>1, <1>2, <1>4, <1>5, Zenon

\* One delivery is added for every recipient.
LEMMA AddressedEffect ==
  ASSUME NEW report \in 1 .. MaxReports, NEW t \in Target, NEW S, S \subseteq Member,
         NEW delay \in [S -> Delay]
  PROVE  /\ Addressed(report, t, S, delay) \in Seq(Delivery)
         /\ KeyInjective(Addressed(report, t, S, delay))
         /\ KeysOf(Addressed(report, t, S, delay)) = {report} \X S
  <1> DEFINE n == Cardinality(S)
             order == InOrder(S)
             added == Addressed(report, t, S, delay)
  <1>1. /\ n \in Nat /\ order \in [1 .. n -> S]
        /\ \A i, j \in 1 .. n : order[i] = order[j] => i = j
        /\ \A x \in S : \E i \in 1 .. n : order[i] = x
    BY InOrderLists
  <1>2. added = [i \in 1 .. n |->
                   [report |-> report, target |-> t, to |-> order[i], left |-> delay[order[i]]]]
    BY DEF Addressed
  <1> HIDE DEF n, order, added
  <1>3. \A i \in 1 .. n : delay[order[i]] \in 0 .. Slowest
    <2>1. \A i \in 1 .. n : delay[order[i]] \in Delay
      BY <1>1
    <2> QED BY <2>1, SlowestBounds
  <1>4. \A i \in 1 .. n : added[i] \in Delivery
    BY <1>1, <1>2, <1>3 DEF Delivery
  <1>5. added \in Seq(Delivery) /\ Len(added) = n
    <2>1. added \in [1 .. n -> Delivery]
      BY <1>2, <1>4
    <2> QED BY <1>1, <2>1
  <1>6. \A i \in 1 .. n : Key(added[i]) = <<report, order[i]>>
    BY <1>2 DEF Key
  <1>7. KeyInjective(added)
    BY <1>1, <1>5, <1>6 DEF KeyInjective
  <1>8. KeysOf(added) = {report} \X S
    <2>1. KeysOf(added) = {Key(added[i]) : i \in 1 .. n}
      BY <1>5 DEF KeysOf
    <2>2. KeysOf(added) = {<<report, order[i]>> : i \in 1 .. n}
      BY <1>6, <2>1
    <2>3. {<<report, order[i]>> : i \in 1 .. n} = {<<report, x>> : x \in S}
      BY <1>1
    <2> QED BY <2>2, <2>3
  <1> QED BY <1>5, <1>7, <1>8 DEF added

----------------------------------------------------------------------------
(* The book.                                                               *)

\* A full book has a weakest entry.
LEMMA WorstIsEntry ==
  ASSUME known \in Seq(KnownThreat), Len(known) > 0
  PROVE  Worst \in 1 .. Len(known)
  <1> DEFINE n == Len(known)
             T == {Score(known[i]) : i \in 1 .. n}
  <1>1. n \in Nat \ {0} /\ \A i \in 1 .. n : known[i] \in KnownThreat
    BY LenProperties
  <1>2. \A i \in 1 .. n : Score(known[i]) \in Nat
    <2> SUFFICES ASSUME NEW i \in 1 .. n PROVE Score(known[i]) \in Nat
      OBVIOUS
    <2>1. known[i].threat \in Nat /\ known[i].confidence \in Nat
      BY <1>1, DataAssumption DEF KnownThreat
    <2> QED BY <2>1 DEF Score
  <1>3. PICK s \in T : \A x \in T : s <= x
    <2>1. T \subseteq Nat /\ T # {}
      BY <1>1, <1>2
    <2> HIDE DEF T
    <2> QED BY <2>1, LeastExists
  <1> DEFINE I == {i \in 1 .. n : Score(known[i]) = s}
  <1>4. PICK w \in I : \A i \in I : w <= i
    <2>1. I \subseteq Nat /\ I # {}
      BY <1>3
    <2> HIDE DEF I
    <2> QED BY <2>1, LeastExists
  <1>5. \A j \in 1 .. n : \/ Score(known[w]) < Score(known[j])
                          \/ Score(known[w]) = Score(known[j]) /\ w <= j
    <2> SUFFICES ASSUME NEW j \in 1 .. n, Score(known[j]) # s
                 PROVE  Score(known[w]) < Score(known[j])
      BY <1>4
    <2>1. Score(known[j]) \in T /\ s <= Score(known[j]) /\ Score(known[w]) = s
      BY <1>3, <1>4
    <2>2. s \in Nat /\ Score(known[j]) \in Nat
      BY <1>2, <1>3
    <2> QED BY <2>1, <2>2
  <1>6. \E i \in 1 .. n : \A j \in 1 .. n : \/ Score(known[i]) < Score(known[j])
                                            \/ Score(known[i]) = Score(known[j]) /\ i <= j
    BY <1>4, <1>5
  <1> QED BY <1>6, Zenon DEF Worst

\* What MergeIntoKnownThreats makes of the book: the entry is in it once at most, and
\* whatever else is in it stays in its place and is about another target.
LEMMA MergedEffect ==
  ASSUME known \in Seq(KnownThreat), Len(known) <= MaxKnown, BookIsFresh,
         NEW e \in KnownThreat, e.target \notin gone
  PROVE  /\ Merged(e) \in Seq(KnownThreat) /\ Len(Merged(e)) <= MaxKnown
         /\ \A j \in 1 .. Len(Merged(e)) :
              \/ Merged(e)[j] = e
              \/ /\ j \in 1 .. Len(known) /\ Merged(e)[j] = known[j]
                 /\ known[j].target # e.target
         /\ \A j, l \in 1 .. Len(Merged(e)) : Merged(e)[j] = e /\ Merged(e)[l] = e => j = l
  <1> DEFINE n == Len(known)
             M == Merged(e)
             Right(q) == /\ q \in Seq(KnownThreat) /\ Len(q) <= MaxKnown
                         /\ \A j \in 1 .. Len(q) :
                              q[j] = e \/ (j \in 1 .. n /\ q[j] = known[j] /\ known[j].target # e.target)
                         /\ \A j, l \in 1 .. Len(q) : q[j] = e /\ q[l] = e => j = l
  <1>1. n \in Nat /\ MaxKnown \in Nat \ {0} /\ \A i \in 1 .. n : known[i] \in KnownThreat
    BY LenProperties, SizeAssumption
  <1>2. Entries(e.target) = {i \in 1 .. n : known[i].target = e.target}
    BY DEF Entries
  <1>3. CASE Entries(e.target) # {}
    <2> DEFINE q == [i \in 1 .. n |-> IF i \in Entries(e.target) THEN e ELSE known[i]]
    <2>1. M = q
      BY <1>3 DEF Merged
    <2>2. \A i, j \in 1 .. n : known[i].target = e.target /\ known[j].target = e.target => i = j
      BY DEF BookIsFresh
    <2>3. q \in [1 .. n -> KnownThreat] /\ \A i \in 1 .. n : q[i] = IF i \in Entries(e.target) THEN e ELSE known[i]
      <3> HIDE DEF n
      <3> QED BY <1>1
    <2> HIDE DEF q
    <2>4. q \in Seq(KnownThreat) /\ Len(q) = n
      <3> HIDE DEF n
      <3> QED BY <1>1, <2>3
    <2>5. Right(q)
      <3> HIDE DEF n
      <3>1. Len(q) <= MaxKnown
        BY <2>4 DEF n
      <3>2. \A j \in 1 .. n : q[j] = e \/ (j \in 1 .. n /\ q[j] = known[j] /\ known[j].target # e.target)
        BY <1>2, <2>3
      <3>3. \A j, l \in 1 .. n : q[j] = e /\ q[l] = e => j = l
        BY <1>2, <2>2, <2>3
      <3> QED BY <2>4, <3>1, <3>2, <3>3
    <2> HIDE DEF Right, M
    <2> QED BY <2>1, <2>5 DEF Right, M, n
  <1>4. CASE Entries(e.target) = {}
    <2>1. \A i \in 1 .. n : known[i].target # e.target /\ known[i] # e
      BY <1>2, <1>4
    <2>2. CASE n < MaxKnown
      <3>1. M = Append(known, e)
        BY <1>4, <2>2 DEF Merged
      <3>2. /\ M \in Seq(KnownThreat) /\ Len(M) = n + 1 /\ M[n + 1] = e
            /\ \A i \in 1 .. n : M[i] = known[i]
        BY <3>1, AppendProperties
      <3> HIDE DEF M, n
      <3>3. \A j \in 1 .. n + 1 : j \in 1 .. n \/ j = n + 1
        BY <1>1
      <3>4. Right(M)
        <4>1. Len(M) <= MaxKnown
          BY <1>1, <2>2, <3>2
        <4>2. \A j \in 1 .. n + 1 : M[j] = e \/ (j \in 1 .. n /\ M[j] = known[j] /\ known[j].target # e.target)
          BY <2>1, <3>2, <3>3
        <4>3. \A j, l \in 1 .. n + 1 : M[j] = e /\ M[l] = e => j = l
          BY <2>1, <3>2, <3>3
        <4> QED BY <3>2, <4>1, <4>2, <4>3
      <3> HIDE DEF Right
      <3> QED BY <3>4 DEF Right, M, n
    <2>3. CASE ~(n < MaxKnown) /\ Score(e) > Score(known[Worst])
      <3>1. M = [known EXCEPT ![Worst] = e]
        BY <1>4, <2>3 DEF Merged
      <3>2. Worst \in 1 .. n
        BY <1>1, <2>3, WorstIsEntry
      <3>3. /\ M \in Seq(KnownThreat) /\ Len(M) = n
            /\ \A j \in 1 .. n : M[j] = IF j = Worst THEN e ELSE known[j]
        BY <3>1, <3>2, ExceptSeq
      <3> HIDE DEF M, n
      <3>4. Right(M)
        <4>1. Len(M) <= MaxKnown
          BY <3>3 DEF n
        <4>2. \A j \in 1 .. n : M[j] = e \/ (j \in 1 .. n /\ M[j] = known[j] /\ known[j].target # e.target)
          BY <2>1, <3>3
        <4>3. \A j, l \in 1 .. n : M[j] = e /\ M[l] = e => j = l
          BY <2>1, <3>3
        <4> QED BY <3>3, <4>1, <4>2, <4>3
      <3> HIDE DEF Right
      <3> QED BY <3>4 DEF Right, M, n
    <2>4. CASE ~(n < MaxKnown) /\ ~(Score(e) > Score(known[Worst]))
      <3>1. M = known
        BY <1>4, <2>4 DEF Merged
      <3> QED BY <2>1, <3>1
    <2> QED BY <2>2, <2>3, <2>4
  <1> QED BY <1>3, <1>4

----------------------------------------------------------------------------
(* The inductive invariant.                                                *)

\* Whatever was sent is on its way, was heard, or is lost, and never two of these.
Parted ==
  /\ Sent = Pending \cup heard \cup lost
  /\ Pending \cap heard = {} /\ Pending \cap lost = {} /\ heard \cap lost = {}

\* No delivery is twice in the queue, and the three ends are apart.
IInv == TypeOK /\ KeyInjective(queue) /\ Parted /\ BookIsFresh

LogEntry == [target : Target, to : SUBSET Member]

\* What a log says was sent.
SentBy(l) == UNION {{r} \X l[r].to : r \in 1 .. Len(l)}

\* One more report sends its own deliveries, and they are new.
LEMMA LogGrows ==
  ASSUME NEW l \in Seq(LogEntry), NEW x \in LogEntry
  PROVE  /\ Append(l, x) \in Seq(LogEntry) /\ Len(Append(l, x)) = Len(l) + 1 /\ Len(l) \in Nat
         /\ \A r \in 1 .. Len(l) : Append(l, x)[r] = l[r]
         /\ Append(l, x)[Len(l) + 1] = x
         /\ SentBy(Append(l, x)) = SentBy(l) \cup ({Len(l) + 1} \X x.to)
         /\ SentBy(l) \cap ({Len(l) + 1} \X x.to) = {}
  <1> DEFINE n == Len(l)
             a == Append(l, x)
  <1>1. /\ n \in Nat /\ a \in Seq(LogEntry) /\ Len(a) = n + 1
        /\ (\A r \in 1 .. n : a[r] = l[r]) /\ a[n + 1] = x
    BY DEF LogEntry
  <1>2. SentBy(a) = UNION {{r} \X a[r].to : r \in 1 .. n + 1}
    BY <1>1 DEF SentBy
  <1> DEFINE first == UNION {{r} \X a[r].to : r \in 1 .. n}
             last == {n + 1} \X a[n + 1].to
  <1>3. 1 .. n + 1 = (1 .. n) \cup {n + 1}
    BY <1>1
  <1>4. SentBy(a) = first \cup last
    <2> HIDE DEF a, n
    <2> QED BY <1>2, <1>3, Zenon
  <1>5. SentBy(l) = first
    <2>1. \A r \in 1 .. n : {r} \X l[r].to = {r} \X a[r].to
      BY <1>1, Zenon
    <2>2. {{r} \X l[r].to : r \in 1 .. n} = {{r} \X a[r].to : r \in 1 .. n}
      <3> DEFINE lp(r) == {r} \X l[r].to
                 ap(r) == {r} \X a[r].to
      <3>1. \A r \in 1 .. n : lp(r) = ap(r)
        BY <2>1
      <3> HIDE DEF lp, ap, a, n
      <3>2. {lp(r) : r \in 1 .. n} = {ap(r) : r \in 1 .. n}
        BY <3>1
      <3> QED BY <3>2 DEF lp, ap
    <2> QED BY <2>2, Zenon DEF SentBy
  <1>6. SentBy(l) \cap last = {}
    <2> SUFFICES ASSUME NEW y \in first, y \in last PROVE FALSE
      BY <1>5
    <2>1. PICK r \in 1 .. n : y \in {r} \X a[r].to
      OBVIOUS
    <2>2. y[1] = r /\ y[1] = n + 1
      BY <2>1
    <2> QED BY <2>2, <1>1
  <1>7. last = {n + 1} \X x.to
    BY <1>1
  <1> HIDE DEF a, first, last, n
  <1>8. SentBy(a) = SentBy(l) \cup ({n + 1} \X x.to) /\ SentBy(l) \cap ({n + 1} \X x.to) = {}
    BY <1>4, <1>5, <1>6, <1>7
  <1> QED BY <1>1, <1>8 DEF a, n

\* A report that was sent has a number and a recipient.
LEMMA SentIsNumbered ==
  ASSUME NEW l \in Seq(LogEntry)
  PROVE  SentBy(l) \subseteq (1 .. Len(l)) \X Member
  <1> SUFFICES ASSUME NEW y \in SentBy(l) PROVE y \in (1 .. Len(l)) \X Member
    OBVIOUS
  <1>1. PICK r \in 1 .. Len(l) : y \in {r} \X l[r].to
    BY DEF SentBy
  <1>2. l[r] \in LogEntry
    OBVIOUS
  <1>3. l[r].to \subseteq Member
    BY <1>2 DEF LogEntry
  <1> QED BY <1>1, <1>3

\* Time that passes leaves every delivery what it was.
LEMMA LapsedDelivery ==
  ASSUME NEW d \in Delivery
  PROVE  /\ [d EXCEPT !.left = Lapsed(@)] \in Delivery
         /\ Key([d EXCEPT !.left = Lapsed(@)]) = Key(d)
  BY SlowestBounds DEF Delivery, Key, Lapsed

\* A countdown stays within its bound.
LEMMA LapsedBound ==
  ASSUME NEW n \in Nat, NEW k \in 0 .. n
  PROVE  Lapsed(k) \in 0 .. n
  BY DEF Lapsed

\* The initial state.
LEMMA Initially ==
  ASSUME Init
  PROVE  IInv
  <1>1. TypeOK
    <2>1. Cooldown \in Nat /\ Second \in Nat /\ MaxPerSecond \in Nat /\ MaxKnown \in Nat
          /\ MaxDepth \in Nat /\ MaxReports \in Nat
      BY RadioAssumption, SizeAssumption
    <2> QED BY <2>1 DEF Init, TypeOK
  <1>2. KeyInjective(queue) /\ KeysOf(queue) = {} /\ Pending = {}
    <2>1. queue \in Seq(Delivery) /\ Len(queue) = 0
      BY DEF Init
    <2>2. Pending = KeysOf(queue)
      BY <2>1, QueueElements DEF Pending
    <2> QED BY <2>1, <2>2 DEF KeyInjective, KeysOf
  <1>3. Sent = {}
    BY DEF Init, Sent
  <1>4. Parted
    BY <1>2, <1>3 DEF Init, Parted
  <1>5. BookIsFresh
    BY DEF Init, BookIsFresh
  <1> QED BY <1>1, <1>2, <1>4, <1>5 DEF IInv

\* What the invariant says, in the words of the lemmas.
LEMMA Meaning ==
  ASSUME TypeOK
  PROVE  /\ queue \in Seq(Delivery) /\ log \in Seq(LogEntry) /\ known \in Seq(KnownThreat)
         /\ Len(log) \in Nat /\ Len(known) \in Nat /\ Len(queue) \in Nat
         /\ Pending = KeysOf(queue) /\ Sent = SentBy(log)
         /\ heard \subseteq (1 .. MaxReports) \X Member /\ lost \subseteq (1 .. MaxReports) \X Member
  <1>1. queue \in Seq(Delivery) /\ log \in Seq(LogEntry) /\ known \in Seq(KnownThreat)
        /\ heard \subseteq (1 .. MaxReports) \X Member /\ lost \subseteq (1 .. MaxReports) \X Member
    BY DEF TypeOK, LogEntry
  <1>2. Pending = KeysOf(queue)
    BY <1>1, QueueElements DEF Pending
  <1> QED BY <1>1, <1>2 DEF Sent, SentBy

----------------------------------------------------------------------------
(* SubmitContactReport.                                                    *)

\* An accepted report keeps the types and the limits of the radio.
LEMMA AcceptType ==
  ASSUME TypeOK, BookIsFresh, NEW m \in Member, NEW t \in Target, NEW p \in Place, NEW seen \in Seen,
         NEW threat \in Threat, Accept(m, t, p, seen, threat)
  PROVE  /\ alive' = alive /\ gone' = gone
         /\ cooling' \in [Member -> [Target -> 0 .. Cooldown]]
         /\ window' \in 0 .. Second /\ inWindow' \in 0 .. MaxPerSecond
         /\ log' \in Seq(LogEntry) /\ Len(log') = Len(log) + 1 /\ Len(log') \in 1 .. MaxReports
         /\ [target |-> t, place |-> p, threat |-> threat,
             confidence |-> Confidence(seen), report |-> Len(log')] \in KnownThreat
  <1>1. /\ Cooldown \in Nat /\ Second \in Nat /\ MaxPerSecond \in Nat /\ MaxReports \in Nat
        /\ seen \in Nat /\ threat \in Nat /\ SharedCap \in Nat
    BY RadioAssumption, SizeAssumption, DataAssumption
  <1>2. window' \in 0 .. Second
    BY <1>1 DEF Accept, TypeOK
  <1>3. inWindow' \in 0 .. MaxPerSecond
    BY <1>1 DEF Accept, TypeOK, ReportsInWindow
  <1>4. cooling' \in [Member -> [Target -> 0 .. Cooldown]]
    <2>1. cooling \in [Member -> [Target -> 0 .. Cooldown]] /\ Cooldown \in 0 .. Cooldown
      BY <1>1 DEF TypeOK
    <2>2. cooling' = [cooling EXCEPT ![m][t] = Cooldown]
      BY DEF Accept
    <2> QED BY <2>1, <2>2
  <1>5. [target |-> t, to |-> Recipients(m)] \in LogEntry
    BY DEF LogEntry, Recipients, TypeOK
  <1>6. log' \in Seq(LogEntry) /\ Len(log') = Len(log) + 1 /\ Len(log) \in Nat
    BY <1>5, LogGrows, Meaning DEF Accept
  <1>7. Len(log') \in 1 .. MaxReports
    BY <1>6, <1>1 DEF Accept
  <1>8. Confidence(seen) \in Nat
    BY <1>1 DEF Confidence, MinOf
  <1> QED BY <1>1, <1>2, <1>3, <1>4, <1>6, <1>7, <1>8 DEF KnownThreat, Accept

\* An accepted report leaves one entry of its target in the book, its own.
LEMMA AcceptBook ==
  ASSUME TypeOK, BookIsFresh, NEW m \in Member, NEW t \in Target, NEW p \in Place, NEW seen \in Seen,
         NEW threat \in Threat, Accept(m, t, p, seen, threat)
  PROVE  BookIsFresh' /\ known' \in Seq(KnownThreat) /\ Len(known') <= MaxKnown
  <1> DEFINE e == [target |-> t, place |-> p, threat |-> threat,
                   confidence |-> Confidence(seen), report |-> Len(log')]
  <1>1. e \in KnownThreat /\ e.target = t /\ e.report = Len(log') /\ t \notin gone
    BY AcceptType DEF Accept
  <1>2. known' = Merged(e) /\ gone' = gone
    BY DEF Accept
  <1>3. /\ known' \in Seq(KnownThreat) /\ Len(known') <= MaxKnown
        /\ \A j \in 1 .. Len(known') :
             \/ known'[j] = e
             \/ j \in 1 .. Len(known) /\ known'[j] = known[j] /\ known[j].target # t
        /\ \A j, l \in 1 .. Len(known') : known'[j] = e /\ known'[l] = e => j = l
    <2>1. known \in Seq(KnownThreat) /\ Len(known) <= MaxKnown
      BY DEF TypeOK
    <2> HIDE DEF e
    <2> QED BY <1>1, <1>2, <2>1, MergedEffect
  <1>4. /\ Len(log) \in Nat /\ Len(log') = Len(log) + 1
        /\ \A r \in 1 .. Len(log) : log'[r] = log[r]
        /\ log'[Len(log')].target = t
    <2>1. [target |-> t, to |-> Recipients(m)] \in LogEntry
      BY DEF LogEntry, Recipients, TypeOK
    <2> QED BY <2>1, LogGrows, Meaning DEF Accept
  <1> HIDE DEF e
  <1>5. ASSUME NEW i \in 1 .. Len(known'), known'[i].target \notin gone, NEW r \in 1 .. Len(log'),
               log'[r].target = known'[i].target
        PROVE  r <= known'[i].report
    <2>1. CASE known'[i] = e
      BY <2>1, <1>1, <1>4
    <2>2. CASE i \in 1 .. Len(known) /\ known'[i] = known[i] /\ known[i].target # t
      <3>1. r # Len(log')
        BY <2>2, <1>4, <1>5
      <3>2. r \in 1 .. Len(log) /\ log'[r] = log[r]
        BY <3>1, <1>4
      <3> QED BY <2>2, <3>2, <1>5 DEF BookIsFresh
    <2> QED BY <2>1, <2>2, <1>3
  <1>6. ASSUME NEW i \in 1 .. Len(known'), NEW j \in 1 .. Len(known'), known'[i].target \notin gone,
               i # j
        PROVE  known'[i].target # known'[j].target
    <2>1. CASE known'[i] = e /\ known'[j] = e
      BY <2>1, <1>3, <1>6
    <2>2. CASE known'[i] = e /\ known'[j] # e
      BY <2>2, <1>3, <1>1
    <2>3. CASE known'[i] # e /\ known'[j] = e
      BY <2>3, <1>3, <1>1
    <2>4. CASE known'[i] # e /\ known'[j] # e
      BY <2>4, <1>3, <1>6 DEF BookIsFresh
    <2> QED BY <2>1, <2>2, <2>3, <2>4
  <1>7. BookIsFresh'
    BY <1>2, <1>5, <1>6 DEF BookIsFresh
  <1> QED BY <1>3, <1>7

\* An accepted report is new: what is queued or dropped of it meets no delivery before it.
LEMMA AcceptQueue ==
  ASSUME IInv, NEW m \in Member, NEW t \in Target, NEW p \in Place, NEW seen \in Seen,
         NEW threat \in Threat, Accept(m, t, p, seen, threat)
  PROVE  /\ queue' \in Seq(Delivery) /\ Len(queue') <= MaxDepth /\ KeyInjective(queue')
         /\ lost' \subseteq (1 .. MaxReports) \X Member
         /\ SentBy(log') = KeysOf(queue') \cup heard' \cup lost'
         /\ KeysOf(queue') \cap heard' = {} /\ KeysOf(queue') \cap lost' = {} /\ heard' \cap lost' = {}
  <1> DEFINE n == Len(log')
             S == Recipients(m)
  <1>1. /\ TypeOK /\ KeyInjective(queue) /\ SentBy(log) = KeysOf(queue) \cup heard \cup lost
        /\ KeysOf(queue) \cap heard = {} /\ KeysOf(queue) \cap lost = {} /\ heard \cap lost = {}
    BY Meaning DEF IInv, Parted
  <1>2. S \subseteq Member
    BY <1>1 DEF Recipients, TypeOK
  <1>3. PICK delay \in [S -> Delay] :
          /\ queue' = Enqueued(Addressed(n, t, S, delay)).kept
          /\ lost' = lost \cup DeliveriesOf(Enqueued(Addressed(n, t, S, delay)).out)
    BY DEF Accept
  <1> DEFINE added == Addressed(n, t, S, delay)
             kept == KeysOf(queue')
             out == DeliveriesOf(Enqueued(added).out)
  <1>4. n \in 1 .. MaxReports
    BY AcceptType DEF IInv
  <1>5. added \in Seq(Delivery) /\ KeyInjective(added) /\ KeysOf(added) = {n} \X S
    <2> HIDE DEF S, n
    <2> QED BY <1>2, <1>4, AddressedEffect
  <1>6. SentBy(log') = SentBy(log) \cup ({n} \X S) /\ SentBy(log) \cap ({n} \X S) = {}
    <2>1. [target |-> t, to |-> S] \in LogEntry /\ log' = Append(log, [target |-> t, to |-> S])
      BY <1>2 DEF LogEntry, Accept
    <2>2. log \in Seq(LogEntry)
      BY Meaning, <1>1
    <2>3. n = Len(log) + 1
      BY <2>1, <2>2, LogGrows
    <2> HIDE DEF n, S
    <2> QED BY <2>1, <2>2, <2>3, LogGrows
  <1> HIDE DEF added, n, S
  <1>7. /\ queue' \in Seq(Delivery) /\ Len(queue') <= MaxDepth /\ KeyInjective(queue')
        /\ kept \cup out = KeysOf(queue) \cup KeysOf(added) /\ kept \cap out = {}
    <2>1. queue \in Seq(Delivery) /\ KeysOf(queue) \cap KeysOf(added) = {}
      BY <1>1, <1>5, <1>6, Meaning
    <2> QED BY <2>1, <1>1, <1>3, <1>5, EnqueuedEffect DEF added
  <1>8. heard' = heard /\ lost' = lost \cup out
    BY <1>3 DEF Accept, added
  <1> HIDE DEF kept, out
  <1>9. /\ SentBy(log') = kept \cup heard' \cup lost'
        /\ kept \cap heard' = {} /\ kept \cap lost' = {} /\ heard' \cap lost' = {}
    BY <1>1, <1>5, <1>6, <1>7, <1>8
  <1>10. lost' \subseteq (1 .. MaxReports) \X Member
    <2>1. out \subseteq (1 .. MaxReports) \X Member
      <3>1. {n} \X S \subseteq (1 .. MaxReports) \X Member
        BY <1>2, <1>4
      <3>2. KeysOf(queue) \subseteq (1 .. MaxReports) \X Member
        <4> SUFFICES ASSUME NEW i \in 1 .. Len(queue)
                     PROVE  Key(queue[i]) \in (1 .. MaxReports) \X Member
          BY DEF KeysOf
        <4>1. queue[i] \in Delivery
          BY <1>1, Meaning
        <4> QED BY <4>1 DEF Key, Delivery
      <3> QED BY <3>1, <3>2, <1>5, <1>7
    <2> QED BY <2>1, <1>1, <1>8, Meaning
  <1> QED BY <1>7, <1>9, <1>10 DEF kept

\* An accepted report keeps the invariant.
LEMMA AcceptKeeps ==
  ASSUME IInv, NEW m \in Member, NEW t \in Target, NEW p \in Place, NEW seen \in Seen,
         NEW threat \in Threat, Accept(m, t, p, seen, threat)
  PROVE  IInv'
  <1>1. TypeOK /\ BookIsFresh
    BY DEF IInv
  <1>2. /\ queue' \in Seq(Delivery) /\ Len(queue') <= MaxDepth /\ KeyInjective(queue')
        /\ lost' \subseteq (1 .. MaxReports) \X Member
        /\ SentBy(log') = KeysOf(queue') \cup heard' \cup lost'
        /\ KeysOf(queue') \cap heard' = {} /\ KeysOf(queue') \cap lost' = {} /\ heard' \cap lost' = {}
    BY AcceptQueue
  <1>3. BookIsFresh' /\ known' \in Seq(KnownThreat) /\ Len(known') <= MaxKnown
    BY <1>1, AcceptBook
  <1>4. /\ alive' \subseteq Member /\ gone' \subseteq Target
        /\ cooling' \in [Member -> [Target -> 0 .. Cooldown]]
        /\ window' \in 0 .. Second /\ inWindow' \in 0 .. MaxPerSecond
        /\ log' \in Seq([target : Target, to : SUBSET Member]) /\ Len(log') <= MaxReports
    <2>1. Len(log') <= MaxReports
      <3>1. Len(log') \in 1 .. MaxReports
        BY <1>1, AcceptType, Zenon
      <3> QED BY <3>1, SizeAssumption
    <2>2. alive' = alive /\ gone' = gone
      BY <1>1, AcceptType
    <2>3. alive \subseteq Member /\ gone \subseteq Target
      BY <1>1 DEF TypeOK
    <2> QED BY <1>1, <2>1, <2>2, <2>3, AcceptType, Zenon DEF LogEntry
  <1>5. heard' \subseteq (1 .. MaxReports) \X Member
    BY <1>1, Meaning DEF Accept
  <1>6. {heard', lost'} \subseteq SUBSET ((1 .. MaxReports) \X Member)
    BY <1>2, <1>5
  <1>7. TypeOK'
    BY <1>2, <1>3, <1>4, <1>6, Zenon DEF TypeOK, Member, KnownThreat, Delivery
  <1>8. Parted'
    BY <1>2, <1>7, QueueElements DEF Parted, Pending, Sent, SentBy
  <1> QED BY <1>2, <1>3, <1>7, <1>8 DEF IInv

----------------------------------------------------------------------------
(* A squad tick, and what happens between two ticks.                       *)

\* A tick moves what is due to one of its two ends, and leaves the rest.
LEMMA TickEffect ==
  ASSUME IInv, NEW hears \in SUBSET Member, Tick(hears)
  PROVE  /\ queue' \in Seq(Delivery) /\ Len(queue') <= MaxDepth /\ KeyInjective(queue')
         /\ ToSet(queue') = {d \in ToSet(queue) : ~Due(d)}
         /\ {heard', lost'} \subseteq SUBSET ((1 .. MaxReports) \X Member)
         /\ KeysOf(queue') \cup heard' \cup lost' = KeysOf(queue) \cup heard \cup lost
         /\ KeysOf(queue') \cap heard' = {} /\ KeysOf(queue') \cap lost' = {} /\ heard' \cap lost' = {}
  <1> DEFINE all == ToSet(queue)
             due == {d \in all : Due(d)}
             got == {d \in due : Delivers(d, hears)}
             rest == {d \in all : ~Due(d)}
  <1>1. /\ TypeOK /\ queue \in Seq(Delivery) /\ Len(queue) <= MaxDepth /\ KeyInjective(queue)
        /\ KeysOf(queue) \cap heard = {} /\ KeysOf(queue) \cap lost = {} /\ heard \cap lost = {}
    BY Meaning DEF IInv, Parted, TypeOK
  <1>2. /\ queue' \in Seq(Delivery) /\ Len(queue') <= Len(queue) /\ KeyInjective(queue')
        /\ ToSet(queue') = rest
    BY <1>1, SweepEffect DEF Tick
  <1>3. Len(queue') <= MaxDepth
    <2>1. Len(queue) \in Nat /\ Len(queue') \in Nat /\ MaxDepth \in Nat
      BY <1>1, <1>2, SizeAssumption
    <2> QED BY <1>1, <1>2, <2>1
  <1>4. heard' = heard \cup DeliveriesOf(got) /\ lost' = lost \cup DeliveriesOf(due \ got)
    BY DEF Tick
  <1>5. all = {queue[i] : i \in 1 .. Len(queue)} /\ KeysOf(queue) = DeliveriesOf(all)
        /\ KeysOf(queue') = DeliveriesOf(rest)
    BY <1>1, <1>2, QueueElements
  <1>6. \A d, c \in all : Key(d) = Key(c) => d = c
    BY <1>1, <1>5 DEF KeyInjective
  <1>7. \A A, B : A \subseteq all /\ B \subseteq all /\ A \cap B = {}
                    => DeliveriesOf(A) \cap DeliveriesOf(B) = {}
    <2> SUFFICES ASSUME NEW A, NEW B, A \subseteq all, B \subseteq all, A \cap B = {},
                        NEW x \in DeliveriesOf(A), x \in DeliveriesOf(B)
                 PROVE  FALSE
      OBVIOUS
    <2>1. PICK a \in A : x = <<a.report, a.to>>
      BY DEF DeliveriesOf
    <2>2. PICK b \in B : x = <<b.report, b.to>>
      BY DEF DeliveriesOf
    <2>3. a = b
      BY <1>6, <2>1, <2>2 DEF Key
    <2> QED BY <2>3
  <1>8. /\ DeliveriesOf(all) = DeliveriesOf(rest) \cup DeliveriesOf(got) \cup DeliveriesOf(due \ got)
    BY DEF DeliveriesOf
  <1>9. /\ DeliveriesOf(rest) \cap DeliveriesOf(got) = {}
        /\ DeliveriesOf(rest) \cap DeliveriesOf(due \ got) = {}
        /\ DeliveriesOf(got) \cap DeliveriesOf(due \ got) = {}
    <2>1. rest \subseteq all /\ got \subseteq all /\ due \ got \subseteq all
      OBVIOUS
    <2>2. rest \cap got = {} /\ rest \cap (due \ got) = {} /\ got \cap (due \ got) = {}
      OBVIOUS
    <2> HIDE DEF all, rest, due, got
    <2> QED BY <1>7, <2>1, <2>2, Zenon
  <1>10. DeliveriesOf(all) \subseteq (1 .. MaxReports) \X Member
    <2> SUFFICES ASSUME NEW d \in all PROVE <<d.report, d.to>> \in (1 .. MaxReports) \X Member
      BY DEF DeliveriesOf
    <2>1. d \in Delivery
      BY <1>1, <1>5
    <2> QED BY <2>1 DEF Delivery
  <1> HIDE DEF rest, got, due, all
  <1>11. {heard', lost'} \subseteq SUBSET ((1 .. MaxReports) \X Member)
    <2>1. heard \subseteq (1 .. MaxReports) \X Member /\ lost \subseteq (1 .. MaxReports) \X Member
      BY <1>1, Meaning
    <2> QED BY <2>1, <1>4, <1>8, <1>10
  <1>12. /\ KeysOf(queue') \cup heard' \cup lost' = KeysOf(queue) \cup heard \cup lost
         /\ KeysOf(queue') \cap heard' = {} /\ KeysOf(queue') \cap lost' = {} /\ heard' \cap lost' = {}
    <2>1. ASSUME NEW R, NEW G, NEW L, NEW H, NEW O,
                 R \cap G = {}, R \cap L = {}, G \cap L = {},
                 (R \cup G \cup L) \cap H = {}, (R \cup G \cup L) \cap O = {}, H \cap O = {}
          PROVE  /\ R \cup (H \cup G) \cup (O \cup L) = (R \cup G \cup L) \cup H \cup O
                 /\ R \cap (H \cup G) = {} /\ R \cap (O \cup L) = {}
                 /\ (H \cup G) \cap (O \cup L) = {}
      BY <2>1
    <2>2. KeysOf(queue) = DeliveriesOf(rest) \cup DeliveriesOf(got) \cup DeliveriesOf(due \ got)
      BY <1>5, <1>8, Zenon
    <2> DEFINE R == DeliveriesOf(rest)
               G == DeliveriesOf(got)
               L == DeliveriesOf(due \ got)
    <2>3. /\ R \cap G = {} /\ R \cap L = {} /\ G \cap L = {} /\ heard \cap lost = {}
          /\ (R \cup G \cup L) \cap heard = {} /\ (R \cup G \cup L) \cap lost = {}
      BY <1>1, <1>9, <2>2, Zenon
    <2>4. KeysOf(queue) = R \cup G \cup L /\ KeysOf(queue') = R
      BY <1>5, <2>2, Zenon
    <2>5. heard' = heard \cup G /\ lost' = lost \cup L
      BY <1>4, Zenon
    <2> HIDE DEF R, G, L
    <2> QED BY <2>1, <2>3, <2>4, <2>5, Zenon
  <1> QED BY <1>2, <1>3, <1>11, <1>12 DEF rest, all

\* A squad tick keeps the invariant.
LEMMA TickKeeps ==
  ASSUME IInv, NEW hears \in SUBSET Member, Tick(hears)
  PROVE  IInv'
  <1>1. /\ queue' \in Seq(Delivery) /\ Len(queue') <= MaxDepth /\ KeyInjective(queue')
        /\ {heard', lost'} \subseteq SUBSET ((1 .. MaxReports) \X Member)
        /\ KeysOf(queue') \cup heard' \cup lost' = KeysOf(queue) \cup heard \cup lost
        /\ KeysOf(queue') \cap heard' = {} /\ KeysOf(queue') \cap lost' = {} /\ heard' \cap lost' = {}
    BY TickEffect
  <1>2. alive' = hears /\ UNCHANGED <<gone, cooling, window, inWindow, known, log>>
    BY DEF Tick, radioVars
  <1>3. TypeOK
    BY DEF IInv
  <1>4. TypeOK'
    BY <1>1, <1>2, <1>3, Zenon DEF TypeOK, Member, KnownThreat, Delivery
  <1>5. Parted'
    <2>1. Pending' = KeysOf(queue')
      BY <1>1, QueueElements DEF Pending
    <2>2. Sent' = Sent
      BY <1>2 DEF Sent
    <2>3. Sent = KeysOf(queue) \cup heard \cup lost
      BY <1>3, Meaning DEF IInv, Parted
    <2> QED BY <1>1, <2>1, <2>2, <2>3, Zenon DEF Parted
  <1>6. BookIsFresh'
    BY <1>2 DEF IInv, BookIsFresh
  <1> QED BY <1>1, <1>4, <1>5, <1>6 DEF IInv

\* Time that passes keeps the invariant: the deliveries come nearer and stay the same.
LEMMA ElapseKeeps ==
  ASSUME IInv, Elapse
  PROVE  IInv'
  <1>1. /\ TypeOK /\ queue \in Seq(Delivery) /\ Len(queue) \in Nat /\ KeyInjective(queue)
        /\ Len(queue) <= MaxDepth
    BY Meaning DEF IInv, TypeOK
  <1>2. UNCHANGED <<alive, gone, inWindow, known, log, heard, lost>>
    BY DEF Elapse, historyVars
  <1>3. cooling' \in [Member -> [Target -> 0 .. Cooldown]] /\ window' \in 0 .. Second
    <2>1. Cooldown \in Nat /\ Second \in Nat
      BY RadioAssumption
    <2>2. window' \in 0 .. Second
      BY <1>1, <2>1, LapsedBound DEF TypeOK, Elapse
    <2>3. \A m \in Member, t \in Target : Lapsed(cooling[m][t]) \in 0 .. Cooldown
      BY <1>1, <2>1, LapsedBound DEF TypeOK
    <2> QED BY <2>2, <2>3 DEF Elapse
  <1> DEFINE later(d) == [d EXCEPT !.left = Lapsed(@)]
  <1>4. \A d \in Delivery : later(d) \in Delivery /\ Key(later(d)) = Key(d)
    BY LapsedDelivery
  <1>5. queue' = [i \in 1 .. Len(queue) |-> later(queue[i])]
    BY Zenon DEF Elapse
  <1>6. \A i \in 1 .. Len(queue) : queue[i] \in Delivery
    BY <1>1
  <1> HIDE DEF later
  <1>7. queue' \in Seq(Delivery) /\ Len(queue') = Len(queue)
        /\ \A i \in 1 .. Len(queue) : Key(queue'[i]) = Key(queue[i])
    <2>1. queue' \in [1 .. Len(queue) -> Delivery]
      BY <1>4, <1>5, <1>6
    <2>2. queue' \in Seq(Delivery) /\ Len(queue') = Len(queue)
      BY <1>1, <2>1
    <2>3. \A i \in 1 .. Len(queue) : queue'[i] = later(queue[i])
      BY <1>5
    <2> QED BY <1>4, <1>6, <2>2, <2>3
  <1>8. KeyInjective(queue') /\ KeysOf(queue') = KeysOf(queue)
    <2>1. KeyInjective(queue')
      BY <1>1, <1>7, Zenon DEF KeyInjective
    <2>2. ASSUME NEW x PROVE x \in KeysOf(queue') <=> x \in KeysOf(queue)
      BY <1>7, Zenon DEF KeysOf
    <2> QED BY <2>1, <2>2
  <1>9. TypeOK'
    <2>1. Len(queue') <= MaxDepth
      BY <1>1, <1>7
    <2> QED BY <1>1, <1>2, <1>3, <1>7, <2>1, Zenon DEF TypeOK, Member, KnownThreat, Delivery
  <1>10. Parted'
    <2>1. Pending' = KeysOf(queue')
      BY <1>7, QueueElements DEF Pending
    <2>2. Sent' = Sent /\ Pending = KeysOf(queue)
      BY <1>1, <1>2, Meaning DEF Sent
    <2> QED BY <1>2, <1>8, <2>1, <2>2 DEF Parted, IInv
  <1>11. BookIsFresh'
    BY <1>2 DEF IInv, BookIsFresh
  <1> QED BY <1>8, <1>9, <1>10, <1>11 DEF IInv

\* The steps that leave the queue, the book and the log alone keep the invariant.
LEMMA OthersKeep ==
  ASSUME IInv,
         UNCHANGED <<queue, known, log, heard, lost, cooling>>,
         alive' \subseteq Member, gone' \subseteq Target, gone \subseteq gone',
         window' \in 0 .. Second, inWindow' \in 0 .. MaxPerSecond
  PROVE  IInv'
  <1>1. TypeOK
    BY DEF IInv
  <1>2. TypeOK'
    BY <1>1, Zenon DEF TypeOK, Member, KnownThreat, Delivery
  <1>3. KeyInjective(queue')
    BY DEF IInv, KeyInjective
  <1>4. Parted'
    BY DEF IInv, Parted, Pending, Sent
  <1>5. BookIsFresh'
    BY DEF IInv, BookIsFresh
  <1> QED BY <1>2, <1>3, <1>4, <1>5 DEF IInv

\* Every step keeps the invariant.
LEMMA Steps ==
  ASSUME IInv, [Next]_vars
  PROVE  IInv'
  <1>1. TypeOK /\ Second \in Nat /\ MaxPerSecond \in Nat
    BY RadioAssumption DEF IInv
  <1>2. ASSUME NEW m \in Member, NEW t \in Target, NEW p \in Place, NEW seen \in Seen,
               NEW threat \in Threat, Accept(m, t, p, seen, threat)
        PROVE  IInv'
    BY <1>2, AcceptKeeps
  <1>3. ASSUME NEW m \in Member, NEW t \in Target, NEW p \in Place, RefuseCooling(m, t, p)
        PROVE  IInv'
    <2>1. /\ UNCHANGED <<queue, known, log, heard, lost, cooling>>
          /\ alive' \subseteq Member /\ gone' \subseteq Target /\ gone \subseteq gone'
          /\ window' \in 0 .. Second /\ inWindow' \in 0 .. MaxPerSecond
      BY <1>1, <1>3 DEF RefuseCooling, historyVars, TypeOK
    <2> QED BY <2>1, OthersKeep
  <1>4. ASSUME SquadTick PROVE IInv'
    BY <1>4, TickKeeps DEF SquadTick
  <1>5. ASSUME NEW m \in Member, MemberFalls(m) PROVE IInv'
    <2>1. /\ UNCHANGED <<queue, known, log, heard, lost, cooling>>
          /\ alive' \subseteq Member /\ gone' \subseteq Target /\ gone \subseteq gone'
          /\ window' \in 0 .. Second /\ inWindow' \in 0 .. MaxPerSecond
      BY <1>1, <1>5 DEF MemberFalls, historyVars, radioVars, TypeOK
    <2> QED BY <2>1, OthersKeep
  <1>6. ASSUME NEW t \in Target, TargetDestroyed(t) PROVE IInv'
    <2>1. /\ UNCHANGED <<queue, known, log, heard, lost, cooling>>
          /\ alive' \subseteq Member /\ gone' \subseteq Target /\ gone \subseteq gone'
          /\ window' \in 0 .. Second /\ inWindow' \in 0 .. MaxPerSecond
      BY <1>1, <1>6 DEF TargetDestroyed, historyVars, radioVars, TypeOK
    <2> QED BY <2>1, OthersKeep
  <1>7. ASSUME Elapse PROVE IInv'
    BY <1>7, ElapseKeeps
  <1>8. ASSUME UNCHANGED vars PROVE IInv'
    <2>1. /\ UNCHANGED <<queue, known, log, heard, lost, cooling>>
          /\ alive' \subseteq Member /\ gone' \subseteq Target /\ gone \subseteq gone'
          /\ window' \in 0 .. Second /\ inWindow' \in 0 .. MaxPerSecond
      BY <1>1, <1>8 DEF vars, historyVars, radioVars, TypeOK
    <2> QED BY <2>1, OthersKeep
  <1> QED BY <1>2, <1>3, <1>4, <1>5, <1>6, <1>7, <1>8 DEF Next

----------------------------------------------------------------------------
(* The theorems.                                                           *)

\* The size of two sets that share nothing.
LEMMA DisjointUnion ==
  ASSUME NEW A, NEW B, IsFiniteSet(A), IsFiniteSet(B), A \cap B = {}
  PROVE  IsFiniteSet(A \cup B) /\ Cardinality(A \cup B) = Cardinality(A) + Cardinality(B)
  <1>1. /\ IsFiniteSet(A \cup B)
        /\ Cardinality(A \cup B) = Cardinality(A) + Cardinality(B) - Cardinality(A \cap B)
    BY FS_Union, Zenon
  <1>2. Cardinality(A \cap B) = 0 /\ Cardinality(A) \in Nat /\ Cardinality(B) \in Nat
    BY FS_EmptySet, FS_CardinalityType
  <1> QED BY <1>1, <1>2

\* The inductive invariant holds in every reachable state.
THEOREM Invariant == Spec => []IInv
  <1>1. Init => IInv
    BY Initially
  <1>2. IInv /\ [Next]_vars => IInv'
    BY Steps
  <1> QED BY <1>1, <1>2, PTL DEF Spec

\* Every variable keeps its type, and the queue and the book their limits, whatever the radio
\* delays, the limits and the number of members.
THEOREM TypeCorrect == Spec => []TypeOK
  <1>1. IInv => TypeOK
    BY DEF IInv
  <1> QED BY <1>1, Invariant, PTL

\* The book says of every enemy that is still there the last thing that was reported of it,
\* and says it once (MergeIntoKnownThreats).
THEOREM BookStaysFresh == Spec => []BookIsFresh
  <1>1. IInv => BookIsFresh
    BY DEF IInv
  <1> QED BY <1>1, Invariant, PTL

\* Every delivery meets one end, and the queue never holds one twice (EnqueueContactDeliveries
\* and Phase_DeliverPendingReports).
THEOREM EveryDeliveryEndsOnce == Spec => []OneEnd
  <1>1. ASSUME IInv PROVE OneEnd
    <2>1. /\ queue \in Seq(Delivery) /\ KeyInjective(queue) /\ Len(queue) \in Nat
          /\ Pending = KeysOf(queue) /\ Sent = Pending \cup heard \cup lost
          /\ Pending \cap heard = {} /\ Pending \cap lost = {} /\ heard \cap lost = {}
          /\ heard \subseteq (1 .. MaxReports) \X Member /\ lost \subseteq (1 .. MaxReports) \X Member
      BY <1>1, Meaning DEF IInv, Parted
    <2>2. IsFiniteSet(Pending) /\ Cardinality(Pending) = Len(queue)
      BY <2>1, KeyCount
    <2>3. IsFiniteSet((1 .. MaxReports) \X Member)
      <3>1. MaxReports \in Int /\ N - 1 \in Int
        BY SizeAssumption
      <3>2. IsFiniteSet(1 .. MaxReports) /\ IsFiniteSet(0 .. N - 1)
        BY <3>1, FS_Interval
      <3> QED BY <3>2, FS_Product DEF Member
    <2>4. IsFiniteSet(heard) /\ IsFiniteSet(lost)
      BY <2>1, <2>3, FS_Subset
    <2>5. IsFiniteSet(Pending \cup heard)
          /\ Cardinality(Pending \cup heard) = Cardinality(Pending) + Cardinality(heard)
      BY <2>1, <2>2, <2>4, DisjointUnion, Zenon
    <2>6. Cardinality((Pending \cup heard) \cup lost)
            = Cardinality(Pending \cup heard) + Cardinality(lost)
      <3>1. (Pending \cup heard) \cap lost = {}
        BY <2>1
      <3> QED BY <2>4, <2>5, <3>1, DisjointUnion, Zenon
    <2> QED BY <2>1, <2>2, <2>5, <2>6 DEF OneEnd
  <1> QED BY <1>1, Invariant, PTL

\* What a squad tick must do to the queue.
DueIsDelivered ==
  (\E hears \in SUBSET Member : Tick(hears)) =>
       ToSet(queue') = {d \in ToSet(queue) : d.left > 0}

\* A squad tick leaves nothing in the queue that is due and takes nothing that is not, however
\* RemoveAtSwap reorders the array under the walk of Phase_DeliverPendingReports.
THEOREM DeliveredOnTime == Spec => DeliveredWhenDue
  <1>1. ASSUME IInv, NEW hears \in SUBSET Member, Tick(hears)
        PROVE  ToSet(queue') = {d \in ToSet(queue) : d.left > 0}
    <2>1. ToSet(queue') = {d \in ToSet(queue) : ~Due(d)}
      BY <1>1, TickEffect
    <2>2. \A d \in ToSet(queue) : d \in Delivery
      <3>1. queue \in Seq(Delivery)
        BY <1>1 DEF IInv, TypeOK
      <3> QED BY <3>1, QueueElements
    <2>3. \A d \in Delivery : ~Due(d) <=> d.left > 0
      BY SlowestBounds DEF Delivery, Due
    <2> QED BY <2>1, <2>2, <2>3
  <1>2. IInv /\ [Next]_vars => [DueIsDelivered]_vars
    BY <1>1 DEF DueIsDelivered
  <1>3. Spec => [][DueIsDelivered]_vars
    BY <1>2, Invariant, PTL DEF Spec
  <1> QED BY <1>3, PTL DEF DueIsDelivered, DeliveredWhenDue
=============================================================================
