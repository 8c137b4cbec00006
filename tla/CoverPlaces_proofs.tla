--------------------------- MODULE CoverPlaces_proofs ---------------------------
(***************************************************************************)
(* What holds of the query tokens and the recent places for any number of  *)
(* soldiers and slots, any depth of the history and any window.            *)
(***************************************************************************)
EXTENDS CoverPlaces, SequenceTheorems, FiniteSetTheorems, TLAPS

----------------------------------------------------------------------------
(* The inductive invariant.                                                *)

Visit == [slot : Slot, age : 0 .. RecencyWindow]

\* The walker's newest visit of a place is as far behind the front of the history as there
\* were arrivals since, and carries the time since; an older one is further behind.
Located(x) ==
  /\ later[x] < RecencyDepth =>
       /\ later[x] < Len(history)
       /\ history[later[x] + 1] = [slot |-> x, age |-> since[x]]
  /\ \A k \in 1 .. Len(history) : history[k].slot = x => k > later[x]

Walked ==
  /\ history \in Seq(Visit) /\ Len(history) <= RecencyDepth
  /\ since \in [Slot -> 0 .. RecencyWindow]
  /\ later \in [Slot -> 0 .. RecencyDepth]
  /\ \A x \in Slot : Located(x)

\* No more queries are under way than may be.
Limited == IsFiniteSet(inFlight) /\ Cardinality(inFlight) <= MaxConcurrentQueries

IInv == Walked /\ Limited

----------------------------------------------------------------------------
(* Lemmas about the operators.                                             *)

\* The least of a set of numbers is what no other is below.
LEMMA LeastElement ==
  ASSUME NEW S \in SUBSET Int, NEW a \in S, \A y \in S : a <= y
  PROVE  Min(S) = a
<1>1. \E x \in S : \A y \in S : x =< y
  OBVIOUS
<1>2. Min(S) \in S /\ \A y \in S : Min(S) =< y
  BY <1>1, Zenon DEF Min
<1>3. Min(S) \in Int /\ a \in Int /\ Min(S) <= a /\ a <= Min(S)
  BY <1>2
<1> QED
  BY <1>3

\* The lesser of two numbers.
LEMMA LesserOfTwo ==
  ASSUME NEW a \in Int, NEW b \in Int
  PROVE  Min({a, b}) = IF a <= b THEN a ELSE b
<1>1. CASE a <= b
  BY <1>1, LeastElement
<1>2. CASE ~(a <= b)
  BY <1>2, LeastElement
<1> QED
  BY <1>1, <1>2

\* An arrival goes to the front, the others one place back, and the oldest may fall off.
LEMMA RememberedEntries ==
  ASSUME history \in Seq(Visit), Len(history) <= RecencyDepth, NEW slot \in Slot
  PROVE  /\ Remembered(slot) \in Seq(Visit)
         /\ Len(Remembered(slot)) = IF Len(history) < RecencyDepth THEN Len(history) + 1
                                    ELSE RecencyDepth
         /\ Remembered(slot)[1] = [slot |-> slot, age |-> 0]
         /\ \A k \in 2 .. Len(Remembered(slot)) : Remembered(slot)[k] = history[k - 1]
<1> DEFINE first == <<[slot |-> slot, age |-> 0]>>
           all == first \o history
           n == Min({Len(all), RecencyDepth})
<1>1. first \in Seq(Visit) /\ Len(first) = 1 /\ first[1] = [slot |-> slot, age |-> 0]
  BY TimeAssumption DEF Visit
<1> HIDE DEF first
<1>2. /\ all \in Seq(Visit) /\ Len(all) = Len(history) + 1
      /\ \A k \in 1 .. Len(history) + 1 : all[k] = IF k <= 1 THEN first[k] ELSE history[k - 1]
  <2>1. /\ first \o history \in Seq(Visit)
        /\ Len(first \o history) = Len(first) + Len(history)
        /\ \A k \in 1 .. Len(first) + Len(history) :
             (first \o history)[k] = IF k <= Len(first) THEN first[k] ELSE history[k - Len(first)]
    BY <1>1, ConcatProperties, Zenon
  <2> QED
    BY <1>1, <2>1
<1>3. all[1] = [slot |-> slot, age |-> 0] /\ \A k \in 2 .. Len(all) : all[k] = history[k - 1]
  BY <1>1, <1>2
<1> HIDE DEF all
<1>4. n = (IF Len(history) < RecencyDepth THEN Len(history) + 1 ELSE RecencyDepth)
      /\ n \in 1 .. Len(all)
  BY <1>2, LesserOfTwo, LimitAssumption
<1> HIDE DEF n
<1>5. SubSeq(all, 1, n) \in Seq(Visit) /\ Len(SubSeq(all, 1, n)) = n
      /\ \A k \in 1 .. n : SubSeq(all, 1, n)[k] = all[k]
  BY <1>2, <1>4
<1>6. Remembered(slot) = SubSeq(all, 1, n)
  BY DEF Remembered, all, n, first
<1> QED
  BY <1>3, <1>4, <1>5, <1>6

\* In a history with every place where it belongs the newest arrival decides.
LEMMA LocatedScore ==
  ASSUME Walked, NEW x \in Slot
  PROVE  RecencyScore(x) = IF later[x] < RecencyDepth THEN since[x] ELSE RecencyWindow
<1> DEFINE at == {k \in DOMAIN history : history[k].slot = x}
<1>1. /\ DOMAIN history = 1 .. Len(history) /\ Len(history) \in Nat
      /\ later[x] \in 0 .. RecencyDepth /\ since[x] \in 0 .. RecencyWindow
      /\ RecencyWindow \in Nat /\ RecencyDepth \in Nat /\ Len(history) <= RecencyDepth
  BY TimeAssumption, LimitAssumption DEF Walked
<1>2. \A k \in at : k > later[x] /\ k \in 1 .. Len(history)
  BY <1>1 DEF Walked, Located
<1>3. CASE later[x] < RecencyDepth
  <2>1. later[x] < Len(history) /\ history[later[x] + 1] = [slot |-> x, age |-> since[x]]
    BY <1>3 DEF Walked, Located
  <2>2. later[x] + 1 \in at
    BY <1>1, <2>1
  <2>3. at \in SUBSET Int /\ \A k \in at : later[x] + 1 <= k
    BY <1>1, <1>2
  <2>4. Min(at) = later[x] + 1
    BY <2>2, <2>3, LeastElement
  <2>5. Min({since[x], RecencyWindow}) = since[x]
    BY <1>1, LesserOfTwo
  <2>6. at # {} /\ history[Min(at)].age = since[x]
    BY <2>1, <2>2, <2>4
  <2> QED
    BY <1>3, <2>5, <2>6 DEF RecencyScore
<1>4. CASE ~(later[x] < RecencyDepth)
  <2>1. at = {}
    BY <1>1, <1>2, <1>4
  <2> QED
    BY <1>4, <2>1 DEF RecencyScore
<1> QED
  BY <1>3, <1>4

----------------------------------------------------------------------------
(* The invariant.                                                          *)

\* Nothing was visited and nobody looks for cover at first.
LEMMA InitInv == Init => IInv
<1> SUFFICES ASSUME Init PROVE IInv
  OBVIOUS
<1>1. Walked
  BY TimeAssumption, LimitAssumption DEF Init, Walked, Located
<1>2. Limited
  BY FS_EmptySet, LimitAssumption DEF Init, Limited
<1> QED
  BY <1>1, <1>2 DEF IInv

\* An arrival puts its place at the front and every other one further behind.
LEMMA ArrivalWalked ==
  ASSUME Walked, NEW slot \in Slot, NotifySlotOccupied(slot)
  PROVE  Walked'
<1>1. /\ history' \in Seq(Visit)
      /\ Len(history') = IF Len(history) < RecencyDepth THEN Len(history) + 1 ELSE RecencyDepth
      /\ history'[1] = [slot |-> slot, age |-> 0]
      /\ \A k \in 2 .. Len(history') : history'[k] = history[k - 1]
  BY RememberedEntries DEF NotifySlotOccupied, Walked
<1>2. /\ Len(history) \in Nat /\ Len(history) <= RecencyDepth
      /\ RecencyWindow \in Nat \ {0} /\ RecencyDepth \in Nat \ {0}
      /\ since \in [Slot -> 0 .. RecencyWindow] /\ later \in [Slot -> 0 .. RecencyDepth]
  BY TimeAssumption, LimitAssumption DEF Walked
<1>3. Len(history') \in 1 .. RecencyDepth
  BY <1>1, <1>2
<1>4. since' \in [Slot -> 0 .. RecencyWindow] /\ since'[slot] = 0
      /\ \A x \in Slot \ {slot} : since'[x] = since[x]
  BY <1>2 DEF NotifySlotOccupied
<1>5. \A x \in Slot : later'[x] = IF x = slot THEN 0
                                  ELSE IF later[x] < RecencyDepth THEN later[x] + 1 ELSE RecencyDepth
  <2> SUFFICES ASSUME NEW x \in Slot, x # slot
               PROVE  later'[x] = IF later[x] < RecencyDepth THEN later[x] + 1 ELSE RecencyDepth
    BY DEF NotifySlotOccupied
  <2>1. later'[x] = Min({later[x] + 1, RecencyDepth})
    BY DEF NotifySlotOccupied
  <2> QED
    BY <1>2, <2>1, LesserOfTwo
<1>6. later' \in [Slot -> 0 .. RecencyDepth]
  <2>1. DOMAIN later' = Slot /\ later' = [x \in Slot |-> later'[x]]
    BY DEF NotifySlotOccupied
  <2>2. \A x \in Slot : later'[x] \in 0 .. RecencyDepth
    BY <1>2, <1>5
  <2> QED
    BY <2>1, <2>2
<1>7. ASSUME NEW x \in Slot PROVE Located(x)'
  <2>1. Located(x)
    BY DEF Walked
  <2>2. CASE x = slot
    BY <1>1, <1>2, <1>3, <1>4, <1>5, <2>2 DEF Located
  <2>3. CASE x # slot
    <3>1. ASSUME later'[x] < RecencyDepth
          PROVE  later'[x] < Len(history')
                 /\ history'[later'[x] + 1] = [slot |-> x, age |-> since'[x]]
      <4>1. later[x] < RecencyDepth /\ later'[x] = later[x] + 1 /\ later[x] \in Nat
        BY <1>2, <1>5, <2>3, <3>1
      <4>2. later[x] < Len(history) /\ history[later[x] + 1] = [slot |-> x, age |-> since[x]]
        BY <2>1, <4>1 DEF Located
      <4>3. later'[x] < Len(history')
        BY <1>1, <1>2, <3>1, <4>1, <4>2
      <4>4. history'[later'[x] + 1] = history[later[x] + 1]
        <5>1. later[x] + 2 \in 2 .. Len(history') /\ later'[x] + 1 = later[x] + 2
              /\ (later[x] + 2) - 1 = later[x] + 1
          BY <1>3, <4>1, <4>3
        <5>2. history'[later[x] + 2] = history[(later[x] + 2) - 1]
          BY <1>1, <5>1
        <5> QED
          BY <5>1, <5>2
      <4> QED
        BY <1>4, <2>3, <4>2, <4>3, <4>4
    <3>2. ASSUME NEW k \in 1 .. Len(history'), history'[k].slot = x PROVE k > later'[x]
      <4>1. k # 1
        BY <1>1, <2>3, <3>2
      <4>2. k \in 2 .. Len(history') /\ k - 1 \in 1 .. Len(history)
        BY <1>1, <1>2, <1>3, <4>1
      <4>3. history[k - 1].slot = x
        BY <1>1, <3>2, <4>2
      <4>4. k - 1 > later[x]
        BY <2>1, <4>2, <4>3 DEF Located
      <4>5. later[x] \in 0 .. RecencyDepth
        BY <1>2
      <4> QED
        BY <1>2, <1>3, <1>5, <2>3, <4>2, <4>4, <4>5
    <3> QED
      BY <3>1, <3>2 DEF Located
  <2> QED
    BY <2>2, <2>3
<1> QED
  BY <1>1, <1>3, <1>4, <1>6, <1>7 DEF Walked

\* Time makes a place and its newest visit older alike.
LEMMA ElapseWalked ==
  ASSUME Walked, Elapse
  PROVE  Walked'
<1> DEFINE older(a) == Min({a + 1, RecencyWindow})
<1>1. /\ Len(history) \in Nat /\ DOMAIN history = 1 .. Len(history)
      /\ \A k \in 1 .. Len(history) : history[k] \in Visit
      /\ RecencyWindow \in Nat \ {0} /\ Len(history) <= RecencyDepth
      /\ since \in [Slot -> 0 .. RecencyWindow] /\ later \in [Slot -> 0 .. RecencyDepth]
  BY TimeAssumption DEF Walked
<1>2. \A a \in 0 .. RecencyWindow : older(a) \in 0 .. RecencyWindow
  BY <1>1, LesserOfTwo
<1>3. /\ history' = [k \in 1 .. Len(history) |-> [history[k] EXCEPT !.age = older(@)]]
      /\ since' = [x \in Slot |-> older(since[x])] /\ later' = later
  BY <1>1 DEF Elapse
<1> HIDE DEF older
<1>4. \A v \in Visit : /\ [v EXCEPT !.age = older(@)] \in Visit
                       /\ [v EXCEPT !.age = older(@)] = [slot |-> v.slot, age |-> older(v.age)]
                       /\ [v EXCEPT !.age = older(@)].slot = v.slot
  BY <1>2 DEF Visit
<1>5. \A k \in 1 .. Len(history) :
        /\ history'[k] \in Visit /\ history'[k].slot = history[k].slot
        /\ history'[k] = [slot |-> history[k].slot, age |-> older(history[k].age)]
  BY <1>1, <1>3, <1>4, Zenon
<1>6. history' \in Seq(Visit) /\ Len(history') = Len(history)
  <2>1. history' \in [1 .. Len(history) -> Visit]
    BY <1>3, <1>5
  <2> QED
    BY <1>1, <2>1
<1>7. since' \in [Slot -> 0 .. RecencyWindow]
  BY <1>1, <1>2, <1>3
<1>8. ASSUME NEW x \in Slot PROVE Located(x)'
  <2>1. Located(x) /\ later[x] \in Nat
    BY <1>1 DEF Walked
  <2>2. ASSUME later[x] < RecencyDepth
        PROVE  later[x] < Len(history) /\ history'[later[x] + 1] = [slot |-> x, age |-> since'[x]]
    <3>1. later[x] < Len(history) /\ history[later[x] + 1] = [slot |-> x, age |-> since[x]]
      BY <2>1, <2>2 DEF Located
    <3>2. later[x] + 1 \in 1 .. Len(history)
      BY <1>1, <2>1, <3>1
    <3> QED
      BY <1>3, <1>5, <3>1, <3>2
  <2>3. \A k \in 1 .. Len(history) : history'[k].slot = x => k > later[x]
    <3>1. \A k \in 1 .. Len(history) : history'[k].slot = history[k].slot
      BY <1>5, Zenon
    <3> QED
      BY <2>1, <3>1 DEF Located
  <2> QED
    BY <1>3, <1>6, <2>2, <2>3 DEF Located
<1> QED
  BY <1>1, <1>3, <1>6, <1>7, <1>8 DEF Walked

\* A token is handed out only below the limit, and dead references count for less.
LEMMA TokensLimited ==
  ASSUME Limited, NEW s \in Soldier, TryAcquireQueryToken(s)
  PROVE  Limited'
<1>1. IsFiniteSet(Cleaned) /\ Cardinality(Cleaned) <= Cardinality(inFlight)
      /\ Cardinality(Cleaned) \in Nat /\ Cardinality(inFlight) \in Nat
  <2>1. Cleaned \in SUBSET inFlight
    BY DEF Cleaned
  <2> QED
    BY <2>1, FS_Subset, FS_CardinalityType DEF Limited
<1>2. MaxConcurrentQueries \in Nat
  BY LimitAssumption
<1>3. CASE inFlight' = Cleaned
  BY <1>1, <1>2, <1>3 DEF Limited
<1>4. CASE s \in Cleaned /\ inFlight' = Cleaned \cup {s}
  <2>1. inFlight' = Cleaned
    BY <1>4
  <2> QED
    BY <1>3, <2>1
<1>5. CASE Cardinality(Cleaned) < MaxConcurrentQueries /\ inFlight' = Cleaned \cup {s}
  <2>1. IsFiniteSet(Cleaned \cup {s})
        /\ Cardinality(Cleaned \cup {s}) \in {Cardinality(Cleaned), Cardinality(Cleaned) + 1}
    BY <1>1, FS_AddElement
  <2>2. Cardinality(Cleaned \cup {s}) <= MaxConcurrentQueries
    BY <1>1, <1>2, <1>5, <2>1
  <2> QED
    BY <1>5, <2>1, <2>2 DEF Limited
<1> QED
  BY <1>3, <1>4, <1>5 DEF TryAcquireQueryToken

\* So does every step.
LEMMA NextInv == IInv /\ [Next]_vars => IInv'
<1> SUFFICES ASSUME IInv, [Next]_vars PROVE IInv'
  OBVIOUS
<1>1. UNCHANGED walkVars => Walked'
  BY DEF IInv, walkVars, Walked, Located
<1>2. UNCHANGED queryVars => Limited'
  BY DEF IInv, queryVars, Limited
<1>3. ASSUME NEW s \in Soldier, TryAcquireQueryToken(s) PROVE IInv'
  <2>1. UNCHANGED walkVars
    BY <1>3 DEF TryAcquireQueryToken
  <2> QED
    BY <1>1, <1>3, <2>1, TokensLimited DEF IInv
<1>4. ASSUME NEW s \in Soldier, ReleaseQueryToken(s) PROVE IInv'
  <2>1. inFlight' \in SUBSET inFlight /\ UNCHANGED walkVars
    BY <1>4 DEF ReleaseQueryToken
  <2>2. IsFiniteSet(inFlight') /\ Cardinality(inFlight') <= Cardinality(inFlight)
        /\ Cardinality(inFlight') \in Nat /\ Cardinality(inFlight) \in Nat
    BY <2>1, FS_Subset, FS_CardinalityType DEF IInv, Limited
  <2>3. Limited'
    BY <2>2, LimitAssumption DEF IInv, Limited
  <2> QED
    BY <1>1, <2>1, <2>3 DEF IInv
<1>5. ASSUME NEW slot \in Slot, NotifySlotOccupied(slot) PROVE IInv'
  <2>1. UNCHANGED queryVars
    BY <1>5 DEF NotifySlotOccupied
  <2> QED
    BY <1>2, <1>5, <2>1, ArrivalWalked DEF IInv
<1>6. CASE Elapse
  <2>1. UNCHANGED queryVars
    BY <1>6 DEF Elapse
  <2> QED
    BY <1>2, <1>6, <2>1, ElapseWalked DEF IInv
<1>7. CASE UNCHANGED <<walkVars, queryVars>>
  BY <1>1, <1>2, <1>7 DEF IInv
<1>8. ASSUME NEW s \in Soldier,
             \/ ActorDestroyed(s) \/ ReleaseSlotClaim(s)
             \/ \E slot \in Slot : RegisterSlotClaim(s, slot)
      PROVE  UNCHANGED <<walkVars, queryVars>>
  BY <1>8 DEF ActorDestroyed, ReleaseSlotClaim, RegisterSlotClaim
<1>9. ExpireClaims \/ UNCHANGED vars => UNCHANGED <<walkVars, queryVars>>
  BY DEF ExpireClaims, vars
<1> QED
  BY <1>3, <1>4, <1>5, <1>6, <1>7, <1>8, <1>9 DEF Next

\* No more queries are ever under way than allowed, and the history of places is in step with
\* the walker's arrivals.
THEOREM Invariant == Spec => []IInv
<1> QED
  BY InitInv, NextInv, PTL DEF Spec

----------------------------------------------------------------------------
(* What follows.                                                           *)

\* The score of a place comes from the newest arrival there, for the whole window or until the
\* history is full of newer ones (NotifySlotOccupied, GetRecencyScore).
THEOREM NewestArrivalDecides == Spec => []NewestArrivalCounts
<1>1. IInv => NewestArrivalCounts
  BY LocatedScore DEF IInv, NewestArrivalCounts
<1> QED
  BY Invariant, <1>1, PTL

\* Whoever is refused a query finds all tokens in the hands of the living
\* (TryAcquireQueryToken).
THEOREM RefusalsAreJustified == Spec => RefusedOnlyWhenBusy
<1>1. ASSUME IInv, Next, NEW s \in refused' \ refused
      PROVE  Cardinality(inFlight' \ gone) = MaxConcurrentQueries
  <2>1. PICK q \in Soldier : TryAcquireQueryToken(q)
    BY <1>1 DEF Next, ReleaseQueryToken, ActorDestroyed, NotifySlotOccupied, RegisterSlotClaim,
                ReleaseSlotClaim, ExpireClaims, Elapse, queryVars
  <2>2. inFlight' = Cleaned /\ ~(Cardinality(Cleaned) < MaxConcurrentQueries)
    BY <1>1, <2>1 DEF TryAcquireQueryToken
  <2>3. inFlight' \ gone = Cleaned
    BY <2>2 DEF Cleaned
  <2>4. Cardinality(Cleaned) \in Nat /\ Cardinality(Cleaned) <= MaxConcurrentQueries
    <3>1. Limited'
      BY <1>1, <2>1, TokensLimited DEF IInv
    <3> QED
      BY <2>2, <3>1, FS_CardinalityType DEF Limited
  <2> QED
    BY <2>2, <2>3, <2>4, LimitAssumption
<1>2. IInv /\ [Next]_vars =>
        [\A s \in refused' \ refused : Cardinality(inFlight' \ gone) = MaxConcurrentQueries]_vars
  BY <1>1
<1> QED
  BY Invariant, <1>2, PTL DEF Spec, RefusedOnlyWhenBusy
===============================================================================
