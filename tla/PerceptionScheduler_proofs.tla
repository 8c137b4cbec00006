--------------------- MODULE PerceptionScheduler_proofs ---------------------
(***************************************************************************)
(* Proofs about PerceptionScheduler, for every number of components, every *)
(* rate of the tiers, every frame budget and every length of a frame.      *)
(***************************************************************************)
EXTENDS PerceptionScheduler, SequenceTheorems, FiniteSetTheorems, WellFoundedInduction, TLAPS

----------------------------------------------------------------------------
(* Induction, and what it says of recursive functions.                     *)

\* A set that has 0 and, with a number, the next one, has all of them.
LEMMA SetInduction ==
  ASSUME NEW S, 0 \in S, \A n \in Nat : n \in S => n + 1 \in S
  PROVE  Nat \subseteq S
  <1> DEFINE R == {p \in Nat \X Nat : p[1] < p[2]}
             T == Nat \ S
  <1>1. SUFFICES ASSUME T # {} PROVE FALSE
    OBVIOUS
  <1>2. IsWellFoundedOn(R, Nat)
    BY NatLessThanWellFounded DEF OpToRel
  <1>3. PICK x \in T : \A y \in T : <<y, x>> \notin R
    <2> HIDE DEF R
    <2>1. T \subseteq Nat
      OBVIOUS
    <2> HIDE DEF T
    <2> QED BY <1>1, <1>2, <2>1, WFMin, Zenon
  <1>4. x - 1 \in T
    BY <1>3
  <1>5. <<x - 1, x>> \in R
    BY <1>4
  <1> HIDE DEF R, T
  <1> QED BY <1>3, <1>4, <1>5

\* The same up to a bound.
LEMMA BoundedInduction ==
  ASSUME NEW n \in Nat, NEW S, 0 \in S, \A k \in 0 .. n - 1 : k \in S => k + 1 \in S
  PROVE  0 .. n \subseteq S
  <1> DEFINE T == {k \in Nat : k <= n => k \in S}
  <1>1. 0 \in T
    OBVIOUS
  <1>2. \A k \in Nat : k \in T => k + 1 \in T
    OBVIOUS
  <1>3. Nat \subseteq T
    <2> HIDE DEF T
    <2> QED BY <1>1, <1>2, SetInduction
  <1> QED BY <1>3

\* g goes from x0 through the steps of a function.
IsWalk(g, n, x0, step) == g[0] = x0 /\ \A i \in 1 .. n : g[i] = step[<<g[i - 1], i>>]

\* A walk of n steps through a set exists from each of its elements.
LEMMA WalkExists ==
  ASSUME NEW n \in Nat, NEW X, NEW x0 \in X, NEW step \in [X \X (1 .. n) -> X]
  PROVE  \E g \in [0 .. n -> X] : IsWalk(g, n, x0, step)
  <1> DEFINE Good(k, g) == IsWalk(g, k, x0, step)
             S == {k \in Nat : k <= n => \E g \in [0 .. k -> X] : Good(k, g)}
  <1>1. 0 \in S
    <2>1. Good(0, [i \in 0 .. 0 |-> x0]) /\ [i \in 0 .. 0 |-> x0] \in [0 .. 0 -> X]
      BY DEF IsWalk
    <2> HIDE DEF Good
    <2> QED BY <2>1
  <1>2. ASSUME NEW k \in Nat, k \in S PROVE k + 1 \in S
    <2>1. SUFFICES ASSUME k + 1 <= n PROVE \E g \in [0 .. k + 1 -> X] : Good(k + 1, g)
      OBVIOUS
    <2>2. k <= n
      BY <2>1
    <2>3. PICK g \in [0 .. k -> X] : Good(k, g)
      <3> HIDE DEF Good
      <3> QED BY <1>2, <2>2
    <2> DEFINE h == [i \in 0 .. k + 1 |-> IF i <= k THEN g[i] ELSE step[<<g[k], k + 1>>]]
    <2>4. step[<<g[k], k + 1>>] \in X
      <3>1. g[k] \in X /\ k + 1 \in 1 .. n
        BY <2>1
      <3> QED BY <3>1
    <2>5. h \in [0 .. k + 1 -> X]
      BY <2>4
    <2>6. Good(k + 1, h)
      <3>1. h[0] = x0
        BY <2>3 DEF IsWalk
      <3>2. ASSUME NEW i \in 1 .. k + 1 PROVE h[i] = step[<<h[i - 1], i>>]
        <4>1. CASE i <= k
          BY <2>3, <4>1 DEF IsWalk
        <4>2. CASE i = k + 1
          <5>1. h[k + 1] = step[<<g[k], k + 1>>] /\ h[k] = g[k]
            OBVIOUS
          <5>2. i - 1 = k
            BY <4>2
          <5> HIDE DEF h
          <5> QED BY <4>2, <5>1, <5>2, Zenon
        <4> QED BY <4>1, <4>2
      <3> HIDE DEF h
      <3> QED BY <3>1, <3>2 DEF IsWalk
    <2> HIDE DEF Good, h
    <2> QED BY <2>5, <2>6
  <1>3. Nat \subseteq S
    <2> HIDE DEF S
    <2> QED BY <1>1, <1>2, SetInduction
  <1>4. n \in S
    BY <1>3
  <1> QED BY <1>4

----------------------------------------------------------------------------
(* The walk of a frame.                                                    *)

WalkState == [cursor : Nat, updated : SUBSET Known]

\* The component that the walk comes to in step s, when it has got to v.
Met(v, s) == registered[((v.cursor + s - 1) % Count) + 1]

\* What step s makes of v.
Stepped(d, v, s) ==
  IF Cardinality(v.updated) < MaxUpdatesPerFrame /\ d[Met(v, s)] <= 0 /\ Met(v, s) \notin v.updated
  THEN [cursor |-> ((v.cursor + s - 1) % Count) + 1, updated |-> v.updated \cup {Met(v, s)}]
  ELSE v

\* The walk starts at the cursor, and each of its steps is one of Stepped.
Walks(d, w) ==
  /\ w[0] = [cursor |-> cursor, updated |-> {}]
  /\ \A s \in 1 .. Count : w[s] = Stepped(d, w[s - 1], s)

\* The registered components are components.
LEMMA KnownComponents ==
  ASSUME registered \in Seq(Component)
  PROVE  /\ Count \in Nat /\ Known \subseteq Component
         /\ \A i \in 1 .. Count : registered[i] \in Known
  BY DEF Count, Known

\* A step leads from a state of the walk to a state of the walk.
LEMMA SteppedType ==
  ASSUME registered \in Seq(Component), NEW d, NEW v \in WalkState, NEW s \in 1 .. Count
  PROVE  /\ Stepped(d, v, s) \in WalkState /\ v.updated \subseteq Stepped(d, v, s).updated
         /\ Met(v, s) \in Known
         /\ Stepped(d, v, s).cursor \in {v.cursor} \cup 1 .. Count
  <1>1. Count \in Nat \ {0} /\ v.cursor + s - 1 \in Nat
    BY KnownComponents DEF WalkState
  <1>2. (v.cursor + s - 1) % Count \in 0 .. Count - 1
    BY <1>1
  <1>3. Met(v, s) \in Known
    BY <1>1, <1>2, KnownComponents DEF Met
  <1> QED BY <1>1, <1>2, <1>3 DEF Stepped, WalkState

\* The recursive function of Walk is the walk.
LEMMA WalkIsWalk ==
  ASSUME registered \in Seq(Component), cursor \in Nat, NEW d
  PROVE  \E w : Walks(d, w) /\ Walk(d) = w[Count]
  <1> DEFINE Eq(f) == [s \in 0 .. Count |->
               IF s = 0 THEN [cursor |-> cursor, updated |-> {}]
               ELSE LET index == (f[s - 1].cursor + s - 1) % Count
                        c     == registered[index + 1]
                    IN  IF /\ Cardinality(f[s - 1].updated) < MaxUpdatesPerFrame
                           /\ d[c] <= 0 /\ c \notin f[s - 1].updated
                        THEN [cursor |-> index + 1, updated |-> f[s - 1].updated \cup {c}]
                        ELSE f[s - 1]]
             start == [cursor |-> cursor, updated |-> {}]
             step == [p \in WalkState \X (1 .. Count) |-> Stepped(d, p[1], p[2])]
  <1>1. Count \in Nat /\ start \in WalkState
    BY KnownComponents DEF WalkState
  <1>2. ASSUME NEW f
        PROVE  /\ Eq(f)[0] = start
               /\ \A s \in 1 .. Count : Eq(f)[s] = Stepped(d, f[s - 1], s)
    <2>1. Eq(f)[0] = start
      BY <1>1
    <2>2. ASSUME NEW s \in 1 .. Count PROVE Eq(f)[s] = Stepped(d, f[s - 1], s)
      BY <1>1 DEF Stepped, Met
    <2> HIDE DEF Eq
    <2> QED BY <2>1, <2>2
  <1>3. \E f : f = Eq(f)
    <2>1. step \in [WalkState \X (1 .. Count) -> WalkState]
      BY SteppedType
    <2>2. PICK g \in [0 .. Count -> WalkState] : IsWalk(g, Count, start, step)
      <3> HIDE DEF step, start
      <3> QED BY <1>1, <2>1, WalkExists
    <2>3. g[0] = start /\ \A i \in 1 .. Count : g[i] = Stepped(d, g[i - 1], i)
      <3>1. \A i \in 1 .. Count : g[i - 1] \in WalkState
        BY <1>1
      <3>2. g[0] = start /\ \A i \in 1 .. Count : g[i] = step[<<g[i - 1], i>>]
        <4> HIDE DEF step, start
        <4> QED BY <2>2 DEF IsWalk
      <3> HIDE DEF start
      <3> QED BY <3>1, <3>2
    <2>4. \A i \in 0 .. Count : g[i] = Eq(g)[i]
      <3> HIDE DEF Eq, start
      <3>1. Eq(g)[0] = start /\ \A i \in 1 .. Count : Eq(g)[i] = Stepped(d, g[i - 1], i)
        BY <1>2, Zenon
      <3> QED BY <1>1, <2>2, <2>3, <3>1
    <2>5. g = Eq(g)
      BY <2>4
    <2> HIDE DEF Eq
    <2> QED BY <2>5
  <1> DEFINE w == CHOOSE f : f = Eq(f)
  <1>4. Walk(d) = w[Count]
    BY DEF Walk
  <1>5. w = Eq(w)
    <2> HIDE DEF Eq
    <2> QED BY <1>3
  <1>6. w[0] = start /\ \A s \in 1 .. Count : w[s] = Stepped(d, w[s - 1], s)
    <2> HIDE DEF Eq, w, start
    <2> QED BY <1>2, <1>5
  <1> HIDE DEF w
  <1> QED BY <1>4, <1>6 DEF Walks
\* The states of the walk: it updates registered components that are due, never takes an
\* update back, and leaves the cursor where it was or at a place of the array.
LEMMA WalkStates ==
  ASSUME registered \in Seq(Component), cursor \in Nat, NEW d, NEW w, Walks(d, w)
  PROVE  \A s \in 0 .. Count : /\ w[s] \in WalkState
                               /\ w[s].cursor \in {cursor} \cup 1 .. Count
                               /\ \A c \in w[s].updated : d[c] <= 0
  <1> DEFINE S == {s \in 0 .. Count : /\ w[s] \in WalkState
                                      /\ w[s].cursor \in {cursor} \cup 1 .. Count
                                      /\ \A c \in w[s].updated : d[c] <= 0}
  <1>1. Count \in Nat
    BY KnownComponents
  <1>2. 0 \in S
    BY <1>1 DEF Walks, WalkState
  <1>3. ASSUME NEW k \in 0 .. Count - 1, k \in S PROVE k + 1 \in S
    <2>1. k + 1 \in 1 .. Count /\ (k + 1) - 1 = k
      BY <1>1
    <2>2. w[k + 1] = Stepped(d, w[k], k + 1)
      BY <2>1 DEF Walks
    <2>3. /\ Stepped(d, w[k], k + 1) \in WalkState
          /\ Stepped(d, w[k], k + 1).cursor \in {w[k].cursor} \cup 1 .. Count
      BY <1>3, <2>1, SteppedType
    <2>4. \A c \in Stepped(d, w[k], k + 1).updated : d[c] <= 0
      BY <1>3 DEF Stepped
    <2> QED BY <1>3, <2>1, <2>2, <2>3, <2>4
  <1>4. 0 .. Count \subseteq S
    <2> HIDE DEF S
    <2> QED BY <1>1, <1>2, <1>3, BoundedInduction
  <1> QED BY <1>4

\* What is updated in a step is updated in the end.
LEMMA WalkGrows ==
  ASSUME registered \in Seq(Component), cursor \in Nat, NEW d, NEW w, Walks(d, w),
         NEW s \in 0 .. Count
  PROVE  w[s].updated \subseteq w[Count].updated
  <1> DEFINE S == {k \in 0 .. Count - s : w[s].updated \subseteq w[s + k].updated}
  <1>1. Count \in Nat /\ Count - s \in Nat
    BY KnownComponents
  <1>2. 0 \in S
    BY <1>1
  <1>3. ASSUME NEW k \in 0 .. (Count - s) - 1, k \in S PROVE k + 1 \in S
    <2>1. s + k \in 0 .. Count /\ s + k + 1 \in 1 .. Count /\ (s + k + 1) - 1 = s + k
      BY <1>1
    <2>2. w[s + k + 1] = Stepped(d, w[s + k], s + k + 1)
      BY <2>1 DEF Walks
    <2>3. w[s + k] \in WalkState
      BY <2>1, WalkStates
    <2>4. w[s + k].updated \subseteq w[s + k + 1].updated
      BY <2>1, <2>2, <2>3, SteppedType
    <2>5. s + (k + 1) = s + k + 1
      BY <1>1
    <2> QED BY <1>1, <1>3, <2>4, <2>5
  <1>4. 0 .. Count - s \subseteq S
    <2> HIDE DEF S
    <2> QED BY <1>1, <1>2, <1>3, BoundedInduction
  <1>5. Count - s \in S /\ s + (Count - s) = Count
    BY <1>1, <1>4
  <1> QED BY <1>5

\* The component that is i places after the cursor.
At(i) == registered[((cursor + i) % Count) + 1]

\* Components that are not due leave the walk as it was, so the first one that is due is met
\* with the whole budget left.
LEMMA FirstDueIsUpdated ==
  ASSUME registered \in Seq(Component), cursor \in Nat, NEW d, NEW s \in 0 .. Count - 1,
         d[At(s)] <= 0, \A i \in 0 .. s - 1 : ~(d[At(i)] <= 0)
  PROVE  At(s) \in Walk(d).updated
  <1>1. Count \in Nat /\ s \in Nat
    BY KnownComponents
  <1>2. PICK w : Walks(d, w) /\ Walk(d) = w[Count]
    BY WalkIsWalk
  <1> DEFINE start == [cursor |-> cursor, updated |-> {}]
             S == {k \in 0 .. s : w[k] = start}
  <1>3. 0 \in S
    BY <1>1, <1>2 DEF Walks
  <1>4. ASSUME NEW k \in 0 .. s - 1, k \in S PROVE k + 1 \in S
    <2>1. k + 1 \in 1 .. Count /\ (k + 1) - 1 = k /\ cursor + (k + 1) - 1 = cursor + k
      BY <1>1
    <2>2. w[k + 1] = Stepped(d, start, k + 1)
      BY <1>2, <1>4, <2>1 DEF Walks
    <2>3. Met(start, k + 1) = At(k)
      BY <2>1 DEF Met, At
    <2>4. Stepped(d, start, k + 1) = start
      <3> HIDE DEF start
      <3> QED BY <2>3 DEF Stepped
    <2> HIDE DEF start
    <2> QED BY <1>1, <1>4, <2>2, <2>4
  <1>5. w[s] = start
    <2>1. 0 .. s \subseteq S
      <3> HIDE DEF S
      <3> QED BY <1>1, <1>3, <1>4, BoundedInduction
    <2>2. s \in 0 .. s
      BY <1>1
    <2>3. s \in S
      <3> HIDE DEF S
      <3> QED BY <2>1, <2>2
    <2> HIDE DEF start
    <2> QED BY <2>3
  <1>6. s + 1 \in 1 .. Count /\ (s + 1) - 1 = s /\ cursor + (s + 1) - 1 = cursor + s
    BY <1>1
  <1>7. w[s + 1] = Stepped(d, start, s + 1)
    BY <1>2, <1>5, <1>6 DEF Walks
  <1>8. Met(start, s + 1) = At(s)
    BY <1>6 DEF Met, At
  <1>9. start.updated = {} /\ Cardinality({}) < MaxUpdatesPerFrame
    BY FS_EmptySet, BoundAssumption
  <1>10. At(s) \in Stepped(d, start, s + 1).updated
    <2> HIDE DEF start
    <2>1. Stepped(d, start, s + 1) = [cursor |-> ((start.cursor + (s + 1) - 1) % Count) + 1,
                                      updated |-> {} \cup {At(s)}]
      BY <1>8, <1>9 DEF Stepped
    <2> QED BY <2>1
  <1>11. w[s + 1].updated \subseteq w[Count].updated
    BY <1>2, <1>6, WalkGrows
  <1> QED BY <1>2, <1>7, <1>10, <1>11

----------------------------------------------------------------------------
(* The constants.                                                          *)

\* A finite list of numbers has a largest one.
LEMMA LargestOfList ==
  ASSUME NEW n \in Nat \ {0}, NEW g \in [1 .. n -> Nat]
  PROVE  \E m \in 1 .. n : \A i \in 1 .. n : g[i] <= g[m]
  <1> DEFINE S == {k \in 0 .. n - 1 : \E m \in 1 .. k + 1 : \A i \in 1 .. k + 1 : g[i] <= g[m]}
  <1>1. 0 \in S
    OBVIOUS
  <1>2. ASSUME NEW k \in 0 .. (n - 1) - 1, k \in S PROVE k + 1 \in S
    <2>1. PICK m \in 1 .. k + 1 : \A i \in 1 .. k + 1 : g[i] <= g[m]
      BY <1>2
    <2>2. k + 2 \in 1 .. n /\ m \in 1 .. n /\ g[m] \in Nat /\ g[k + 2] \in Nat /\ k + 1 \in 0 .. n - 1
      OBVIOUS
    <2>3. \A i \in 1 .. k + 2 : i \in 1 .. k + 1 \/ i = k + 2
      OBVIOUS
    <2>4. \A i \in 1 .. k + 1 : i \in 1 .. n /\ g[i] \in Nat
      OBVIOUS
    <2>5. CASE g[k + 2] <= g[m]
      <3>1. \A i \in 1 .. k + 2 : g[i] <= g[m]
        BY <2>1, <2>3, <2>5
      <3>2. m \in 1 .. k + 2
        OBVIOUS
      <3>3. (k + 1) + 1 = k + 2
        OBVIOUS
      <3> QED BY <2>2, <3>1, <3>2, <3>3
    <2>6. CASE g[m] <= g[k + 2]
      <3>1. \A i \in 1 .. k + 2 : g[i] <= g[k + 2]
        BY <2>1, <2>2, <2>3, <2>4, <2>6
      <3>2. k + 2 \in 1 .. k + 2 /\ (k + 1) + 1 = k + 2
        OBVIOUS
      <3> QED BY <2>2, <3>1, <3>2
    <2> QED BY <2>2, <2>5, <2>6
  <1>3. 0 .. n - 1 \subseteq S
    <2>1. n - 1 \in Nat
      OBVIOUS
    <2> HIDE DEF S
    <2> QED BY <2>1, <1>1, <1>2, BoundedInduction
  <1>4. n - 1 \in S
    <2> HIDE DEF S
    <2> QED BY <1>3
  <1> QED BY <1>4

\* Longest is the longest interval.
LEMMA LongestInterval ==
  /\ Longest \in Nat \ {0} /\ Horizon \in Nat
  /\ Horizon = 4 * Longest
  /\ \A t \in Tier : Interval[t] \in Nat \ {0} /\ Interval[t] <= Longest
  <1>1. PICK n \in Nat : ExistsSurjection(1 .. n, Tier)
    BY TierAssumption, FS_NatSurjection
  <1>2. PICK f \in [1 .. n -> Tier] : \A t \in Tier : \E i \in 1 .. n : f[i] = t
    BY <1>1 DEF ExistsSurjection, Surjection
  <1>3. n \in Nat \ {0}
    BY <1>2, TierAssumption
  <1>4. [i \in 1 .. n |-> Interval[f[i]]] \in [1 .. n -> Nat]
    BY TierAssumption
  <1>5. PICK m \in 1 .. n : \A i \in 1 .. n : Interval[f[i]] <= Interval[f[m]]
    BY <1>3, <1>4, LargestOfList
  <1>6. \E i \in {Interval[t] : t \in Tier} : \A t \in Tier : Interval[t] <= i
    BY <1>2, <1>5
  <1>7. Longest \in {Interval[t] : t \in Tier} /\ \A t \in Tier : Interval[t] <= Longest
    BY <1>6 DEF Longest
  <1>8. Longest \in Nat \ {0} /\ \A t \in Tier : Interval[t] \in Nat \ {0}
    BY <1>7, TierAssumption
  <1> QED BY <1>7, <1>8 DEF Horizon, MaxIntervals

----------------------------------------------------------------------------
(* The inductive invariant.                                                *)

\* No component is registered twice.
Distinct == \A i, j \in 1 .. Count : registered[i] = registered[j] => i = j

\* How late a component is and how long it really was since its last update tell the same
\* time, as far as both of them are kept; only a registered component has one to tell.
Linked ==
  \A c \in Component :
    /\ c \notin Known => ahead[c] = Staggered
    /\ ahead[c] # Staggered =>
         \E time \in Nat : /\ since[c] = MinOf(time, Horizon + 1)
                           /\ due[c] = MaxOf(ahead[c] - time, -Horizon)

\* The conjuncts of TypeOK but the one that Distinct stands for.
Typed ==
  /\ registered \in Seq(Component)
  /\ cursor \in 0 .. Cardinality(Component) - 1
  /\ tier \in [Component -> Tier]
  /\ due \in [Component -> -Horizon .. Longest]
  /\ since \in [Component -> 0 .. Horizon + 1]
  /\ ahead \in [Component -> 0 .. Longest]
  /\ last \in [Component -> [integrated : 0 .. Horizon, real : 0 .. Horizon + 1,
                             interval : 0 .. Longest, ahead : 0 .. Longest]]
  /\ changes \in 0 .. MaxChanges

IInv == Typed /\ Distinct /\ Linked /\ IntegratesRealTime

\* A register without repetitions is as long as its set, and no longer than the set of all
\* components.
LEMMA CountKnown ==
  ASSUME registered \in Seq(Component), Distinct
  PROVE  /\ Cardinality(Known) = Count
         /\ Count <= Cardinality(Component) /\ Cardinality(Component) \in Nat \ {0}
  <1>1. Count \in Nat /\ Known \subseteq Component /\ \A i \in 1 .. Count : registered[i] \in Known
    BY KnownComponents
  <1>2. [i \in 1 .. Count |-> registered[i]] \in Bijection(1 .. Count, Known)
    BY <1>1 DEF Distinct, Known, Bijection, Injection, Surjection, IsInjective
  <1>3. ExistsBijection(1 .. Count, Known)
    BY <1>2 DEF ExistsBijection
  <1>4. Cardinality(Known) = Count
    BY <1>1, <1>3, FS_CountingElements
  <1>5. Cardinality(Known) <= Cardinality(Component) /\ Cardinality(Component) \in Nat
    BY <1>1, ComponentAssumption, FS_Subset, FS_CardinalityType
  <1>6. Cardinality(Component) # 0
    BY ComponentAssumption, FS_EmptySet
  <1> QED BY <1>4, <1>5, <1>6

\* What was said of Typed and Distinct gives TypeOK.
LEMMA TypedDistinct == Typed /\ Distinct => TypeOK
  BY CountKnown DEF Typed, TypeOK

----------------------------------------------------------------------------
(* A frame.                                                                *)

LateBy(dt) == [c \in Component |-> MaxOf(due[c] - dt, -Horizon)]
RealAfter(dt) == [c \in Component |-> MinOf(since[c] + dt, Horizon + 1)]

\* What a frame does: to the components that it updates, to the ones that it passes over,
\* and to those that are not registered.
LEMMA TickEffect ==
  ASSUME Typed, Distinct, NEW dt \in 1 .. MaxFrame, Tick(dt)
  PROVE  \E U \in SUBSET Known :
    /\ U = Walk(LateBy(dt)).updated
    /\ \A c \in U : LateBy(dt)[c] <= 0
    /\ due' = [c \in Component |-> IF c \in U THEN Interval[tier[c]]
                                   ELSE IF c \in Known THEN LateBy(dt)[c] ELSE 0]
    /\ since' = [c \in Component |-> IF c \in U THEN 0
                                     ELSE IF c \in Known THEN RealAfter(dt)[c] ELSE 0]
    /\ ahead' = [c \in Component |-> IF c \in U THEN Interval[tier[c]]
                                     ELSE IF c \in Known THEN ahead[c] ELSE 0]
    /\ last' = [c \in Component |->
                  IF c \in U
                  THEN [integrated |-> Elapsed(c, LateBy(dt)), real |-> RealAfter(dt)[c],
                        interval |-> Interval[tier[c]], ahead |-> ahead[c]]
                  ELSE last[c]]
    /\ cursor' \in 0 .. Cardinality(Component) - 1
    /\ UNCHANGED <<registered, tier, changes>>
  <1> DEFINE late == LateBy(dt)
  <1>1. registered \in Seq(Component) /\ cursor \in Nat /\ Count \in Nat
    BY KnownComponents DEF Typed
  <1>2. PICK w : Walks(late, w) /\ Walk(late) = w[Count]
    <2> HIDE DEF late
    <2> QED BY <1>1, WalkIsWalk
  <1>3. /\ Walk(late) \in WalkState
        /\ \A c \in Walk(late).updated : late[c] <= 0
    <2> HIDE DEF late
    <2>1. Count \in 0 .. Count
      BY <1>1
    <2> QED BY <1>1, <1>2, <2>1, WalkStates
  <1>4. cursor' \in 0 .. Cardinality(Component) - 1
    <2>1. cursor' = IF Count = 0 THEN cursor ELSE Walk(late).cursor % Count
      BY DEF Tick, LateBy
    <2>2. Walk(late).cursor \in Nat
      BY <1>3 DEF WalkState
    <2>3. Count # 0 => Walk(late).cursor % Count \in 0 .. Count - 1
      BY <1>1, <2>2
    <2> HIDE DEF late
    <2> QED BY <1>1, <2>1, <2>3, CountKnown DEF Typed
  <1>5. Walk(late).updated \subseteq Known
    BY <1>3 DEF WalkState
  <1> DEFINE U == Walk(late).updated
  <1>6. /\ due' = [c \in Component |-> IF c \in U THEN Interval[tier[c]]
                                       ELSE IF c \in Known THEN LateBy(dt)[c] ELSE 0]
        /\ since' = [c \in Component |-> IF c \in U THEN 0
                                         ELSE IF c \in Known THEN RealAfter(dt)[c] ELSE 0]
        /\ ahead' = [c \in Component |-> IF c \in U THEN Interval[tier[c]]
                                         ELSE IF c \in Known THEN ahead[c] ELSE 0]
        /\ last' = [c \in Component |->
                      IF c \in U
                      THEN [integrated |-> Elapsed(c, LateBy(dt)), real |-> RealAfter(dt)[c],
                            interval |-> Interval[tier[c]], ahead |-> ahead[c]]
                      ELSE last[c]]
        /\ UNCHANGED <<registered, tier, changes>>
    BY DEF Tick, LateBy, RealAfter
  <1> HIDE DEF U
  <1>7. U \in SUBSET Known /\ (\A c \in U : LateBy(dt)[c] <= 0) /\ U = Walk(LateBy(dt)).updated
    BY <1>3, <1>5 DEF U
  <1> QED BY <1>4, <1>6, <1>7

----------------------------------------------------------------------------
(* The steps.                                                              *)

\* Registration adds a component at the end; removal puts the last one in the place of the
\* one that goes.
LEMMA RegisterEffect ==
  ASSUME Typed, Distinct, NEW c \in Component, RegisterSoldier(c)
  PROVE  /\ registered' \in Seq(Component) /\ Distinct' /\ Known' = Known \cup {c}
         /\ c \notin Known
         /\ \E stagger \in 0 .. Interval[tier[c]] - 1 : due' = [due EXCEPT ![c] = stagger]
         /\ UNCHANGED <<cursor, tier, since, ahead, last>>
         /\ changes < MaxChanges /\ changes' = changes + 1
  <1>1. registered \in Seq(Component) /\ Count \in Nat
    BY KnownComponents DEF Typed
  <1>2. registered' = Append(registered, c)
    BY DEF RegisterSoldier
  <1>3. /\ registered' \in Seq(Component) /\ Count' = Count + 1
        /\ \A j \in 1 .. Count : registered'[j] = registered[j]
        /\ registered'[Count + 1] = c
    BY <1>1, <1>2, AppendProperties DEF Count
  <1>4. c \notin Known
    BY DEF RegisterSoldier
  <1>5. 1 .. Count' = (1 .. Count) \cup {Count + 1} /\ Count + 1 \notin 1 .. Count
    BY <1>1, <1>3
  <1>6. \A j \in 1 .. Count : registered'[j] # c
    BY <1>3, <1>4 DEF Known
  <1>7. Distinct'
    BY <1>3, <1>5, <1>6 DEF Distinct
  <1>8. Known' = Known \cup {c}
    BY <1>3, <1>5 DEF Known
  <1> QED BY <1>3, <1>4, <1>7, <1>8 DEF RegisterSoldier, Change

\* The last entry takes the place of the one that leaves, and everybody else stays registered.
LEMMA UnregisterEffect ==
  ASSUME Typed, Distinct, NEW c \in Component, UnregisterSoldier(c)
  PROVE  /\ registered' \in Seq(Component) /\ Distinct' /\ Known \ {c} \subseteq Known'
         /\ due' = [due EXCEPT ![c] = 0]
         /\ since' = [since EXCEPT ![c] = 0]
         /\ ahead' = [ahead EXCEPT ![c] = Staggered]
         /\ last' = [last EXCEPT ![c] = NoUpdate]
         /\ UNCHANGED <<cursor, tier>>
         /\ changes < MaxChanges /\ changes' = changes + 1
  <1>1. registered \in Seq(Component) /\ Count \in Nat
    BY KnownComponents DEF Typed
  <1>2. PICK i \in 1 .. Count :
          /\ registered[i] = c
          /\ registered' = SubSeq([registered EXCEPT ![i] = registered[Count]], 1, Count - 1)
    BY DEF UnregisterSoldier
  <1> DEFINE filled == [registered EXCEPT ![i] = registered[Count]]
  <1>3. registered \in [1 .. Count -> Component] /\ Count \in Nat \ {0} /\ registered[Count] \in Component
    BY <1>1 DEF Count
  <1>4. filled \in [1 .. Count -> Component]
    BY <1>3
  <1>5. filled \in Seq(Component) /\ Len(filled) = Count
    BY <1>3, <1>4
  <1>6. \A j \in 1 .. Count : filled[j] = IF j = i THEN registered[Count] ELSE registered[j]
    BY <1>3
  <1> HIDE DEF filled
  <1>7. registered' = SubSeq(filled, 1, Count - 1)
    BY <1>2 DEF filled
  <1>8. /\ registered' \in Seq(Component) /\ Len(registered') = Count - 1
        /\ \A j \in 1 .. Count - 1 : registered'[j] = filled[j]
    BY <1>3, <1>5, <1>7
  <1>9. Count' = Count - 1
    BY <1>8 DEF Count
  <1>10. Distinct'
    BY <1>2, <1>3, <1>6, <1>8, <1>9 DEF Distinct
  <1>11. ASSUME NEW x \in Known \ {c} PROVE x \in Known'
    <2>1. PICK k \in 1 .. Count : registered[k] = x
      BY DEF Known
    <2>2. k # i
      BY <1>2, <1>11, <2>1
    <2>3. CASE k # Count
      <3>1. k \in 1 .. Count - 1 /\ registered'[k] = x
        BY <1>3, <1>6, <1>8, <2>1, <2>2, <2>3
      <3> QED BY <1>9, <3>1 DEF Known
    <2>4. CASE k = Count
      <3>1. i \in 1 .. Count - 1 /\ registered'[i] = x
        BY <1>3, <1>6, <1>8, <2>1, <2>2, <2>4
      <3> QED BY <1>9, <3>1 DEF Known
    <2> QED BY <2>3, <2>4
  <1> QED BY <1>8, <1>10, <1>11 DEF UnregisterSoldier, Change

\* Every step keeps the types and the register free of repetitions.
LEMMA TypeStep ==
  ASSUME Typed, Distinct, [Next]_vars
  PROVE  Typed' /\ Distinct'
  <1>1. /\ Longest \in Nat \ {0} /\ Horizon \in Nat /\ Horizon = 4 * Longest
        /\ \A t \in Tier : Interval[t] \in Nat \ {0} /\ Interval[t] <= Longest
    BY LongestInterval
  <1>2. MaxFrame \in Nat /\ MaxChanges \in Nat
    BY BoundAssumption
  <1>3. \A c \in Component : tier[c] \in Tier
    BY DEF Typed
  <1>4. NoUpdate \in [integrated : 0 .. Horizon, real : 0 .. Horizon + 1,
                      interval : 0 .. Longest, ahead : 0 .. Longest]
    BY <1>1 DEF NoUpdate, Staggered
  <1>5. ASSUME NEW c \in Component, RegisterSoldier(c) PROVE Typed' /\ Distinct'
    <2>1. PICK stagger \in 0 .. Interval[tier[c]] - 1 : due' = [due EXCEPT ![c] = stagger]
      BY <1>5, RegisterEffect
    <2>2. Interval[tier[c]] \in Nat \ {0} /\ Interval[tier[c]] <= Longest
      BY <1>1, <1>3
    <2>3. stagger \in -Horizon .. Longest
      BY <1>1, <2>2
    <2>4. due' \in [Component -> -Horizon .. Longest]
      BY <2>1, <2>3 DEF Typed
    <2>5. /\ registered' \in Seq(Component) /\ Distinct'
          /\ UNCHANGED <<cursor, tier, since, ahead, last>>
          /\ changes < MaxChanges /\ changes' = changes + 1
      BY <1>5, RegisterEffect
    <2>6. changes' \in 0 .. MaxChanges
      BY <1>2, <2>5 DEF Typed
    <2> QED BY <2>4, <2>5, <2>6 DEF Typed
  <1>6. ASSUME NEW c \in Component, UnregisterSoldier(c) PROVE Typed' /\ Distinct'
    <2>1. 0 \in -Horizon .. Longest /\ 0 \in 0 .. Horizon + 1 /\ Staggered \in 0 .. Longest
      BY <1>1 DEF Staggered
    <2>2. /\ due' \in [Component -> -Horizon .. Longest]
          /\ since' \in [Component -> 0 .. Horizon + 1]
          /\ ahead' \in [Component -> 0 .. Longest]
      BY <1>6, <2>1, UnregisterEffect DEF Typed
    <2>3. last' \in [Component -> [integrated : 0 .. Horizon, real : 0 .. Horizon + 1,
                                   interval : 0 .. Longest, ahead : 0 .. Longest]]
      <3> HIDE DEF NoUpdate
      <3> QED BY <1>4, <1>6, UnregisterEffect DEF Typed
    <2>4. /\ registered' \in Seq(Component) /\ Distinct'
          /\ UNCHANGED <<cursor, tier>>
          /\ changes < MaxChanges /\ changes' = changes + 1
      BY <1>6, UnregisterEffect
    <2>5. changes' \in 0 .. MaxChanges
      BY <1>2, <2>4 DEF Typed
    <2> QED BY <2>2, <2>3, <2>4, <2>5 DEF Typed
  <1>7. ASSUME NEW c \in Component, NEW t \in Tier, SetLODTier(c, t) PROVE Typed' /\ Distinct'
    BY <1>2, <1>7 DEF SetLODTier, Change, Typed, Distinct, Count
  <1>8. ASSUME NEW dt \in 1 .. MaxFrame, Tick(dt) PROVE Typed' /\ Distinct'
    <2>1. PICK U \in SUBSET Known :
            /\ \A c \in U : LateBy(dt)[c] <= 0
            /\ due' = [c \in Component |-> IF c \in U THEN Interval[tier[c]]
                                           ELSE IF c \in Known THEN LateBy(dt)[c] ELSE 0]
            /\ since' = [c \in Component |-> IF c \in U THEN 0
                                             ELSE IF c \in Known THEN RealAfter(dt)[c] ELSE 0]
            /\ ahead' = [c \in Component |-> IF c \in U THEN Interval[tier[c]]
                                             ELSE IF c \in Known THEN ahead[c] ELSE 0]
            /\ last' = [c \in Component |->
                          IF c \in U
                          THEN [integrated |-> Elapsed(c, LateBy(dt)), real |-> RealAfter(dt)[c],
                                interval |-> Interval[tier[c]], ahead |-> ahead[c]]
                          ELSE last[c]]
            /\ cursor' \in 0 .. Cardinality(Component) - 1
            /\ UNCHANGED <<registered, tier, changes>>
      BY <1>8, TickEffect, Zenon
    <2>2. \A c \in Component : /\ Interval[tier[c]] \in 1 .. Longest
                               /\ due[c] \in -Horizon .. Longest
                               /\ since[c] \in 0 .. Horizon + 1
                               /\ ahead[c] \in 0 .. Longest
      BY <1>1, <1>3 DEF Typed
    <2>3. \A c \in Component : /\ LateBy(dt)[c] \in -Horizon .. Longest
                               /\ RealAfter(dt)[c] \in 0 .. Horizon + 1
      BY <1>1, <1>2, <2>2 DEF LateBy, RealAfter, MinOf, MaxOf
    <2>4. \A c \in Component : LateBy(dt)[c] <= 0 => Elapsed(c, LateBy(dt)) \in 0 .. Horizon
      BY <1>1, <2>2, <2>3 DEF Elapsed, MinOf, MaxIntervals
    <2>5. due' \in [Component -> -Horizon .. Longest]
      BY <1>1, <2>1, <2>2, <2>3
    <2>6. since' \in [Component -> 0 .. Horizon + 1]
      BY <1>1, <2>1, <2>3
    <2>7. ahead' \in [Component -> 0 .. Longest]
      BY <1>1, <2>1, <2>2
    <2>8. last' \in [Component -> [integrated : 0 .. Horizon, real : 0 .. Horizon + 1,
                                   interval : 0 .. Longest, ahead : 0 .. Longest]]
      BY <1>1, <2>1, <2>2, <2>3, <2>4 DEF Typed
    <2>9. Distinct'
      BY <2>1 DEF Distinct, Count
    <2> QED BY <2>1, <2>5, <2>6, <2>7, <2>8, <2>9 DEF Typed
  <1>9. CASE UNCHANGED vars
    BY <1>9 DEF vars, Typed, Distinct, Count
  <1> QED BY <1>5, <1>6, <1>7, <1>8, <1>9 DEF Next, Frame

\* An update integrates the time that linked times tell, up to a few intervals.
LEMMA LinkedIntegrates ==
  ASSUME NEW time \in Nat, NEW i \in Nat, NEW h \in Nat, MaxIntervals * i <= h
  PROVE  MinOf(i - MaxOf(i - time, -h), MaxIntervals * i)
           = MinOf(MinOf(time, h + 1), MaxIntervals * i)
  BY DEF MinOf, MaxOf, MaxIntervals

\* Every step keeps the times of a component linked, and the updates that it makes integrate
\* what they should.
LEMMA LinkStep ==
  ASSUME Typed, Distinct, Linked, IntegratesRealTime, [Next]_vars
  PROVE  (Linked /\ IntegratesRealTime)'
  <1>1. /\ Longest \in Nat \ {0} /\ Horizon \in Nat /\ Horizon = 4 * Longest
        /\ \A t \in Tier : Interval[t] \in Nat \ {0} /\ Interval[t] <= Longest
    BY LongestInterval
  <1>2. \A c \in Component : Interval[tier[c]] \in 1 .. Longest
    BY <1>1 DEF Typed
  <1>3. /\ DOMAIN due = Component /\ DOMAIN since = Component
        /\ DOMAIN ahead = Component /\ DOMAIN last = Component
    BY DEF Typed
  <1>4. ASSUME NEW c \in Component, RegisterSoldier(c) PROVE (Linked /\ IntegratesRealTime)'
    <2>1. /\ Known' = Known \cup {c} /\ c \notin Known
          /\ UNCHANGED <<since, ahead, last>>
          /\ \A e \in Component \ {c} : due'[e] = due[e]
      BY <1>3, <1>4, RegisterEffect
    <2>2. ahead[c] = Staggered
      BY <2>1 DEF Linked
    <2> QED BY <2>1, <2>2 DEF Linked, IntegratesRealTime
  <1>5. ASSUME NEW c \in Component, UnregisterSoldier(c) PROVE (Linked /\ IntegratesRealTime)'
    <2>1. /\ Known \ {c} \subseteq Known'
          /\ ahead'[c] = Staggered /\ last'[c] = NoUpdate
          /\ \A e \in Component \ {c} : /\ due'[e] = due[e] /\ since'[e] = since[e]
                                        /\ ahead'[e] = ahead[e] /\ last'[e] = last[e]
      BY <1>3, <1>5, UnregisterEffect
    <2>2. Linked'
      BY <2>1 DEF Linked
    <2>3. IntegratesRealTime'
      BY <2>1 DEF IntegratesRealTime, NoUpdate, MinOf, MaxIntervals
    <2> QED BY <2>2, <2>3
  <1>6. ASSUME NEW c \in Component, NEW t \in Tier, SetLODTier(c, t)
        PROVE  (Linked /\ IntegratesRealTime)'
    BY <1>6 DEF SetLODTier, Linked, IntegratesRealTime, Known, Count
  <1>7. ASSUME NEW dt \in 1 .. MaxFrame, Tick(dt) PROVE (Linked /\ IntegratesRealTime)'
    <2>1. PICK U \in SUBSET Known :
            /\ \A c \in U : LateBy(dt)[c] <= 0
            /\ due' = [c \in Component |-> IF c \in U THEN Interval[tier[c]]
                                           ELSE IF c \in Known THEN LateBy(dt)[c] ELSE 0]
            /\ since' = [c \in Component |-> IF c \in U THEN 0
                                             ELSE IF c \in Known THEN RealAfter(dt)[c] ELSE 0]
            /\ ahead' = [c \in Component |-> IF c \in U THEN Interval[tier[c]]
                                             ELSE IF c \in Known THEN ahead[c] ELSE 0]
            /\ last' = [c \in Component |->
                          IF c \in U
                          THEN [integrated |-> Elapsed(c, LateBy(dt)), real |-> RealAfter(dt)[c],
                                interval |-> Interval[tier[c]], ahead |-> ahead[c]]
                          ELSE last[c]]
            /\ cursor' \in 0 .. Cardinality(Component) - 1
            /\ UNCHANGED <<registered, tier, changes>>
      BY <1>7, TickEffect, Zenon
    <2>2. Known' = Known /\ dt \in Nat /\ dt > 0
      BY <2>1, BoundAssumption DEF Known, Count
    <2>3. ASSUME NEW c \in Component, ahead[c] # Staggered
          PROVE  \E time \in Nat : /\ RealAfter(dt)[c] = MinOf(time, Horizon + 1)
                                   /\ LateBy(dt)[c] = MaxOf(ahead[c] - time, -Horizon)
      <3>1. PICK time \in Nat : /\ since[c] = MinOf(time, Horizon + 1)
                                /\ due[c] = MaxOf(ahead[c] - time, -Horizon)
        BY <2>3 DEF Linked
      <3>2. ahead[c] \in Nat /\ time + dt \in Nat
        BY <1>1, <2>2 DEF Typed
      <3>3. /\ RealAfter(dt)[c] = MinOf(since[c] + dt, Horizon + 1)
            /\ LateBy(dt)[c] = MaxOf(due[c] - dt, -Horizon)
        BY DEF RealAfter, LateBy
      <3>4. /\ RealAfter(dt)[c] = MinOf(time + dt, Horizon + 1)
            /\ LateBy(dt)[c] = MaxOf(ahead[c] - (time + dt), -Horizon)
        <4>1. /\ MinOf(MinOf(time, Horizon + 1) + dt, Horizon + 1) = MinOf(time + dt, Horizon + 1)
              /\ MaxOf(MaxOf(ahead[c] - time, -Horizon) - dt, -Horizon)
                   = MaxOf(ahead[c] - (time + dt), -Horizon)
          BY <1>1, <2>2, <3>2 DEF MinOf, MaxOf
        <4> QED BY <3>1, <3>3, <4>1
      <3> QED BY <3>2, <3>4
    <2>4. Linked'
      <3> SUFFICES ASSUME NEW c \in Component
                   PROVE  /\ c \notin Known => ahead'[c] = Staggered
                          /\ ahead'[c] # Staggered =>
                               \E time \in Nat : /\ since'[c] = MinOf(time, Horizon + 1)
                                                 /\ due'[c] = MaxOf(ahead'[c] - time, -Horizon)
        BY <2>2 DEF Linked
      <3>1. CASE c \in U
        <4>1. since'[c] = 0 /\ due'[c] = Interval[tier[c]] /\ ahead'[c] = Interval[tier[c]]
          BY <2>1, <3>1
        <4>2. 0 = MinOf(0, Horizon + 1) /\ Interval[tier[c]] = MaxOf(Interval[tier[c]] - 0, -Horizon)
          BY <1>1, <1>2 DEF MinOf, MaxOf
        <4> QED BY <3>1, <4>1, <4>2
      <3>2. CASE c \notin U /\ c \in Known
        <4>1. /\ since'[c] = RealAfter(dt)[c] /\ due'[c] = LateBy(dt)[c] /\ ahead'[c] = ahead[c]
          BY <2>1, <3>2
        <4> QED BY <2>3, <3>2, <4>1
      <3>3. CASE c \notin Known
        <4>1. ahead'[c] = 0
          BY <2>1, <3>3
        <4> QED BY <4>1 DEF Staggered
      <3> QED BY <3>1, <3>2, <3>3
    <2>5. IntegratesRealTime'
      <3> SUFFICES ASSUME NEW c \in Component, last'[c].ahead = last'[c].interval
                   PROVE  last'[c].integrated = MinOf(last'[c].real, MaxIntervals * last'[c].interval)
        BY DEF IntegratesRealTime
      <3>1. CASE c \in U
        <4> DEFINE i == Interval[tier[c]]
        <4>1. /\ last'[c].integrated = Elapsed(c, LateBy(dt)) /\ last'[c].real = RealAfter(dt)[c]
              /\ last'[c].interval = i /\ last'[c].ahead = ahead[c]
          BY <2>1, <3>1
        <4>2. i \in Nat /\ MaxIntervals * i <= Horizon /\ ahead[c] = i /\ ahead[c] # Staggered
          BY <1>1, <1>2, <4>1 DEF MaxIntervals, Staggered
        <4>3. PICK time \in Nat : /\ RealAfter(dt)[c] = MinOf(time, Horizon + 1)
                                  /\ LateBy(dt)[c] = MaxOf(ahead[c] - time, -Horizon)
          BY <2>3, <4>2
        <4>4. Elapsed(c, LateBy(dt)) = MinOf(i - LateBy(dt)[c], MaxIntervals * i)
          BY DEF Elapsed
        <4> HIDE DEF i
        <4> QED BY <1>1, <4>1, <4>2, <4>3, <4>4, LinkedIntegrates
      <3>2. CASE c \notin U
        <4>1. last'[c] = last[c]
          BY <2>1, <3>2
        <4> QED BY <4>1 DEF IntegratesRealTime
      <3> QED BY <3>1, <3>2
    <2> QED BY <2>4, <2>5
  <1>8. CASE UNCHANGED vars
    BY <1>8 DEF vars, Linked, IntegratesRealTime, Known, Count
  <1> QED BY <1>4, <1>5, <1>6, <1>7, <1>8 DEF Next, Frame

\* The inductive invariant holds throughout.
THEOREM Invariant == Spec => []IInv
  <1>1. Init => IInv
    <2> SUFFICES ASSUME Init PROVE IInv
      OBVIOUS
    <2>1. Longest \in Nat \ {0} /\ Horizon \in Nat
      BY LongestInterval
    <2>2. registered = <<>> /\ registered \in Seq(Component) /\ Count = 0
      BY EmptySeq DEF Init, Count
    <2>3. Distinct
      BY <2>2 DEF Distinct
    <2>4. Cardinality(Component) \in Nat \ {0} /\ MaxChanges \in Nat
      BY <2>2, <2>3, CountKnown, BoundAssumption
    <2>5. Typed
      BY <2>1, <2>2, <2>4, TierAssumption DEF Init, Typed, Staggered, NoUpdate
    <2>6. Linked /\ IntegratesRealTime
      BY DEF Init, Linked, IntegratesRealTime, NoUpdate, MinOf, MaxIntervals
    <2> QED BY <2>3, <2>5, <2>6 DEF IInv
  <1>2. IInv /\ [Next]_vars => IInv'
    BY TypeStep, LinkStep DEF IInv
  <1> QED BY <1>1, <1>2, PTL DEF Spec

\* Type correctness: no component is ever registered twice, and the cursor stays within the
\* components whatever registrations and removals do to the array (RegisterSoldier,
\* UnregisterSoldier, RoundRobinCursor %= Count in Tick).
THEOREM TypeCorrect == Spec => []TypeOK
  BY Invariant, TypedDistinct, PTL DEF IInv

\* However late the frame budget makes an update, it integrates the time that passed since
\* the one before it, up to a few intervals, if the LOD tier stayed what it was.
THEOREM UpdatesIntegrateRealTime == Spec => []IntegratesRealTime
  BY Invariant, PTL DEF IInv

----------------------------------------------------------------------------
(* The turn of a frame.                                                    *)

\* FirstInTurnIsServed, of one step.
FirstServed ==
  \A s \in 0 .. Count - 1 :
    LET at(i) == registered[((cursor + i) % Count) + 1]
        isDue(c) == Updated(c) \/ due'[c] <= 0
    IN  changes' = changes /\ isDue(at(s)) /\ (\A i \in 0 .. s - 1 : ~isDue(at(i)))
          => Updated(at(s))

\* Every step serves the first in turn.
LEMMA TurnStep ==
  ASSUME IInv, Next
  PROVE  FirstServed
  <1>1. Typed /\ Distinct /\ registered \in Seq(Component) /\ Count \in Nat /\ cursor \in Nat
    BY KnownComponents DEF IInv, Typed
  <1>2. ASSUME NEW s \in 0 .. Count - 1 PROVE At(s) \in Known /\ At(s) \in Component
    <2>1. Count \in Nat \ {0} /\ cursor + s \in Nat
      BY <1>1
    <2>2. ((cursor + s) % Count) + 1 \in 1 .. Count
      BY <2>1
    <2> QED BY <1>1, <2>2, KnownComponents DEF At
  <1>3. CASE changes' # changes
    BY <1>3 DEF FirstServed
  <1>4. ASSUME NEW dt \in 1 .. MaxFrame, Tick(dt),
               NEW s \in 0 .. Count - 1,
               Updated(At(s)) \/ due'[At(s)] <= 0,
               \A i \in 0 .. s - 1 : ~(Updated(At(i)) \/ due'[At(i)] <= 0)
        PROVE  Updated(At(s))
    <2>1. PICK U \in SUBSET Known :
            /\ U = Walk(LateBy(dt)).updated
            /\ due' = [c \in Component |-> IF c \in U THEN Interval[tier[c]]
                                           ELSE IF c \in Known THEN LateBy(dt)[c] ELSE 0]
            /\ since' = [c \in Component |-> IF c \in U THEN 0
                                             ELSE IF c \in Known THEN RealAfter(dt)[c] ELSE 0]
      BY <1>1, <1>4, TickEffect, Zenon
    <2>2. ASSUME NEW c \in Known, c \in Component
          PROVE  /\ c \in U => Updated(c)
                 /\ c \notin U => due'[c] = LateBy(dt)[c]
      BY <2>1, <2>2 DEF Updated
    <2>3. ASSUME NEW i \in 0 .. s - 1 PROVE ~(LateBy(dt)[At(i)] <= 0)
      <3>1. i \in 0 .. Count - 1
        BY <1>1
      <3>2. At(i) \in Known /\ At(i) \in Component
        BY <1>2, <3>1
      <3> QED BY <1>4, <2>2, <3>2
    <2>4. CASE At(s) \notin U
      <3>1. Updated(At(s)) \/ LateBy(dt)[At(s)] <= 0
        BY <1>2, <1>4, <2>2, <2>4
      <3>2. ASSUME LateBy(dt)[At(s)] <= 0 PROVE FALSE
        BY <1>1, <2>1, <2>3, <2>4, <3>2, FirstDueIsUpdated
      <3> QED BY <3>1, <3>2
    <2> QED BY <1>2, <2>2, <2>4
  <1>5. ASSUME NEW c \in Component, RegisterSoldier(c) \/ UnregisterSoldier(c)
                                      \/ (\E t \in Tier : SetLODTier(c, t))
        PROVE  changes' # changes
    BY <1>1, <1>5 DEF RegisterSoldier, UnregisterSoldier, SetLODTier, Change, Typed
  <1>6. ASSUME NEW dt \in 1 .. MaxFrame, Tick(dt) PROVE FirstServed
    BY <1>4, <1>6 DEF FirstServed, At
  <1> QED BY <1>3, <1>5, <1>6 DEF Next, Frame

\* In every frame the first component from the cursor that is due is updated, whatever was
\* registered and removed in between: the budget cannot be spent before its turn.
THEOREM FirstInTurn == Spec => FirstInTurnIsServed
  <1>1. IInv /\ [Next]_vars => [FirstServed]_vars
    BY TurnStep
  <1> QED BY <1>1, Invariant, PTL DEF Spec, FirstInTurnIsServed, FirstServed
=============================================================================
