------------------------ MODULE PerceptionScheduler ------------------------
(***************************************************************************)
(* The scheduler of the soldiers' perception (USoldierPerceptionSubsystem, *)
(* layer L2).                                                              *)
(*                                                                         *)
(* Each soldier's perception asks to be updated at the rate of its LOD     *)
(* tier.  Once a frame the subsystem walks the registered components from  *)
(* its round-robin cursor and updates those that are due, at most          *)
(* MaxUpdatesPerFrame of them, passing each the time that it integrates.   *)
(*                                                                         *)
(* A time is kept relative to now, in time units: how long until a         *)
(* component is due, negative when it is late, and how long it really was  *)
(* since its last update.  Both saturate where no comparison tells them    *)
(* apart any more.                                                         *)
(***************************************************************************)
EXTENDS Integers, FiniteSets, Sequences

CONSTANTS
  Component,            \* the perception components that may exist
  Tier,                 \* LODTier values in use
  Interval,             \* GetUpdateInterval for each tier
  MaxUpdatesPerFrame,   \* MaxUpdatesPerFrame
  MaxFrame,             \* bound on the length of a frame
  MaxChanges            \* bound on the registrations, removals and tier changes

ASSUME ComponentAssumption == IsFiniteSet(Component) /\ Component # {}
ASSUME TierAssumption ==
  /\ 0 \in Tier /\ IsFiniteSet(Tier)
  /\ Interval \in [Tier -> Nat \ {0}]
ASSUME BoundAssumption ==
  /\ MaxUpdatesPerFrame \in Nat \ {0}
  /\ MaxFrame \in Nat \ {0}
  /\ MaxChanges \in Nat

Longest == CHOOSE i \in {Interval[t] : t \in Tier} : \A t \in Tier : Interval[t] <= i
\* The longest time an update integrates, in intervals.
MaxIntervals == 4
Horizon == MaxIntervals * Longest

VARIABLES
  registered,   \* Registered
  cursor,       \* RoundRobinCursor
  tier,         \* LODTier of each component
  due,          \* NextUpdateWorldTime, relative to now
  since,        \* the time since a component's last update, or its registration
  ahead,        \* the interval that due was set ahead by, or Staggered
  last,         \* of its last update: the time that was integrated, the time that had
                \* really passed, the interval, and what ahead was
  changes       \* registrations, removals and tier changes so far

vars == <<registered, cursor, tier, due, since, ahead, last, changes>>

Staggered == 0
NoUpdate == [integrated |-> 0, real |-> 0, interval |-> 0, ahead |-> Staggered]
Count == Len(registered)
Known == {registered[i] : i \in 1 .. Count}

MinOf(a, b) == IF a < b THEN a ELSE b
MaxOf(a, b) == IF a < b THEN b ELSE a

----------------------------------------------------------------------------
(* Registration.                                                           *)

Change == changes < MaxChanges /\ changes' = changes + 1

\* Variants of an operator, named Bad..., hold the mistakes that the properties must tell
\* from the code; no action uses them.
\* A component may be added a second time.
BadRegisterSoldier(c) ==
  /\ Change
  /\ registered' = Append(registered, c)
  /\ \E stagger \in 0 .. Interval[tier[c]] - 1 : due' = [due EXCEPT ![c] = stagger]
  /\ UNCHANGED <<cursor, tier, since, ahead, last>>

\* BeginPlay registers a component; its first update is staggered over one interval.
RegisterSoldier(c) ==
  /\ Change
  /\ c \notin Known
  /\ registered' = Append(registered, c)
  /\ \E stagger \in 0 .. Interval[tier[c]] - 1 : due' = [due EXCEPT ![c] = stagger]
  /\ UNCHANGED <<cursor, tier, since, ahead, last>>

\* EndPlay removes a component: the last one takes its place, and the cursor stays.
UnregisterSoldier(c) ==
  /\ Change
  /\ c \in Known
  /\ \E i \in 1 .. Count :
       /\ registered[i] = c
       /\ registered' = SubSeq([registered EXCEPT ![i] = registered[Count]], 1, Count - 1)
  /\ due' = [due EXCEPT ![c] = 0]
  /\ since' = [since EXCEPT ![c] = 0]
  /\ ahead' = [ahead EXCEPT ![c] = Staggered]
  /\ last' = [last EXCEPT ![c] = NoUpdate]
  /\ UNCHANGED <<cursor, tier>>

\* The LOD of a soldier changes: only its next update reads the new rate.
SetLODTier(c, t) ==
  /\ Change
  /\ tier[c] # t
  /\ tier' = [tier EXCEPT ![c] = t]
  /\ UNCHANGED <<registered, cursor, due, since, ahead, last>>

----------------------------------------------------------------------------
(* One frame.                                                              *)

\* The walk starts at the first component in every frame.
BadWalk(d) ==
  LET w[s \in 0 .. Count] ==
        IF s = 0 THEN [cursor |-> 0, updated |-> {}]
        ELSE LET c == registered[s]
             IN  IF Cardinality(w[s - 1].updated) < MaxUpdatesPerFrame /\ d[c] <= 0
                 THEN [cursor |-> s, updated |-> w[s - 1].updated \cup {c}]
                 ELSE w[s - 1]
  IN  w[Count]

\* The loop of Tick as a function of the number of steps taken: where the cursor is and
\* which components were updated, when d gives how late each one is.  The index of a step
\* is counted from the cursor that the earlier steps have moved already.
Walk(d) ==
  LET w[s \in 0 .. Count] ==
        IF s = 0 THEN [cursor |-> cursor, updated |-> {}]
        ELSE LET index == (w[s - 1].cursor + s - 1) % Count
                 c     == registered[index + 1]
             IN  IF /\ Cardinality(w[s - 1].updated) < MaxUpdatesPerFrame
                    /\ d[c] <= 0 /\ c \notin w[s - 1].updated
                 THEN [cursor |-> index + 1, updated |-> w[s - 1].updated \cup {c}]
                 ELSE w[s - 1]
  IN  w[Count]

\* The nominal interval, however late the update is.
BadElapsed(c, d) == Interval[tier[c]]

\* The time an update integrates: how late it is, and the interval before that, but no more
\* than a few intervals.
Elapsed(c, d) == MinOf(Interval[tier[c]] - d[c], MaxIntervals * Interval[tier[c]])

\* dt passes, and Tick updates the components that are due.
Tick(dt) ==
  LET late   == [c \in Component |-> MaxOf(due[c] - dt, -Horizon)]
      real   == [c \in Component |-> MinOf(since[c] + dt, Horizon + 1)]
      walked == Walk(late)
      after(new, old) == [c \in Component |->
        IF c \in walked.updated THEN new[c] ELSE IF c \in Known THEN old[c] ELSE 0]
      interval == [c \in Component |-> Interval[tier[c]]]
  IN  /\ due' = after(interval, late)
      /\ since' = after([c \in Component |-> 0], real)
      /\ ahead' = after(interval, ahead)
      /\ last' = [c \in Component |->
                    IF c \in walked.updated
                    THEN [integrated |-> Elapsed(c, late), real |-> real[c],
                          interval |-> interval[c], ahead |-> ahead[c]]
                    ELSE last[c]]
      /\ cursor' = IF Count = 0 THEN cursor ELSE walked.cursor % Count
      /\ UNCHANGED <<registered, tier, changes>>

Frame == \E dt \in 1 .. MaxFrame : Tick(dt)

Init ==
  /\ registered = <<>>
  /\ cursor = 0
  /\ tier = [c \in Component |-> 0]
  /\ due = [c \in Component |-> 0]
  /\ since = [c \in Component |-> 0]
  /\ ahead = [c \in Component |-> Staggered]
  /\ last = [c \in Component |-> NoUpdate]
  /\ changes = 0

Next ==
  \/ \E c \in Component : RegisterSoldier(c)
  \/ \E c \in Component : UnregisterSoldier(c)
  \/ \E c \in Component, t \in Tier : SetLODTier(c, t)
  \/ Frame

Spec == Init /\ [][Next]_vars

\* The engine keeps drawing frames.
FairSpec == Spec /\ WF_vars(Frame)

----------------------------------------------------------------------------
(* Properties.                                                             *)

\* Every variable has its type; no component is registered twice, and the cursor is left
\* inside the array by every frame (RoundRobinCursor %= Count).
TypeOK ==
  /\ registered \in Seq(Component)
  /\ Cardinality(Known) = Count
  /\ cursor \in 0 .. Cardinality(Component) - 1
  /\ tier \in [Component -> Tier]
  /\ due \in [Component -> -Horizon .. Longest]
  /\ since \in [Component -> 0 .. Horizon + 1]
  /\ ahead \in [Component -> 0 .. Longest]
  /\ last \in [Component -> [integrated : 0 .. Horizon, real : 0 .. Horizon + 1,
                             interval : 0 .. Longest, ahead : 0 .. Longest]]
  /\ changes \in 0 .. MaxChanges

\* An update integrates the time that really passed since the one before it, up to a few
\* intervals, however late the frame budget made it: as long as the LOD tier did not change
\* in between.
IntegratesRealTime ==
  \A c \in Component : last[c].ahead = last[c].interval =>
    last[c].integrated = MinOf(last[c].real, MaxIntervals * last[c].interval)

\* The same whether or not the LOD tier changed: what the comments on UpdatePerception and
\* in Tick say of DeltaTime.  The first update of a component has none before it.
DeltaIsReal ==
  \A c \in Component : last[c].ahead # Staggered =>
    last[c].integrated = MinOf(last[c].real, MaxIntervals * last[c].interval)

\* A frame updated c: since counts from zero again.
Updated(c) == since'[c] = 0

\* In every frame the first component from the cursor that is due gets its update, whatever
\* the registrations and removals did to the array and to the cursor.
FirstInTurnIsServed ==
  [][\A s \in 0 .. Count - 1 :
       LET at(i) == registered[((cursor + i) % Count) + 1]
           isDue(c) == Updated(c) \/ due'[c] <= 0
       IN  changes' = changes /\ isDue(at(s)) /\ (\A i \in 0 .. s - 1 : ~isDue(at(i)))
             => Updated(at(s))]_vars

\* A component that stays registered is updated again and again: the round robin starves
\* nobody when the frame budget bites.
NobodyStarves ==
  \A c \in Component : <>[](c \in Known) => []<>(since[c] = 0)

=============================================================================
