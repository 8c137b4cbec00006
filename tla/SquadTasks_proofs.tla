--------------------------- MODULE SquadTasks_proofs ---------------------------
(***************************************************************************)
(* What holds of the soldiers' StateTree nodes and their squad for every   *)
(* squad, every set of plans and caps, and every order of ticks.           *)
(***************************************************************************)
EXTENDS SquadTasks, FiniteSetTheorems, TLAPS

----------------------------------------------------------------------------
(* Lemmas about the squad's answers.                                       *)

\* "None" is the name of no token type.
LEMMA NoneIsNoType == None \notin Type
  BY TypeAssumption DEF None

\* A set of members can be counted.
LEMMA Countable ==
  ASSUME NEW S \in SUBSET Member
  PROVE  IsFiniteSet(S) /\ Cardinality(S) \in Nat
  BY MemberAssumption, FS_Subset, FS_CardinalityType

\* Fewer holders hold fewer tokens.
LEMMA FewerHold ==
  ASSUME NEW S \in SUBSET Member, NEW T \in SUBSET S
  PROVE  Cardinality(T) <= Cardinality(S)
  BY Countable, FS_Subset

\* What is granted to members and elements together is no less than what members hold.
LEMMA GrantsCounted ==
  ASSUME NEW own \in [Type -> SUBSET Member], NEW ofElement, NEW t \in Type
  PROVE  GrantCount(own, ofElement, t) \in Nat /\ GrantCount(own, ofElement, t) >= Cardinality(own[t])
<1>1. Cardinality(own[t]) \in Nat
  BY Countable
<1> QED
  BY <1>1 DEF GrantCount

\* RequestToken types what it changes, and grants no token that is not free.
LEMMA RequestTyped ==
  ASSUME TypeOK, NEW m \in Member, NEW t \in Type, RequestToken(m, t)
  PROVE  /\ holders' \in [Type -> SUBSET Member]
         /\ \A u \in Type : Cardinality(holders'[u]) <= TokenCap[u]
         /\ request' \in [Member -> Type \cup {None}]
<1>1. CASE UNCHANGED holders
  <2>1. request' \in [Member -> Type \cup {None}]
    BY <1>1 DEF RequestToken, TypeOK
  <2> QED
    BY <1>1, <2>1 DEF TypeOK
<1>2. CASE /\ Free(t) /\ holders' = [holders EXCEPT ![t] = @ \cup {m}]
           /\ request' = [request EXCEPT ![m] = None]
  <2>1. holders \in [Type -> SUBSET Member] /\ request \in [Member -> Type \cup {None}]
    BY DEF TypeOK
  <2>2. Cardinality(holders[t]) \in Nat /\ TokenCap[t] \in Nat
    BY <2>1, Countable, CapAssumption
  <2>3. Cardinality(holders[t]) < TokenCap[t]
    BY <1>2, <2>1, <2>2, GrantsCounted, CapAssumption DEF Free
  <2>4. Cardinality(holders[t] \cup {m}) <= Cardinality(holders[t]) + 1
    BY <2>1, <2>2, Countable, FS_AddElement
  <2>5. Cardinality(holders[t] \cup {m}) \in Nat
    BY <2>1, Countable
  <2>6. Cardinality(holders'[t]) <= TokenCap[t]
    BY <1>2, <2>1, <2>2, <2>3, <2>4, <2>5
  <2>7. \A u \in Type \ {t} : holders'[u] = holders[u]
    BY <1>2, <2>1
  <2>8. \A u \in Type : Cardinality(holders'[u]) <= TokenCap[u]
    BY <2>6, <2>7 DEF TypeOK
  <2>9. holders' \in [Type -> SUBSET Member] /\ request' \in [Member -> Type \cup {None}]
    BY <1>2, <2>1
  <2> QED
    BY <2>8, <2>9
<1> QED
  BY <1>1, <1>2 DEF RequestToken

\* ReleaseToken takes tokens away.
LEMMA ReleaseTyped ==
  ASSUME TypeOK, NEW m \in Member, NEW t, ReleaseToken(m, t)
  PROVE  /\ holders' \in [Type -> SUBSET Member]
         /\ \A u \in Type : Cardinality(holders'[u]) <= TokenCap[u]
         /\ request' \in [Member -> Type \cup {None}]
<1>1. holders \in [Type -> SUBSET Member] /\ request \in [Member -> Type \cup {None}]
  BY DEF TypeOK
<1>2. holders' \in [Type -> SUBSET Member] /\ \A u \in Type : holders'[u] \subseteq holders[u]
  BY <1>1 DEF ReleaseToken
<1>3. \A u \in Type : Cardinality(holders'[u]) <= TokenCap[u]
  <2> SUFFICES ASSUME NEW u \in Type PROVE Cardinality(holders'[u]) <= TokenCap[u]
    OBVIOUS
  <2>1. Cardinality(holders'[u]) <= Cardinality(holders[u])
    BY <1>1, <1>2, FewerHold
  <2> QED
    BY <1>1, <1>2, <2>1, Countable, CapAssumption DEF TypeOK
<1> QED
  BY <1>1, <1>2, <1>3 DEF ReleaseToken

\* The queue is served within the caps, from those who wait in it.
LEMMA ServedWithinCap ==
  ASSUME NEW own \in [Type -> SUBSET Member], NEW t \in Type, NEW ofElement, NEW chosen,
         alive \subseteq Member, Cardinality(own[t]) <= TokenCap[t],
         Serves(own, ofElement, t, chosen)
  PROVE  /\ \A m \in chosen : m \in Member /\ request[m] = t
         /\ Cardinality(own[t] \cup chosen) <= TokenCap[t]
<1>1. chosen \subseteq Queue(own, ofElement, t)
  BY DEF Serves
<1>2. \A m \in chosen : m \in Member /\ request[m] = t
  BY <1>1 DEF Queue
<1>3. /\ Cardinality(own[t]) \in Nat /\ Cardinality(chosen) \in Nat /\ TokenCap[t] \in Nat
      /\ IsFiniteSet(own[t]) /\ IsFiniteSet(chosen)
  BY <1>2, Countable, CapAssumption
<1>4. /\ GrantCount(own, ofElement, t) \in Nat
      /\ GrantCount(own, ofElement, t) >= Cardinality(own[t])
  BY GrantsCounted
<1>5. CASE chosen = {}
  <2>1. own[t] \cup chosen = own[t]
    BY <1>5
  <2> QED
    BY <1>2, <2>1
<1>6. CASE Cardinality(chosen) + GrantCount(own, ofElement, t) <= TokenCap[t]
  <2>1. /\ Cardinality(own[t] \cup chosen)
             = Cardinality(own[t]) + Cardinality(chosen) - Cardinality(own[t] \cap chosen)
        /\ Cardinality(own[t] \cap chosen) \in Nat
    BY <1>2, <1>3, Countable, FS_Union
  <2> QED
    BY <1>2, <1>3, <1>4, <1>6, <2>1
<1>7. chosen = {} \/ Cardinality(chosen) + GrantCount(own, ofElement, t) <= TokenCap[t]
  BY <1>3, <1>4 DEF Serves
<1> QED
  BY <1>5, <1>6, <1>7

\* What a tick does to tokens and requests: those who are granted a token waited for it.
LEMMA TickServes ==
  ASSUME TypeOK, SquadTick
  PROVE  /\ holders' \in [Type -> SUBSET Member]
         /\ \A t \in Type : Cardinality(holders'[t]) <= TokenCap[t]
         /\ \A t \in Type : \A m \in holders'[t] : m \in holders[t] \/ request[m] = t
         /\ request' \in [Member -> Type \cup {None}]
         /\ \A m \in Member : request'[m] \in {None, request[m]}
         /\ leaked' = StillOut(leaked)
         /\ UNCHANGED <<alive, soldierVars>>
<1>1. PICK lost \in SUBSET {p \in Member \X Type : p[1] \in holders[p[2]]},
           chosen \in [Type -> SUBSET Member], ofElement \in {None, elementGrant} :
        LET kept == Kept(lost)
            own == [t \in Type |-> kept[t] \cup chosen[t]]
        IN /\ \A t \in Type : Serves(kept, ofElement, t, chosen[t])
           /\ request' = [m \in Member |->
                IF \E t \in Type : m \in chosen[t] THEN None ELSE request[m]]
           /\ \/ TokensTick(own, ofElement)
              \/ \E p \in Plan, over \in BOOLEAN, corridor \in BOOLEAN :
                   PlanTick(own, ofElement, p, over, corridor)
           /\ leaked' = StillOut(leaked)
           /\ UNCHANGED <<alive, soldierVars>>
  BY DEF SquadTick
<1> DEFINE kept == Kept(lost)
           own == [t \in Type |-> kept[t] \cup chosen[t]]
<1>2. holders \in [Type -> SUBSET Member] /\ request \in [Member -> Type \cup {None}]
      /\ alive \subseteq Member
  BY DEF TypeOK
<1>3. kept \in [Type -> SUBSET Member] /\ \A t \in Type : kept[t] \subseteq holders[t]
  BY <1>2 DEF Kept
<1>4. \A t \in Type : Serves(kept, ofElement, t, chosen[t])
  BY <1>1
<1>5. TokensTick(own, ofElement) \/ \E p \in Plan, over \in BOOLEAN, corridor \in BOOLEAN :
        PlanTick(own, ofElement, p, over, corridor)
  BY <1>1
<1>6. request' = [m \in Member |-> IF \E t \in Type : m \in chosen[t] THEN None ELSE request[m]]
      /\ leaked' = StillOut(leaked) /\ UNCHANGED <<alive, soldierVars>>
  BY <1>1
<1> HIDE DEF kept
<1>7. ASSUME NEW t \in Type
      PROVE  /\ \A m \in own[t] : m \in holders[t] \/ request[m] = t
             /\ Cardinality(own[t]) <= TokenCap[t]
  <2>1. Cardinality(kept[t]) <= Cardinality(holders[t])
    BY <1>2, <1>3, FewerHold
  <2>2. Cardinality(kept[t]) <= TokenCap[t]
    BY <1>2, <1>3, <2>1, Countable, CapAssumption DEF TypeOK
  <2>3. /\ \A m \in chosen[t] : m \in Member /\ request[m] = t
        /\ Cardinality(kept[t] \cup chosen[t]) <= TokenCap[t]
    BY <1>2, <1>3, <1>4, <2>2, ServedWithinCap
  <2> QED
    BY <1>3, <2>3
<1>8. own \in [Type -> SUBSET Member]
  BY <1>3
<1> HIDE DEF own
<1>9. holders' \in [Type -> SUBSET Member] /\ \A t \in Type : holders'[t] \subseteq own[t]
  <2>1. CASE TokensTick(own, ofElement)
    BY <1>8, <2>1 DEF TokensTick
  <2>2. ASSUME NEW p \in Plan, NEW over \in BOOLEAN, NEW corridor \in BOOLEAN,
               PlanTick(own, ofElement, p, over, corridor)
        PROVE  holders' \in [Type -> SUBSET Member] /\ \A t \in Type : holders'[t] \subseteq own[t]
    <3>1. holders' = IF over THEN [t \in Type |-> IF t = "Movement" THEN {} ELSE own[t]] ELSE own
      BY <2>2 DEF PlanTick
    <3> QED
      BY <1>8, <3>1
  <2> QED
    BY <1>5, <2>1, <2>2
<1>10. \A t \in Type : Cardinality(holders'[t]) <= TokenCap[t]
  <2> SUFFICES ASSUME NEW t \in Type PROVE Cardinality(holders'[t]) <= TokenCap[t]
    OBVIOUS
  <2>1. Cardinality(holders'[t]) <= Cardinality(own[t])
    BY <1>8, <1>9, FewerHold
  <2> QED
    BY <1>7, <1>8, <1>9, <2>1, Countable, CapAssumption
<1>11. request' \in [Member -> Type \cup {None}] /\ \A m \in Member : request'[m] \in {None, request[m]}
  BY <1>2, <1>6
<1> QED
  BY <1>6, <1>7, <1>9, <1>10, <1>11

\* A tick that evaluates the plan makes a new assignment for everybody: under the revision
\* that is there if the plan stays, and under a new one if it changes or the flank fails.
Replans(p, element, own, number, fails) ==
  /\ number <= MaxRevision
  /\ p = plan => number = revision
  /\ p # plan => number > revision
  /\ fails => number > revision
  /\ plan' \in Plan /\ (~fails => plan' = p)
  /\ mover' = element
  /\ revision' = number
  /\ live' = Assigned(p, element, own, number)
  /\ early' = IF fails THEN early \cup {number} ELSE early

\* A tick evaluates the plan or does not.
LEMMA TickCases ==
  ASSUME SquadTick
  PROVE  \E own : \E ofElement \in {None, elementGrant} :
           \/ TokensTick(own, ofElement)
           \/ \E p \in Plan, over \in BOOLEAN, corridor \in BOOLEAN :
                PlanTick(own, ofElement, p, over, corridor)
  BY ZenonT(30) DEF SquadTick

\* An evaluation of the plan is of that form.
LEMMA PlanTickReplans ==
  ASSUME TypeOK, NEW own, NEW ofElement, NEW p \in Plan, NEW over \in BOOLEAN,
         NEW corridor \in BOOLEAN, PlanTick(own, ofElement, p, over, corridor)
  PROVE  \E element \in Element \cup {None},
            number \in revision .. revision + 2, fails \in BOOLEAN :
           \E after : Replans(p, element, after, number, fails)
<1> DEFINE element == IF p \notin PerElement THEN None ELSE IF over THEN NextMover ELSE mover
           after == IF over THEN [t \in Type |-> IF t = "Movement" THEN {} ELSE own[t]] ELSE own
           fails == p = "Flank" /\ p # plan /\ ~corridor
           number == IF fails THEN Pushed(p) + 1 ELSE Pushed(p)
<1>1. /\ number <= MaxRevision
      /\ plan' = IF fails THEN "BaseOfFire" ELSE p
      /\ mover' = element
      /\ revision' = number
      /\ live' = Assigned(p, element, after, number)
      /\ early' = IF fails THEN early \cup {number} ELSE early
  BY Zenon DEF PlanTick
<1>2. /\ p = plan => number = revision
      /\ p # plan => number > revision
      /\ fails => number > revision
      /\ number \in revision .. revision + 2
  BY DEF Pushed, TypeOK
<1>3. plan' \in Plan /\ (~fails => plan' = p)
  BY <1>1, PlanAssumption
<1>4. element \in Element \cup {None}
  BY DEF TypeOK, Element, NextMover
<1>5. fails \in BOOLEAN
  OBVIOUS
<1> HIDE DEF element, after, fails, number
<1>6. Replans(p, element, after, number, fails)
  BY <1>1, <1>2, <1>3 DEF Replans
<1> QED
  BY <1>2, <1>4, <1>5, <1>6, Zenon

\* What a tick does to the plan and the assignments: nothing, or that.
LEMMA TickPlans ==
  ASSUME TypeOK, SquadTick
  PROVE  \/ UNCHANGED <<plan, mover, revision, live, early>>
         \/ \E p \in Plan, element \in Element \cup {None},
               number \in revision .. revision + 2, fails \in BOOLEAN :
              \E own : Replans(p, element, own, number, fails)
<1>1. PICK own : \E ofElement \in {None, elementGrant} :
           \/ TokensTick(own, ofElement)
           \/ \E p \in Plan, over \in BOOLEAN, corridor \in BOOLEAN :
                PlanTick(own, ofElement, p, over, corridor)
  BY TickCases, Zenon
<1>2. PICK ofElement \in {None, elementGrant} :
           \/ TokensTick(own, ofElement)
           \/ \E p \in Plan, over \in BOOLEAN, corridor \in BOOLEAN :
                PlanTick(own, ofElement, p, over, corridor)
  BY <1>1, Zenon
<1>3. CASE TokensTick(own, ofElement)
  BY <1>3 DEF TokensTick
<1>4. ASSUME NEW p \in Plan, NEW over \in BOOLEAN, NEW corridor \in BOOLEAN,
             PlanTick(own, ofElement, p, over, corridor)
      PROVE  \E element \in Element \cup {None},
                number \in revision .. revision + 2, fails \in BOOLEAN :
               \E after : Replans(p, element, after, number, fails)
  BY <1>4, PlanTickReplans, Zenon
<1> QED
  BY <1>2, <1>3, <1>4, Zenon

\* Every assignment has a task.
LEMMA AssignedTyped ==
  ASSUME NEW p \in Plan, NEW element, NEW own, NEW number \in 0 .. MaxRevision
  PROVE  /\ Assigned(p, element, own, number) \in [Member -> Assignment]
         /\ \A m \in Member : /\ Assigned(p, element, own, number)[m].plan = p
                              /\ Assigned(p, element, own, number)[m].revision = number
<1>1. \A m, a, b : TaskOf(p, m, a, b) \in Task
  BY DEF TaskOf, Task
<1> QED
  BY <1>1 DEF Assigned, Assignment

----------------------------------------------------------------------------
(* Types.                                                                  *)

\* Nobody has a token or an assignment at first.
LEMMA InitTyped == Init => TypeOK
<1> SUFFICES ASSUME Init PROVE TypeOK
  OBVIOUS
<1>1. NoAssignment \in Assignment
  BY BoundAssumption DEF NoAssignment, Assignment, Task
<1>2. Outside \in [type : Type \cup {None}, status : Status]
  BY DEF Outside, Status
<1>3. \A t \in Type : Cardinality(holders[t]) <= TokenCap[t]
  BY FS_EmptySet, CapAssumption DEF Init
<1>4. holders \in [Type -> SUBSET Member] /\ request \in [Member -> Type \cup {None}]
  BY DEF Init
<1>5. live \in [Member -> Assignment] /\ seen \in [Member -> Assignment]
      /\ node \in [Member -> [type : Type \cup {None}, status : Status]]
  BY <1>1, <1>2 DEF Init
<1> QED
  BY <1>3, <1>4, <1>5, BoundAssumption, MemberAssumption DEF Init, TypeOK

\* What is left behind is a pair of a soldier and a token.
LEMMA StillOutTyped ==
  ASSUME NEW S \in SUBSET (Member \X Type)
  PROVE  StillOut(S) \subseteq Member \X Type
  BY DEF StillOut

\* One lemma for each kind of step: the squad's,
LEMMA SquadTickTyped ==
  ASSUME TypeOK, SquadTick
  PROVE  TypeOK'
<1>1. /\ plan' \in Plan \cup {None} /\ mover' \in Element \cup {None}
      /\ revision' \in 0 .. MaxRevision /\ live' \in [Member -> Assignment]
      /\ early' \subseteq 1 .. MaxRevision
  <2>1. CASE UNCHANGED <<plan, mover, revision, live, early>>
    BY <2>1 DEF TypeOK
  <2>2. ASSUME NEW p \in Plan, NEW element \in Element \cup {None},
               NEW number \in revision .. revision + 2, NEW fails \in BOOLEAN, NEW own,
               Replans(p, element, own, number, fails)
        PROVE  /\ plan' \in Plan \cup {None} /\ mover' \in Element \cup {None}
               /\ revision' \in 0 .. MaxRevision /\ live' \in [Member -> Assignment]
               /\ early' \subseteq 1 .. MaxRevision
    <3>1. number \in 0 .. MaxRevision /\ (fails => number \in 1 .. MaxRevision)
      BY <2>2, BoundAssumption DEF Replans, TypeOK
    <3>2. live' \in [Member -> Assignment]
      BY <2>2, <3>1, AssignedTyped DEF Replans
    <3> QED
      BY <2>2, <3>1, <3>2 DEF Replans, TypeOK
  <2> QED
    BY TickPlans, <2>1, <2>2, Zenon
<1>2. elementGrant' \in Element \cup {None}
  <2>1. ASSUME NEW own, NEW ofElement \in {None, elementGrant}, TokensTick(own, ofElement)
        PROVE  elementGrant' \in Element \cup {None}
    BY <2>1 DEF TokensTick, TypeOK
  <2>2. ASSUME NEW own, NEW ofElement \in {None, elementGrant}, NEW p \in Plan,
               NEW over \in BOOLEAN, NEW corridor \in BOOLEAN,
               PlanTick(own, ofElement, p, over, corridor)
        PROVE  elementGrant' \in Element \cup {None}
    BY <2>2 DEF PlanTick, NextMover, TypeOK, Element
  <2> QED
    BY TickCases, <2>1, <2>2, Zenon
<1>3. leaked' \subseteq Member \X Type
  BY TickServes, StillOutTyped DEF TypeOK
<1> QED
  BY <1>1, <1>2, <1>3, TickServes DEF TypeOK, soldierVars

\* that of a task that enters its state,
LEMMA EnterStateTyped ==
  ASSUME TypeOK, NEW m \in Member, NEW t \in Type, NEW f \in BOOLEAN, EnterState(m, t, f)
  PROVE  TypeOK'
<1>1. /\ holders' \in [Type -> SUBSET Member]
      /\ \A u \in Type : Cardinality(holders'[u]) <= TokenCap[u]
      /\ request' \in [Member -> Type \cup {None}]
  <2>1. CASE m \notin resolves
    BY <2>1 DEF EnterState, TypeOK
  <2>2. CASE m \in resolves
    BY <2>2, RequestTyped DEF EnterState
  <2> QED
    BY <2>1, <2>2
<1>2. \E st \in Status : node' = [node EXCEPT ![m] = [type |-> t, status |-> st]]
  BY DEF EnterState, Status
<1>3. node' \in [Member -> [type : Type \cup {None}, status : Status]]
  BY <1>2 DEF TypeOK
<1>4. leaked' \subseteq Member \X Type
  <2>1. leaked \subseteq Member \X Type /\ leaked \ {<<m, t>>} \subseteq Member \X Type
    BY DEF TypeOK
  <2> QED
    BY <2>1, StillOutTyped DEF EnterState
<1>5. UNCHANGED <<squadVars, elementGrant, resolves, seen>>
  BY DEF EnterState
<1> QED
  BY <1>1, <1>3, <1>4, <1>5 DEF TypeOK, squadVars

\* of a task that waits,
LEMMA WaitingTickTyped ==
  ASSUME TypeOK, NEW m \in Member, node[m].type \in Type, WaitingTick(m)
  PROVE  TypeOK'
<1>1. /\ holders' \in [Type -> SUBSET Member]
      /\ \A u \in Type : Cardinality(holders'[u]) <= TokenCap[u]
      /\ request' \in [Member -> Type \cup {None}]
  BY RequestTyped DEF WaitingTick
<1>2. node' \in [Member -> [type : Type \cup {None}, status : Status]]
  BY DEF WaitingTick, TypeOK, Status
<1>3. leaked' \subseteq Member \X Type
  BY StillOutTyped DEF WaitingTick, TypeOK
<1>4. UNCHANGED <<squadVars, elementGrant, resolves, seen>>
  BY DEF WaitingTick
<1> QED
  BY <1>1, <1>2, <1>3, <1>4 DEF TypeOK, squadVars

\* and of one that leaves,
LEMMA ExitStateTyped ==
  ASSUME TypeOK, NEW m \in Member, node[m].type \in Type, ExitState(m)
  PROVE  TypeOK'
<1>1. /\ holders' \in [Type -> SUBSET Member]
      /\ \A u \in Type : Cardinality(holders'[u]) <= TokenCap[u]
      /\ request' \in [Member -> Type \cup {None}]
  <2>1. CASE ReleaseToken(m, node[m].type)
    BY <2>1, ReleaseTyped
  <2>2. CASE UNCHANGED <<holders, request>>
    BY <2>2 DEF TypeOK
  <2> QED
    BY <2>1, <2>2 DEF ExitState
<1>2. node' \in [Member -> [type : Type \cup {None}, status : Status]]
  BY DEF ExitState, TypeOK, Outside, Status
<1>3. leaked' \subseteq Member \X Type
  <2>1. leaked \subseteq Member \X Type /\ leaked \cup {<<m, node[m].type>>} \subseteq Member \X Type
    BY DEF TypeOK
  <2> QED
    BY <2>1, StillOutTyped DEF ExitState
<1>4. UNCHANGED <<squadVars, elementGrant, resolves, seen>>
  BY DEF ExitState
<1> QED
  BY <1>1, <1>2, <1>3, <1>4 DEF TypeOK, squadVars

\* a death,
LEMMA NotifyMemberDiedTyped ==
  ASSUME TypeOK, NEW m \in Member, NotifyMemberDied(m)
  PROVE  TypeOK'
<1>1. holders' \in [Type -> SUBSET Member] /\ \A t \in Type : holders'[t] \subseteq holders[t]
  BY DEF NotifyMemberDied, TypeOK
<1>2. \A t \in Type : Cardinality(holders'[t]) <= TokenCap[t]
  <2> SUFFICES ASSUME NEW t \in Type PROVE Cardinality(holders'[t]) <= TokenCap[t]
    OBVIOUS
  <2>1. holders[t] \in SUBSET Member /\ holders'[t] \in SUBSET holders[t] /\ holders'[t] \in SUBSET Member
    BY <1>1 DEF TypeOK
  <2>2. Cardinality(holders'[t]) <= Cardinality(holders[t])
    BY <2>1, FewerHold
  <2> QED
    BY <2>1, <2>2, Countable, CapAssumption DEF TypeOK
<1>3. alive' \subseteq Member /\ request' \in [Member -> Type \cup {None}]
  BY DEF NotifyMemberDied, TypeOK
<1>4. leaked' \subseteq Member \X Type
  BY StillOutTyped DEF NotifyMemberDied, TypeOK
<1>5. UNCHANGED <<plan, mover, revision, live, early, elementGrant, soldierVars>>
  BY DEF NotifyMemberDied
<1> QED
  BY <1>1, <1>2, <1>3, <1>4, <1>5 DEF TypeOK, soldierVars

\* an order,
LEMMA HoldFireTyped ==
  ASSUME TypeOK, HoldFire
  PROVE  TypeOK'
<1>1. revision' \in 1 .. MaxRevision /\ revision' = revision + 1
  BY BoundAssumption DEF HoldFire, TypeOK
<1>2. live' \in [Member -> Assignment]
  <2>1. \A a \in Assignment : [a EXCEPT !.revision = revision + 1] \in Assignment
    BY <1>1 DEF Assignment
  <2>2. \A m \in Member : [live[m] EXCEPT !.revision = revision + 1] \in Assignment
    BY <2>1 DEF TypeOK
  <2> QED
    BY <2>2, Zenon DEF HoldFire
<1>3. early' \subseteq 1 .. MaxRevision
  BY <1>1 DEF HoldFire, TypeOK
<1>4. UNCHANGED <<plan, mover, alive, tokenVars, soldierVars, leaked>>
  BY DEF HoldFire
<1> QED
  BY <1>1, <1>2, <1>3, <1>4 DEF TypeOK, tokenVars, soldierVars

\* and the tree's.
LEMMA TreeTyped ==
  ASSUME TypeOK, NEW m \in Member,
         EvaluatorTick(m) \/ RevokedTick(m) \/ LosePawn(m) \/ TreeStart(m)
  PROVE  TypeOK'
<1>1. CASE EvaluatorTick(m)
  BY <1>1 DEF EvaluatorTick, TypeOK, squadVars, tokenVars
<1>2. CASE RevokedTick(m)
  BY <1>2 DEF RevokedTick, TypeOK, squadVars, tokenVars, Status
<1>3. CASE LosePawn(m)
  BY <1>3 DEF LosePawn, TypeOK, squadVars, tokenVars
<1>4. CASE TreeStart(m)
  <2>1. NoAssignment \in Assignment
    BY BoundAssumption DEF NoAssignment, Assignment, Task
  <2> QED
    BY <1>4, <2>1 DEF TreeStart, TypeOK, squadVars, tokenVars
<1> QED
  BY <1>1, <1>2, <1>3, <1>4

----------------------------------------------------------------------------
(* The invariant.                                                          *)

\* A task that is entered names the token it uses.
NodesNameTokens == \A m \in Member : node[m].status # "Out" => node[m].type \in Type

\* All assignments carry the present revision, and no copy is ahead of it; an assignment
\* under a revision that was pushed in time, or before any plan, has the plan of the squad.
Marked ==
  /\ \A m \in Member : live[m].revision = revision /\ seen[m].revision <= revision
  /\ revision \notin early => \A m \in Member : live[m].plan = plan
  /\ revision = 0 => plan = None /\ \A m \in Member : live[m].plan = None

IInv ==
  /\ TypeOK
  /\ NodesNameTokens
  /\ NoStrayToken
  /\ Marked
  /\ PlanIsCurrent

\* Before the first tick nobody holds a token and every copy is up to date.
LEMMA InitInv == Init => IInv
<1> SUFFICES ASSUME Init PROVE IInv
  OBVIOUS
<1>1. TypeOK
  BY InitTyped
<1>2. NodesNameTokens
  BY DEF Init, Outside, NodesNameTokens
<1>3. NoStrayToken
  BY NoneIsNoType DEF Init, NoStrayToken
<1>4. Marked /\ PlanIsCurrent
  BY DEF Init, NoAssignment, Marked, PlanIsCurrent
<1> QED
  BY <1>1, <1>2, <1>3, <1>4 DEF IInv

\* The types and the nodes' tokens.
LEMMA NextTyped ==
  ASSUME TypeOK, NodesNameTokens, [Next]_vars
  PROVE  TypeOK' /\ NodesNameTokens'
<1>1. CASE SquadTick
  <2>1. UNCHANGED node
    BY <1>1, TickServes DEF soldierVars
  <2> QED
    BY <1>1, <2>1, SquadTickTyped DEF NodesNameTokens
<1>2. CASE HoldFire
  <2>1. UNCHANGED node
    BY <1>2 DEF HoldFire, soldierVars
  <2> QED
    BY <1>2, <2>1, HoldFireTyped DEF NodesNameTokens
<1>3. ASSUME NEW m \in Member, NotifyMemberDied(m) PROVE TypeOK' /\ NodesNameTokens'
  <2>1. UNCHANGED node
    BY <1>3 DEF NotifyMemberDied, soldierVars
  <2> QED
    BY <1>3, <2>1, NotifyMemberDiedTyped DEF NodesNameTokens
<1>4. ASSUME NEW m \in Member, EvaluatorTick(m) \/ RevokedTick(m) \/ LosePawn(m) \/ TreeStart(m)
      PROVE  TypeOK' /\ NodesNameTokens'
  <2>1. node' = node \/ (node[m].status = "Holding" /\ node' = [node EXCEPT ![m].status = "Leaving"])
    BY <1>4 DEF EvaluatorTick, RevokedTick, LosePawn, TreeStart
  <2>2. NodesNameTokens'
    BY <2>1 DEF NodesNameTokens, TypeOK
  <2> QED
    BY <1>4, <2>2, TreeTyped
<1>5. ASSUME NEW m \in Member, NEW t \in Type, NEW f \in BOOLEAN, EnterState(m, t, f)
      PROVE  TypeOK' /\ NodesNameTokens'
  <2>1. \E st \in Status : node' = [node EXCEPT ![m] = [type |-> t, status |-> st]]
    BY <1>5 DEF EnterState, Status
  <2>2. NodesNameTokens'
    BY <2>1 DEF NodesNameTokens, TypeOK
  <2> QED
    BY <1>5, <2>2, EnterStateTyped
<1>6. ASSUME NEW m \in Member, WaitingTick(m) PROVE TypeOK' /\ NodesNameTokens'
  <2>1. node[m].status = "Waiting"
        /\ (node' = node \/ node' = [node EXCEPT ![m].status = "Holding"])
    BY <1>6 DEF WaitingTick
  <2>2. NodesNameTokens'
    BY <2>1 DEF NodesNameTokens, TypeOK
  <2>3. node[m].type \in Type
    BY <2>1 DEF NodesNameTokens
  <2> QED
    BY <1>6, <2>2, <2>3, WaitingTickTyped
<1>7. ASSUME NEW m \in Member, ExitState(m) PROVE TypeOK' /\ NodesNameTokens'
  <2>1. node[m].status # "Out" /\ node' = [node EXCEPT ![m] = Outside]
    BY <1>7 DEF ExitState
  <2>2. NodesNameTokens'
    BY <2>1 DEF NodesNameTokens, TypeOK, Outside
  <2>3. node[m].type \in Type
    BY <2>1 DEF NodesNameTokens
  <2> QED
    BY <1>7, <2>2, <2>3, ExitStateTyped
<1>8. CASE UNCHANGED vars
  BY <1>8 DEF vars, squadVars, tokenVars, soldierVars, TypeOK, NodesNameTokens
<1> QED
  BY <1>1, <1>2, <1>3, <1>4, <1>5, <1>6, <1>7, <1>8 DEF Next

\* Steps that leave the nodes alone and give no token to anybody who does not wait for it.
LEMMA UnusedGrants ==
  ASSUME NoStrayToken, leaked' = StillOut(leaked), node' = node,
         \A m \in Member, t \in Type :
           (m \in holders'[t] \/ request'[m] = t) => (m \in holders[t] \/ request[m] = t)
  PROVE  NoStrayToken'
<1> SUFFICES ASSUME NEW m \in Member, NEW t \in Type, m \in holders'[t] \/ request'[m] = t
             PROVE  \/ node[m].type = t /\ node[m].status \in {"Waiting", "Holding", "Leaving"}
                    \/ <<m, t>> \in leaked'
  BY DEF NoStrayToken
<1>1. \/ node[m].type = t /\ node[m].status \in {"Waiting", "Holding", "Leaving"}
      \/ <<m, t>> \in leaked
  BY DEF NoStrayToken
<1> QED
  BY <1>1 DEF StillOut

\* RequestToken gives its caller what it asks for, or nothing.
LEMMA RequestForOneself ==
  ASSUME TypeOK, NEW m \in Member, NEW t \in Type, RequestToken(m, t)
  PROVE  \A u \in Member, v \in Type :
           (u \in holders'[v] \/ request'[u] = v) =>
             (u = m /\ v = t) \/ u \in holders[v] \/ request[u] = v
<1>1. holders \in [Type -> SUBSET Member] /\ request \in [Member -> Type \cup {None}]
  BY DEF TypeOK
<1> QED
  BY <1>1, NoneIsNoType DEF RequestToken

\* Entering a state accounts for the token it asks for, and forgets that it leaked.
LEMMA EnterStateStray ==
  ASSUME TypeOK, NoStrayToken, NEW m \in Member, NEW t \in Type, NEW f \in BOOLEAN,
         EnterState(m, t, f)
  PROVE  NoStrayToken'
<1> SUFFICES ASSUME NEW u \in Member, NEW v \in Type, u \in holders'[v] \/ request'[u] = v
             PROVE  \/ node'[u].type = v /\ node'[u].status \in {"Waiting", "Holding", "Leaving"}
                    \/ <<u, v>> \in leaked'
  BY DEF NoStrayToken
<1>1. \A w \in Member \ {m} : node'[w] = node[w]
  BY DEF EnterState, TypeOK
<1>2. node[m].status = "Out"
  BY DEF EnterState
<1>3. CASE m \in resolves
  <2>1. RequestToken(m, t) /\ leaked' = StillOut(leaked \ {<<m, t>>})
    BY <1>3 DEF EnterState
  <2>2. node'[m].type = t /\ node'[m].status \in {"Waiting", "Holding", "Leaving"}
    BY <1>3 DEF EnterState, TypeOK
  <2>3. CASE u = m /\ v = t
    BY <2>2, <2>3
  <2>4. CASE ~(u = m /\ v = t)
    <3>1. u \in holders[v] \/ request[u] = v
      BY <2>1, <2>4, RequestForOneself
    <3>2. \/ u # m /\ node[u].type = v /\ node[u].status \in {"Waiting", "Holding", "Leaving"}
          \/ <<u, v>> \in leaked
      BY <1>2, <3>1 DEF NoStrayToken
    <3>3. <<u, v>> # <<m, t>>
      BY <2>4
    <3> QED
      BY <1>1, <2>1, <3>2, <3>3 DEF StillOut
  <2> QED
    BY <2>3, <2>4
<1>4. CASE m \notin resolves
  <2>1. UNCHANGED <<holders, request>> /\ leaked' = StillOut(leaked)
    BY <1>4 DEF EnterState
  <2>2. \/ u # m /\ node[u].type = v /\ node[u].status \in {"Waiting", "Holding", "Leaving"}
        \/ <<u, v>> \in leaked
    BY <1>2, <2>1 DEF NoStrayToken
  <2> QED
    BY <1>1, <2>1, <2>2 DEF StillOut
<1> QED
  BY <1>3, <1>4

\* A task that waits asks for its own token only.
LEMMA WaitingTickStray ==
  ASSUME TypeOK, NodesNameTokens, NoStrayToken, NEW m \in Member, WaitingTick(m)
  PROVE  NoStrayToken'
<1> SUFFICES ASSUME NEW u \in Member, NEW v \in Type, u \in holders'[v] \/ request'[u] = v
             PROVE  \/ node'[u].type = v /\ node'[u].status \in {"Waiting", "Holding", "Leaving"}
                    \/ <<u, v>> \in leaked'
  BY DEF NoStrayToken
<1>1. /\ node[m].status = "Waiting" /\ RequestToken(m, node[m].type) /\ leaked' = StillOut(leaked)
      /\ node' = node \/ node' = [node EXCEPT ![m].status = "Holding"]
  BY DEF WaitingTick
<1>2. /\ \A w \in Member : node'[w].type = node[w].type
      /\ \A w \in Member \ {m} : node'[w].status = node[w].status
      /\ node'[m].status \in {"Waiting", "Holding"}
  BY <1>1 DEF TypeOK
<1>3. node[m].type \in Type
  BY <1>1 DEF NodesNameTokens
<1>4. (u = m /\ v = node[m].type) \/ u \in holders[v] \/ request[u] = v
  BY <1>1, <1>3, RequestForOneself
<1>5. CASE u = m /\ v = node[m].type
  BY <1>2, <1>5
<1>6. CASE u \in holders[v] \/ request[u] = v
  <2>1. \/ node[u].type = v /\ node[u].status \in {"Waiting", "Holding", "Leaving"}
        \/ <<u, v>> \in leaked
    BY <1>6 DEF NoStrayToken
  <2> QED
    BY <1>1, <1>2, <2>1 DEF StillOut
<1> QED
  BY <1>4, <1>5, <1>6

\* An exit returns the token or leaves it behind.
LEMMA ExitStateStray ==
  ASSUME TypeOK, NoStrayToken, NEW m \in Member, ExitState(m)
  PROVE  NoStrayToken'
<1> SUFFICES ASSUME NEW u \in Member, NEW v \in Type, u \in holders'[v] \/ request'[u] = v
             PROVE  \/ node'[u].type = v /\ node'[u].status \in {"Waiting", "Holding", "Leaving"}
                    \/ <<u, v>> \in leaked'
  BY DEF NoStrayToken
<1>1. \A w \in Member \ {m} : node'[w] = node[w]
  BY DEF ExitState, TypeOK
<1>2. CASE ReleaseToken(m, node[m].type) /\ leaked' = StillOut(leaked)
  <2>1. (u \in holders[v] \/ request[u] = v) /\ ~(u = m /\ v = node[m].type)
    BY <1>2, NoneIsNoType DEF ReleaseToken, TypeOK
  <2>2. \/ u # m /\ node[u].type = v /\ node[u].status \in {"Waiting", "Holding", "Leaving"}
        \/ <<u, v>> \in leaked
    BY <2>1 DEF NoStrayToken
  <2> QED
    BY <1>1, <1>2, <2>2 DEF StillOut
<1>3. CASE /\ UNCHANGED <<holders, request>>
           /\ leaked' = StillOut(IF node[m].status = "Free" THEN leaked
                                 ELSE leaked \cup {<<m, node[m].type>>})
  <2>1. \/ node[u].type = v /\ node[u].status \in {"Waiting", "Holding", "Leaving"}
        \/ <<u, v>> \in leaked
    BY <1>3 DEF NoStrayToken
  <2> QED
    BY <1>1, <1>3, <2>1 DEF StillOut
<1> QED
  BY <1>2, <1>3 DEF ExitState

\* Every step keeps the tokens in their states.
LEMMA NextStray ==
  ASSUME TypeOK, NodesNameTokens, NoStrayToken, [Next]_vars
  PROVE  NoStrayToken'
<1>1. CASE SquadTick
  <2>1. /\ \A t \in Type : \A m \in holders'[t] : m \in holders[t] \/ request[m] = t
        /\ \A m \in Member : request'[m] \in {None, request[m]}
        /\ leaked' = StillOut(leaked) /\ node' = node
    BY <1>1, TickServes DEF soldierVars
  <2> QED
    BY <2>1, UnusedGrants, NoneIsNoType
<1>2. ASSUME NEW m \in Member, NotifyMemberDied(m) PROVE NoStrayToken'
  <2>1. /\ \A u \in Member, t \in Type :
             (u \in holders'[t] \/ request'[u] = t) => (u \in holders[t] \/ request[u] = t)
        /\ leaked' = StillOut(leaked) /\ node' = node
    BY <1>2, NoneIsNoType DEF NotifyMemberDied, soldierVars, TypeOK
  <2> QED
    BY <2>1, UnusedGrants
<1>3. ASSUME NEW m \in Member, NEW t \in Type, NEW f \in BOOLEAN, EnterState(m, t, f)
      PROVE  NoStrayToken'
  BY <1>3, EnterStateStray
<1>4. ASSUME NEW m \in Member, WaitingTick(m) PROVE NoStrayToken'
  BY <1>4, WaitingTickStray
<1>5. ASSUME NEW m \in Member, ExitState(m) PROVE NoStrayToken'
  BY <1>5, ExitStateStray
<1>6. ASSUME NEW m \in Member, RevokedTick(m) PROVE NoStrayToken'
  BY <1>6 DEF RevokedTick, NoStrayToken, tokenVars, TypeOK
<1>7. CASE UNCHANGED <<tokenVars, node, leaked>>
  BY <1>7 DEF NoStrayToken, tokenVars
<1>8. ASSUME NEW m \in Member, EvaluatorTick(m) \/ LosePawn(m) \/ TreeStart(m)
      PROVE  UNCHANGED <<tokenVars, node, leaked>>
  BY <1>8 DEF EvaluatorTick, LosePawn, TreeStart
<1>9. HoldFire \/ UNCHANGED vars => UNCHANGED <<tokenVars, node, leaked>>
  BY DEF HoldFire, soldierVars, vars
<1> QED
  BY <1>1, <1>2, <1>3, <1>4, <1>5, <1>6, <1>7, <1>8, <1>9 DEF Next

\* A new assignment for everybody keeps the marks, and outdates every copy it changes.
LEMMA ReplansMarked ==
  ASSUME TypeOK, Marked, PlanIsCurrent, NEW p \in Plan, NEW element, NEW own,
         NEW number \in revision .. revision + 2, NEW fails \in BOOLEAN,
         Replans(p, element, own, number, fails), seen' = seen
  PROVE  Marked' /\ PlanIsCurrent'
<1>1. number \in 0 .. MaxRevision /\ number >= revision
  BY BoundAssumption DEF Replans, TypeOK
<1>2. \A m \in Member : live'[m].plan = p /\ live'[m].revision = number
  BY <1>1, AssignedTyped DEF Replans
<1>3. /\ revision' = number /\ (~fails => plan' = p) /\ (fails => number > revision)
      /\ (p = plan => number = revision) /\ (p # plan => number > revision)
      /\ early' = IF fails THEN early \cup {number} ELSE early
  BY DEF Replans
<1>4. \A m \in Member : seen[m].revision <= revision /\ seen[m].revision \in Nat
                        /\ live[m].revision = revision /\ revision \in Nat
  BY DEF Marked, TypeOK, Assignment
<1>5. Marked'
  <2>1. \A m \in Member : live'[m].revision = revision' /\ seen'[m].revision <= revision'
    BY <1>1, <1>2, <1>3, <1>4
  <2>2. revision' \notin early' => \A m \in Member : live'[m].plan = plan'
    BY <1>2, <1>3
  <2>3. ASSUME revision' = 0 PROVE plan' = None /\ \A m \in Member : live'[m].plan = None
    <3>1. number = 0 /\ revision = 0 /\ ~fails
      BY <1>1, <1>3, <2>3 DEF TypeOK
    <3>2. p = plan
      BY <1>3, <3>1
    <3> QED
      BY <1>2, <1>3, <3>1, <3>2 DEF Marked
  <2> QED
    BY <2>1, <2>2, <2>3 DEF Marked
<1>6. PlanIsCurrent'
  <2> SUFFICES ASSUME NEW m \in Member, seen[m].revision = number, seen[m].revision \notin early'
               PROVE  seen[m].plan = p
    BY <1>2 DEF PlanIsCurrent
  <2>1. number = revision
    BY <1>1, <1>4
  <2>2. p = plan /\ ~fails
    BY <1>3, <2>1 DEF TypeOK
  <2>3. revision \notin early
    BY <1>3, <2>1, <2>2
  <2>4. live[m].plan = plan
    BY <2>3 DEF Marked
  <2>5. seen[m].plan = live[m].plan
    BY <1>4, <2>1, <2>3 DEF PlanIsCurrent
  <2> QED
    BY <2>2, <2>4, <2>5
<1> QED
  BY <1>5, <1>6

\* An order gives the assignments that are there a new revision.
LEMMA HoldFireMarked ==
  ASSUME TypeOK, Marked, PlanIsCurrent, HoldFire
  PROVE  Marked' /\ PlanIsCurrent'
<1>1. revision \in Nat /\ revision' = revision + 1 /\ plan' = plan /\ seen' = seen
      /\ early' = IF \E m \in Member : live[m].plan # plan THEN early \cup {revision + 1} ELSE early
  BY DEF HoldFire, soldierVars, TypeOK
<1>2. \A m \in Member : live'[m].revision = revision + 1 /\ live'[m].plan = live[m].plan
  <2>1. \A a \in Assignment : /\ [a EXCEPT !.revision = revision + 1].revision = revision + 1
                              /\ [a EXCEPT !.revision = revision + 1].plan = a.plan
    BY DEF Assignment
  <2>2. \A m \in Member : live[m] \in Assignment
    BY DEF TypeOK
  <2>3. \A m \in Member : live'[m] = [live[m] EXCEPT !.revision = revision + 1]
    BY Zenon DEF HoldFire
  <2> QED
    BY <2>1, <2>2, <2>3, Zenon
<1>3. \A m \in Member : seen[m].revision <= revision /\ seen[m].revision \in Nat
  BY DEF Marked, TypeOK, Assignment
<1>4. Marked'
  BY <1>1, <1>2, <1>3 DEF Marked
<1>5. PlanIsCurrent'
  BY <1>1, <1>2, <1>3 DEF PlanIsCurrent
<1> QED
  BY <1>4, <1>5

\* A copy that is made, or thrown away when the tree starts, is no more than it was.
LEMMA CopyMarked ==
  ASSUME TypeOK, Marked, PlanIsCurrent, NEW m \in Member, NEW a \in {live[m], NoAssignment},
         seen' = [seen EXCEPT ![m] = a], UNCHANGED squadVars
  PROVE  Marked' /\ PlanIsCurrent'
<1>1. /\ seen'[m] = a /\ \A u \in Member \ {m} : seen'[u] = seen[u]
      /\ UNCHANGED <<plan, revision, live, early>>
  BY DEF TypeOK, squadVars
<1>2. live[m].revision = revision /\ revision \in Nat
  BY DEF Marked, TypeOK
<1>3. a.revision <= revision
  BY <1>2 DEF NoAssignment
<1>4. a.revision = revision => a.plan = live[m].plan
  <2>1. CASE a = live[m]
    BY <2>1
  <2>2. CASE a = NoAssignment /\ revision = 0
    BY <2>2 DEF NoAssignment, Marked
  <2>3. CASE a = NoAssignment /\ revision # 0
    BY <2>3 DEF NoAssignment
  <2> QED
    BY <2>1, <2>2, <2>3
<1>5. Marked'
  BY <1>1, <1>3 DEF Marked
<1>6. PlanIsCurrent'
  BY <1>1, <1>2, <1>4 DEF PlanIsCurrent
<1> QED
  BY <1>5, <1>6

\* Every step keeps the marks.
LEMMA NextMarked ==
  ASSUME TypeOK, Marked, PlanIsCurrent, [Next]_vars
  PROVE  Marked' /\ PlanIsCurrent'
<1>1. CASE UNCHANGED <<plan, revision, live, early, seen>>
  BY <1>1 DEF Marked, PlanIsCurrent
<1>2. CASE SquadTick
  <2>1. seen' = seen
    BY <1>2, TickServes DEF soldierVars
  <2>2. CASE UNCHANGED <<plan, mover, revision, live, early>>
    BY <1>1, <2>1, <2>2
  <2>3. ASSUME NEW p \in Plan, NEW element \in Element \cup {None},
               NEW number \in revision .. revision + 2, NEW fails \in BOOLEAN, NEW own,
               Replans(p, element, own, number, fails)
        PROVE  Marked' /\ PlanIsCurrent'
    BY <2>1, <2>3, ReplansMarked
  <2> QED
    BY <1>2, TickPlans, <2>2, <2>3, Zenon
<1>3. CASE HoldFire
  BY <1>3, HoldFireMarked
<1>4. ASSUME NEW m \in Member, EvaluatorTick(m) PROVE Marked' /\ PlanIsCurrent'
  BY <1>4, CopyMarked DEF EvaluatorTick
<1>5. ASSUME NEW m \in Member, TreeStart(m) PROVE Marked' /\ PlanIsCurrent'
  BY <1>5, CopyMarked DEF TreeStart
<1>6. ASSUME NEW m \in Member,
             \/ NotifyMemberDied(m) \/ WaitingTick(m) \/ RevokedTick(m) \/ ExitState(m) \/ LosePawn(m)
             \/ \E t \in Type, f \in BOOLEAN : EnterState(m, t, f)
      PROVE  UNCHANGED <<plan, revision, live, early, seen>>
  BY <1>6 DEF NotifyMemberDied, WaitingTick, RevokedTick, ExitState, LosePawn, EnterState,
              squadVars, soldierVars
<1>7. UNCHANGED vars => UNCHANGED <<plan, revision, live, early, seen>>
  BY DEF vars, squadVars, soldierVars
<1> QED
  BY <1>1, <1>2, <1>3, <1>4, <1>5, <1>6, <1>7 DEF Next

\* Every reachable state of the squad and its soldiers' trees satisfies the invariant.
THEOREM Invariant == Spec => []IInv
<1>1. IInv /\ [Next]_vars => IInv'
  BY NextTyped, NextStray, NextMarked DEF IInv
<1> QED
  BY InitInv, <1>1, PTL DEF Spec

----------------------------------------------------------------------------
(* What follows.                                                           *)

\* Every variable keeps its type, and no more tokens are out than there are
\* (USquadComponent::RequestToken and Phase_UpdateTokens).
THEOREM TypeCorrect == Spec => []TypeOK
<1>1. IInv => TypeOK
  BY DEF IInv
<1> QED
  BY Invariant, <1>1, PTL

\* No token or request outlives the state that uses it, unless ExitState could not find the
\* squad (FSTT_AcquireSquadToken).
THEOREM TokensStayInTheirStates == Spec => []NoStrayToken
<1>1. IInv => NoStrayToken
  BY DEF IInv
<1> QED
  BY Invariant, <1>1, PTL

\* An evaluator that compares revisions does not miss a new plan (FSTE_SquadContext), unless
\* the revision was pushed before the assignments had the plan.
THEOREM RevisionNamesThePlan == Spec => []PlanIsCurrent
<1>1. IInv => PlanIsCurrent
  BY DEF IInv
<1> QED
  BY Invariant, <1>1, PTL
===============================================================================
