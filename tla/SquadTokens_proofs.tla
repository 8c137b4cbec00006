------------------------- MODULE SquadTokens_proofs -------------------------
(***************************************************************************)
(* What holds of the token economy for every squad, every rule set and     *)
(* every choice of the times.                                              *)
(***************************************************************************)
EXTENDS SquadTokens, FiniteSetTheorems, TLAPS

----------------------------------------------------------------------------
(* Lemmas about the operators.                                             *)

\* Time constants are natural numbers, spelt out for the provers.
LEMMA TimeFacts ==
  /\ MinHold \in Nat /\ BoundMin \in Nat /\ BoundMax \in Nat /\ PlanInterval \in Nat
  /\ StarvationBonus \in Nat /\ MaxWait \in Nat
  /\ \A t \in Type : MaxHold[t] \in Nat
  BY TimeAssumption

\* Type has two elements.
LEMMA TypeFacts == "Suppression" \in Type /\ "Movement" \in Type
  BY DEF Type

\* A saturated counter stays within its bound.
LEMMA SaturationStays ==
  ASSUME NEW b \in Nat, NEW a \in 0 .. b
  PROVE  MinOf(a + 1, b) \in 0 .. b
  BY DEF MinOf

\* A squad has finitely many members.
LEMMA MemberFinite == IsFiniteSet(Member)
<1>1. 0 \in Int /\ N - 1 \in Int
  BY SizeAssumption
<1>2. IsFiniteSet(0 .. N - 1)
  BY <1>1, FS_Interval, Zenon
<1> QED
  BY <1>2 DEF Member

\* The living are a finite set of members, so they can be counted.
LEMMA AliveCount ==
  ASSUME NEW hl
  PROVE  Cardinality(Alive(hl)) \in Nat
<1>1. IsFiniteSet(Member)
  BY MemberFinite
<1>2. Alive(hl) \subseteq Member
  BY DEF Alive
<1> QED
  BY <1>1, <1>2, FS_Subset, FS_CardinalityType

\* Caps are natural numbers, whatever the offsets of the rule are.
LEMMA CapTyped ==
  ASSUME cap \in [Type -> Nat], NEW hl
  PROVE  UpdatedCap(hl) \in [Type -> Nat]
<1>1. CASE plan \notin DOMAIN Rule
  BY <1>1 DEF UpdatedCap
<1>2. CASE plan \in DOMAIN Rule
  <2> DEFINE share(t) == (Cardinality(Alive(hl)) * Rule[plan].ratio[t] + 99) \div 100
  <2>1. ASSUME NEW t \in Type PROVE MaxOf(0, share(t) + Rule[plan].offset[t]) \in Nat
    <3>1. Rule[plan].ratio[t] \in 0 .. 100 /\ Rule[plan].offset[t] \in Int
      BY <1>2, RuleAssumption
    <3>2. Cardinality(Alive(hl)) * Rule[plan].ratio[t] + 99 \in Int
      BY <3>1, AliveCount
    <3>3. share(t) \in Int
      BY <3>2
    <3> QED
      BY <3>1, <3>3 DEF MaxOf
  <2>2. UpdatedCap(hl) = [t \in Type |-> MaxOf(0, share(t) + Rule[plan].offset[t])]
    BY <1>2 DEF UpdatedCap
  <2> QED
    BY <2>1, <2>2
<1> QED
  BY <1>1, <1>2

\* The ages that a table of individual grants may hold.
GrantsTyped(h) ==
  /\ h \in [Type -> [Member -> Int]]
  /\ \A t \in Type, m \in Member : h[t][m] \in {NotHeld} \cup 0 .. MaxHold[t]

ElementGrantTyped(e) ==
  e \in [element : Element \cup {NoElement}, age : 0 .. MaxHold["Movement"],
         behind : SUBSET Member]

FlagsTyped(f) == f \in [Type -> [Member -> BOOLEAN]]

\* Setting flags from HasToken keeps their type.
LEMMA ReflaggedTyped ==
  ASSUME NEW f, FlagsTyped(f), NEW who, NEW h, NEW e, NEW mk
  PROVE  FlagsTyped(Reflagged(f, who, h, e, mk))
<1>1. \A m \in Member, t \in Type : HasToken(h, e, mk, m, t) \in BOOLEAN
  BY DEF HasToken, Covered
<1> QED
  BY <1>1, Zenon DEF FlagsTyped, Reflagged

\* Pruning only shrinks what the element grant remembers.
LEMMA PrunedTyped ==
  ASSUME NEW e, ElementGrantTyped(e), NEW h
  PROVE  ElementGrantTyped(Pruned(e, h))
  BY DEF ElementGrantTyped, Pruned

\* What ReleaseToken leaves.
LEMMA GiveUpTyped ==
  ASSUME TypeOK, NEW m \in Member, NEW ts, GiveUp(m, ts)
  PROVE  /\ GrantsTyped(held') /\ ElementGrantTyped(elementGrant') /\ FlagsTyped(flag')
         /\ request' \in [Member -> Type \cup {NoRequest}]
         /\ waited' \in [Member -> 0 .. MaxWait] /\ cap' = cap
<1>1. GrantsTyped(held')
  BY DEF TypeOK, GiveUp, Released, GrantsTyped, NotHeld
<1>2. ElementGrantTyped(elementGrant')
  BY PrunedTyped DEF TypeOK, GiveUp, ElementGrantTyped
<1>3. FlagsTyped(flag')
  BY ReflaggedTyped DEF TypeOK, GiveUp, FlagsTyped
<1>4. request' \in [Member -> Type \cup {NoRequest}]
  BY DEF TypeOK, GiveUp
<1>5. waited' \in [Member -> 0 .. MaxWait]
  BY TimeFacts DEF TypeOK, GiveUp
<1> QED
  BY <1>1, <1>2, <1>3, <1>4, <1>5 DEF GiveUp

\* The elements are made of members.
LEMMA FormElementsTyped ==
  ASSUME NEW hl
  PROVE  FormElements(hl) \in [Element -> SUBSET Member]
  BY DEF FormElements, LeaderOf, Rest, Heirs, Alternate, Alive

\* What the tick of the tokens leaves, before the plan is looked at.
LEMMA KeptTyped ==
  ASSUME TypeOK, NEW hl, NEW dry
  PROVE  /\ GrantsTyped(KeptGrants(hl, dry))
         /\ ElementGrantTyped(KeptElementGrant(KeptGrants(hl, dry)))
         /\ FlagsTyped(FlagsAfterRevocation(KeptGrants(hl, dry)))
<1> DEFINE k == KeptGrants(hl, dry)
<1>1. GrantsTyped(k)
  BY DEF TypeOK, KeptGrants, GrantsTyped, NotHeld
<1>2. ElementGrantTyped(KeptElementGrant(k))
  <2>1. CASE ElementRevoked
    BY <2>1, TimeFacts, TypeFacts DEF KeptElementGrant, ElementGrantTyped
  <2>2. CASE ~ElementRevoked
    BY <2>2, PrunedTyped DEF KeptElementGrant, ElementGrantTyped, TypeOK
  <2> QED
    BY <2>1, <2>2
<1>3. FlagsTyped(FlagsAfterRevocation(k))
  <2> DEFINE losers == {m \in Member : \E t \in Type : held[t][m] # k[t][m]}
             after == {m \in losers : ElementRevoked /\ m \in elementGrant.behind
                                        /\ k["Suppression"][m] = NotHeld}
             f == Reflagged(flag, losers, k, elementGrant, mask)
  <2>1. FlagsTyped(f)
    BY ReflaggedTyped DEF TypeOK, FlagsTyped
  <2>2. FlagsAfterRevocation(k) = [f EXCEPT !["Movement"] = [m \in Member |->
           IF m \in after THEN k["Movement"][m] # NotHeld ELSE @[m]]]
    BY DEF FlagsAfterRevocation
  <2> HIDE DEF f, after, k
  <2>3. [m \in Member |-> IF m \in after THEN k["Movement"][m] # NotHeld ELSE f["Movement"][m]]
          \in [Member -> BOOLEAN]
    BY <2>1, TypeFacts DEF FlagsTyped
  <2> QED
    BY <2>1, <2>2, <2>3 DEF FlagsTyped
<1> QED
  BY <1>1, <1>2, <1>3

----------------------------------------------------------------------------
(* Type correctness.                                                       *)

\* After registration every variable has its type.
LEMMA InitTyped == Init => TypeOK
<1> SUFFICES ASSUME Init PROVE TypeOK
  OBVIOUS
<1>1. /\ health \in [Member -> Health] /\ role \in [Member -> Role] /\ fallen \subseteq Member
      /\ request \in [Member -> Type \cup {NoRequest}] /\ waited \in [Member -> 0 .. MaxWait]
  BY TimeFacts, RosterAssumption DEF Init, Health
<1>2. GrantsTyped(held)
  BY DEF Init, GrantsTyped, NotHeld
<1>3. ElementGrantTyped(elementGrant)
  BY TimeFacts, TypeFacts DEF Init, ElementGrantTyped
<1>4. cap \in [Type -> Nat] /\ FlagsTyped(flag)
  BY DEF Init, FlagsTyped
<1>5. /\ plan \in Plans \cup {"None", "BaseOfFire"} /\ mask \in [Element -> SUBSET Member]
      /\ mover \in Element \cup {NoElement} /\ boundAge \in {NotStarted} \cup 0 .. BoundMax
      /\ evalAge \in 0 .. PlanInterval /\ planPending \in BOOLEAN
  BY TimeFacts DEF Init
<1>6. renotified \in BOOLEAN
  BY Zenon DEF Init
<1> QED
  BY <1>1, <1>2, <1>3, <1>4, <1>5, <1>6 DEF TypeOK, GrantsTyped, ElementGrantTyped, FlagsTyped

\* The evaluation of the plan keeps the types, given what the token phase left.
LEMMA EvaluateTyped ==
  ASSUME TypeOK, NEW hl, NEW h, NEW e, NEW p \in Selectable, GrantsTyped(h),
         ElementGrantTyped(e), EvaluatePlan(hl, h, e, p)
  PROVE  /\ GrantsTyped(held') /\ ElementGrantTyped(elementGrant') /\ FlagsTyped(flag')
         /\ mask' \in [Element -> SUBSET Member]
         /\ mover' \in Element \cup {NoElement}
         /\ boundAge' \in {NotStarted} \cup 0 .. BoundMax
         /\ plan' \in Plans \cup {"None", "BaseOfFire"}
         /\ planPending' \in BOOLEAN /\ evalAge' \in 0 .. PlanInterval
<1> DEFINE masks == IF p = plan THEN mask ELSE FormElements(hl)
           grants == IF Handover(p) THEN WithoutMovers(h) ELSE h
           bound == IF Handover(p) THEN HandoverGrant(h) ELSE e
<1>1. GrantsTyped(grants)
  BY TypeFacts DEF GrantsTyped, WithoutMovers, NotHeld
<1>2. ElementGrantTyped(bound)
  BY TimeFacts, TypeFacts DEF ElementGrantTyped, HandoverGrant, NextMover, Element, Holders
<1>3. masks \in [Element -> SUBSET Member]
  BY FormElementsTyped DEF TypeOK
<1>4. held' = grants /\ elementGrant' = bound /\ mask' = masks
  BY DEF EvaluatePlan
<1>5. FlagsTyped(flag')
  <2>1. \A m \in Member, t \in Type : HasToken(grants, bound, masks, m, t) \in BOOLEAN
    BY DEF HasToken, Covered
  <2>2. flag' = Reflagged(flag, Member, grants, bound, masks)
    BY DEF EvaluatePlan
  <2> HIDE DEF grants, bound, masks
  <2> QED
    BY <2>1, <2>2, Zenon DEF FlagsTyped, Reflagged
<1>6. mover' \in Element \cup {NoElement}
  BY DEF EvaluatePlan, TypeOK, NextMover, Element
<1>7. boundAge' \in {NotStarted} \cup 0 .. BoundMax
  BY TimeFacts DEF EvaluatePlan, TypeOK
<1>8. plan' \in Plans \cup {"None", "BaseOfFire"}
  BY DEF EvaluatePlan, Prepared, Selectable, TypeOK
<1>9. planPending' \in BOOLEAN /\ evalAge' \in 0 .. PlanInterval
  <2>1. EvaluationDone
    BY DEF EvaluatePlan
  <2>2. planPending' \in BOOLEAN
    BY <2>1, Zenon DEF EvaluationDone
  <2>3. evalAge' \in 0 .. PlanInterval
    BY <2>1, TimeFacts DEF EvaluationDone
  <2> QED
    BY <2>2, <2>3, Zenon
<1> QED
  BY <1>1, <1>2, <1>3, <1>4, <1>5, <1>6, <1>7, <1>8, <1>9

\* A squad tick keeps the types.
LEMMA TickTyped ==
  ASSUME TypeOK, Tick
  PROVE  TypeOK'
<1>1. PICK report \in StatusReports, dry \in SUBSET Holders(held, "Suppression") :
         TickSquad(report, dry)
  BY DEF Tick
<1> DEFINE hl == Collected(report)
           kept == KeptGrants(hl, dry)
           e == KeptElementGrant(kept)
<1>2. PICK suppressors \in Served(hl, kept, e, "Suppression"),
           movers \in Served(hl, kept, e, "Movement") :
         LET served == suppressors \cup movers
             h == [t \in Type |-> [m \in Member |->
                     IF m \in (IF t = "Suppression" THEN suppressors ELSE movers)
                     THEN 0 ELSE kept[t][m]]]
             f == Reflagged(FlagsAfterRevocation(kept), served, h, e, mask)
         IN  /\ health' = hl
             /\ cap' = UpdatedCap(hl)
             /\ request' = [m \in Member |-> IF m \in served THEN NoRequest ELSE request[m]]
             /\ waited' = [m \in Member |-> IF m \in served THEN 0 ELSE waited[m]]
             /\ UNCHANGED <<role, fallen, renotified>>
             /\ \/ KeepPlan(h, e, f)
                \/ \E p \in Selectable : EvaluatePlan(hl, h, e, p)
  BY <1>1 DEF TickSquad
<1> DEFINE served == suppressors \cup movers
           h == [t \in Type |-> [m \in Member |->
                   IF m \in (IF t = "Suppression" THEN suppressors ELSE movers)
                   THEN 0 ELSE kept[t][m]]]
           f == Reflagged(FlagsAfterRevocation(kept), served, h, e, mask)
<1>3. GrantsTyped(kept) /\ ElementGrantTyped(e) /\ FlagsTyped(FlagsAfterRevocation(kept))
  BY KeptTyped
<1>4. GrantsTyped(h)
  <2> HIDE DEF kept
  <2> QED
    BY <1>3, TimeFacts DEF GrantsTyped
<1>5. FlagsTyped(f)
  BY <1>3, ReflaggedTyped
<1>6. health' \in [Member -> Health]
  <2>1. report \in [Member -> Health]
    BY RosterAssumption DEF StatusReports, Health
  <2> QED
    BY <1>2, <2>1 DEF Collected, Health
<1>7. cap' \in [Type -> Nat]
  BY <1>2, CapTyped DEF TypeOK
<1>8. request' \in [Member -> Type \cup {NoRequest}] /\ waited' \in [Member -> 0 .. MaxWait]
  BY <1>2, TimeFacts DEF TypeOK
<1>9. role' \in [Member -> Role] /\ fallen' \subseteq Member /\ renotified' \in BOOLEAN
  BY <1>2 DEF TypeOK
<1>10. /\ GrantsTyped(held') /\ ElementGrantTyped(elementGrant') /\ FlagsTyped(flag')
       /\ mask' \in [Element -> SUBSET Member]
       /\ mover' \in Element \cup {NoElement}
       /\ boundAge' \in {NotStarted} \cup 0 .. BoundMax
       /\ plan' \in Plans \cup {"None", "BaseOfFire"}
       /\ planPending' \in BOOLEAN /\ evalAge' \in 0 .. PlanInterval
  <2> HIDE DEF h, f, e, hl
  <2>1. CASE KeepPlan(h, e, f)
    BY <2>1, <1>3, <1>4, <1>5 DEF KeepPlan, planVars, TypeOK
  <2>2. CASE \E p \in Selectable : EvaluatePlan(hl, h, e, p)
    BY <2>2, <1>3, <1>4, EvaluateTyped
  <2> QED
    BY <1>2, <2>1, <2>2 DEF h, f, e, hl
<1> QED
  BY <1>6, <1>7, <1>8, <1>9, <1>10 DEF TypeOK, GrantsTyped, ElementGrantTyped, FlagsTyped

\* Time keeps the types: every age is saturated.
LEMMA ElapseTyped ==
  ASSUME TypeOK, Elapse
  PROVE  TypeOK'
<1>1. GrantsTyped(held')
  <2>1. ASSUME NEW t \in Type, NEW m \in Member, held[t][m] # NotHeld
        PROVE  MinOf(held[t][m] + 1, MaxHold[t]) \in 0 .. MaxHold[t]
    <3>1. held[t][m] \in 0 .. MaxHold[t]
      BY <2>1 DEF TypeOK
    <3> QED
      BY <3>1, TimeFacts, SaturationStays
  <2>2. held' = [t \in Type |-> [m \in Member |->
                  IF held[t][m] = NotHeld THEN NotHeld ELSE MinOf(held[t][m] + 1, MaxHold[t])]]
    BY DEF Elapse
  <2> QED
    BY <2>1, <2>2, TimeFacts DEF GrantsTyped, NotHeld
<1>2. ElementGrantTyped(elementGrant')
  <2>1. elementGrant.age \in 0 .. MaxHold["Movement"]
    BY DEF TypeOK
  <2>2. MinOf(elementGrant.age + 1, MaxHold["Movement"]) \in 0 .. MaxHold["Movement"]
    BY <2>1, TimeFacts, TypeFacts, SaturationStays
  <2> QED
    BY <2>2 DEF ElementGrantTyped, TypeOK, Elapse
<1>3. waited' \in [Member -> 0 .. MaxWait]
  <2>1. \A m \in Member : MinOf(waited[m] + 1, MaxWait) \in 0 .. MaxWait
    BY TimeFacts, SaturationStays DEF TypeOK
  <2> QED
    BY <2>1, TimeFacts DEF TypeOK, Elapse
<1>4. boundAge' \in {NotStarted} \cup 0 .. BoundMax
  BY TimeFacts, SaturationStays DEF TypeOK, Elapse
<1>5. evalAge' \in 0 .. PlanInterval
  BY TimeFacts, SaturationStays DEF TypeOK, Elapse
<1> QED
  BY <1>1, <1>2, <1>3, <1>4, <1>5
     DEF TypeOK, Elapse, rosterVars, GrantsTyped, ElementGrantTyped

\* The calls of the soldiers keep the types.
LEMMA CallsTyped ==
  ASSUME TypeOK, NEW m \in Member, NEW t \in Type,
         \/ GrantOnRequest(m, t) \/ QueueRequest(m, t) \/ ReleaseToken(m, t)
         \/ NotifyMemberDied(m) \/ PawnDestroyed(m)
  PROVE  TypeOK'
<1>1. CASE GrantOnRequest(m, t)
  <2>1. GrantsTyped(held')
    BY <1>1, TimeFacts DEF GrantOnRequest, TypeOK, GrantsTyped
  <2>2. FlagsTyped(flag')
    BY <1>1, ReflaggedTyped DEF GrantOnRequest, TypeOK, FlagsTyped
  <2>3. /\ request' \in [Member -> Type \cup {NoRequest}]
        /\ waited' \in [Member -> 0 .. MaxWait]
    BY <1>1, TimeFacts DEF GrantOnRequest, TypeOK
  <2>4. UNCHANGED <<elementGrant, cap, rosterVars, planVars>>
    BY <1>1 DEF GrantOnRequest
  <2> QED
    BY <2>1, <2>2, <2>3, <2>4 DEF TypeOK, GrantsTyped, FlagsTyped, rosterVars, planVars
<1>2. CASE QueueRequest(m, t)
  BY <1>2, TimeFacts DEF QueueRequest, TypeOK, rosterVars, planVars
<1>3. CASE ReleaseToken(m, t)
  BY <1>3, GiveUpTyped
     DEF ReleaseToken, TypeOK, GrantsTyped, ElementGrantTyped, FlagsTyped, rosterVars, planVars
<1>4. CASE NotifyMemberDied(m)
  <2>1. health' \in [Member -> Health] /\ role' \in [Member -> Role] /\ fallen' \subseteq Member
    BY <1>4 DEF NotifyMemberDied, TypeOK, Succession, Health, Role
  <2>2. GiveUp(m, Type) /\ renotified' \in BOOLEAN
    BY <1>4, Zenon DEF NotifyMemberDied, TypeOK
  <2> QED
    BY <1>4, <2>1, <2>2, GiveUpTyped
       DEF NotifyMemberDied, TypeOK, GrantsTyped, ElementGrantTyped, FlagsTyped
<1>5. CASE PawnDestroyed(m)
  BY <1>5 DEF PawnDestroyed, TypeOK, Health, tokenVars, planVars
<1> QED
  BY <1>1, <1>2, <1>3, <1>4, <1>5

\* A step keeps the types.
LEMMA NextTyped == TypeOK /\ [Next]_vars => TypeOK'
<1> SUFFICES ASSUME TypeOK, [Next]_vars PROVE TypeOK'
  OBVIOUS
<1>1. CASE UNCHANGED vars
  BY <1>1 DEF vars, TypeOK
<1>2. CASE Next
  <2>1. CASE Tick \/ Elapse
    BY <2>1, TickTyped, ElapseTyped
  <2>2. CASE RequestPlanReevaluation
    BY <2>2 DEF RequestPlanReevaluation, TypeOK, rosterVars, tokenVars
  <2>3. CASE \E m \in Member : NotifyMemberDied(m) \/ PawnDestroyed(m)
    BY <2>3, CallsTyped, TypeFacts
  <2>4. CASE \E m \in Member, t \in Type :
               GrantOnRequest(m, t) \/ QueueRequest(m, t) \/ ReleaseToken(m, t)
    BY <2>4, CallsTyped
  <2> QED
    BY <1>2, <2>1, <2>2, <2>3, <2>4 DEF Next
<1> QED
  BY <1>1, <1>2

\* Type correctness of the token economy: ages stay below the longest holding time, caps are
\* never negative, elements and grants name members only (TypeOK).
THEOREM TypeCorrect == Spec => []TypeOK
<1> QED
  BY InitTyped, NextTyped, PTL DEF Spec

----------------------------------------------------------------------------
(* Safety.                                                                 *)

\* What a squad tick does to grants, requests and elements, in the terms of the invariants.
LEMMA TickEffects ==
  ASSUME TypeOK, Tick
  PROVE  /\ fallen' = fallen /\ role' = role /\ renotified' = renotified
         /\ \A m \in fallen : health'[m] \in {"Dead", "Gone"}
         /\ \A t \in Type, m \in Member : held'[t][m] # NotHeld /\ held[t][m] = NotHeld =>
              m \in Alive(health') /\ request'[m] = NoRequest
         /\ \A m \in Member : request'[m] \in {request[m], NoRequest}
         /\ mask' = mask \/ mask' = FormElements(health')
         /\ \/ mover' = mover /\ elementGrant'.element \in {elementGrant.element, NoElement}
            \/ mover' = NoElement
            \/ elementGrant'.element = mover'
<1>1. PICK report \in StatusReports, dry \in SUBSET Holders(held, "Suppression") :
         TickSquad(report, dry)
  BY DEF Tick
<1> DEFINE hl == Collected(report)
           kept == KeptGrants(hl, dry)
           e == KeptElementGrant(kept)
<1>2. PICK suppressors \in Served(hl, kept, e, "Suppression"),
           movers \in Served(hl, kept, e, "Movement") :
         LET served == suppressors \cup movers
             h == [t \in Type |-> [m \in Member |->
                     IF m \in (IF t = "Suppression" THEN suppressors ELSE movers)
                     THEN 0 ELSE kept[t][m]]]
             f == Reflagged(FlagsAfterRevocation(kept), served, h, e, mask)
         IN  /\ health' = hl
             /\ cap' = UpdatedCap(hl)
             /\ request' = [m \in Member |-> IF m \in served THEN NoRequest ELSE request[m]]
             /\ waited' = [m \in Member |-> IF m \in served THEN 0 ELSE waited[m]]
             /\ UNCHANGED <<role, fallen, renotified>>
             /\ \/ KeepPlan(h, e, f)
                \/ \E p \in Selectable : EvaluatePlan(hl, h, e, p)
  BY <1>1 DEF TickSquad
<1> DEFINE served == suppressors \cup movers
           h == [t \in Type |-> [m \in Member |->
                   IF m \in (IF t = "Suppression" THEN suppressors ELSE movers)
                   THEN 0 ELSE kept[t][m]]]
           f == Reflagged(FlagsAfterRevocation(kept), served, h, e, mask)
<1>3. \A m \in fallen : health'[m] \in {"Dead", "Gone"}
  <2>1. \A m \in fallen : report[m] = "Dead" /\ m \in Member
    BY DEF StatusReports, TypeOK
  <2> QED
    BY <1>2, <2>1 DEF Collected
<1>4. suppressors \subseteq Alive(hl) /\ movers \subseteq Alive(hl)
  BY DEF Served, Candidates
<1>5. \A t \in Type, m \in Member : held[t][m] = NotHeld => kept[t][m] = NotHeld
  BY DEF KeptGrants
<1>6. \A t \in Type, m \in Member : h[t][m] # NotHeld /\ held[t][m] = NotHeld => m \in served
  <2> HIDE DEF kept
  <2> QED
    BY <1>5
<1>7. e.element \in {elementGrant.element, NoElement}
  BY DEF KeptElementGrant, Pruned, TypeOK
<1> HIDE DEF h, f, e, hl, served
<1>8. /\ \A t \in Type, m \in Member : held'[t][m] \in {h[t][m], NotHeld}
      /\ mask' = mask \/ mask' = FormElements(hl)
      /\ \/ mover' = mover /\ elementGrant'.element = e.element
         \/ mover' = NoElement
         \/ elementGrant'.element = mover'
  <2>1. CASE KeepPlan(h, e, f)
    BY <2>1 DEF KeepPlan, planVars
  <2>2. ASSUME NEW p \in Selectable, EvaluatePlan(hl, h, e, p)
        PROVE  <1>8
    <3>1. \A t \in Type, m \in Member : held'[t][m] \in {h[t][m], NotHeld}
      BY <2>2 DEF EvaluatePlan, WithoutMovers, h
    <3>2. mask' = mask \/ mask' = FormElements(hl)
      BY <2>2 DEF EvaluatePlan
    <3>3. \/ mover' = mover /\ elementGrant'.element = e.element
          \/ mover' = NoElement
          \/ elementGrant'.element = mover'
      BY <2>2 DEF EvaluatePlan, HandoverGrant
    <3> QED
      BY <3>1, <3>2, <3>3
  <2> QED
    BY <1>2, <2>1, <2>2 DEF h, f, e, hl, served
<1>9. /\ health' = hl /\ UNCHANGED <<role, fallen, renotified>>
      /\ request' = [m \in Member |-> IF m \in served THEN NoRequest ELSE request[m]]
  BY <1>2 DEF hl, served, e
<1>10. \A m \in served : m \in Alive(health')
  BY <1>4, <1>9 DEF served
<1> QED
  BY <1>3, <1>6, <1>7, <1>8, <1>9, <1>10

\* The soldiers whose death was notified stay out of action: this is what keeps tokens from
\* them after their death, and what FallenHoldNothing needs to be inductive.
FallenAreOut == \A m \in fallen : health[m] \in {"Dead", "Gone"}

IInv ==
  /\ TypeOK
  /\ NoRequestWhileHolding
  /\ FallenAreOut
  /\ FallenHoldNothing
  /\ OneLeader
  /\ ElementsDisjoint
  /\ GrantFollowsMover

\* At most one soldier is first in the succession.
LEMMA HeirUnique ==
  ASSUME NEW hl, NEW rl, NEW c \in Heirs(hl, rl), NEW d \in Heirs(hl, rl)
  PROVE  c = d
<1>1. c \in Member /\ d \in Member
  BY DEF Heirs, Alive
<1>2. SuccessionOrder[c] \in Int /\ SuccessionOrder[d] \in Int /\ c \in Int /\ d \in Int
  BY <1>1, RosterAssumption, SizeAssumption DEF Member
<1>3. /\ \/ SuccessionOrder[c] < SuccessionOrder[d]
         \/ SuccessionOrder[c] = SuccessionOrder[d] /\ c <= d
      /\ \/ SuccessionOrder[d] < SuccessionOrder[c]
         \/ SuccessionOrder[d] = SuccessionOrder[c] /\ d <= c
  BY DEF Heirs
<1> QED
  BY <1>2, <1>3

\* The elements that are formed are disjoint: the heir is not the leader, and neither is
\* dealt out again.
LEMMA FormElementsDisjoint ==
  ASSUME NEW hl
  PROVE  FormElements(hl)["Alpha"] \cap FormElements(hl)["Bravo"] = {}
<1> DEFINE gunners == {m \in Rest(hl) : role[m] = "AutomaticRifleman"}
           alpha == Alternate(gunners) \cup Alternate(Rest(hl) \ gunners)
<1>1. FormElements(hl)["Alpha"] = LeaderOf(hl) \cup alpha
  BY DEF FormElements, Element
<1>2. FormElements(hl)["Bravo"] = Heirs(hl, role) \cup (Rest(hl) \ alpha)
  BY DEF FormElements, Element
<1>3. alpha \subseteq Rest(hl)
  BY DEF Alternate
<1>4. LeaderOf(hl) \cap Heirs(hl, role) = {}
  BY DEF LeaderOf, Heirs
<1>5. Rest(hl) \cap (LeaderOf(hl) \cup Heirs(hl, role)) = {}
  BY DEF Rest
<1> HIDE DEF alpha
<1> QED
  BY <1>1, <1>2, <1>3, <1>4, <1>5

\* What a release changes, in the terms of the invariants.
LEMMA GiveUpEffects ==
  ASSUME TypeOK, NEW m \in Member, NEW ts, GiveUp(m, ts)
  PROVE  /\ request'[m] = NoRequest
         /\ \A n \in Member : request'[n] \in {request[n], NoRequest}
         /\ \A t \in Type, n \in Member : held'[t][n] \in {held[t][n], NotHeld}
         /\ \A t \in Type : t \in ts => held'[t][m] = NotHeld
         /\ elementGrant'.element = elementGrant.element
<1>1. /\ request'[m] = NoRequest
      /\ \A n \in Member : request'[n] \in {request[n], NoRequest}
  BY DEF GiveUp, TypeOK
<1>2. /\ \A t \in Type, n \in Member : held'[t][n] \in {held[t][n], NotHeld}
      /\ \A t \in Type : t \in ts => held'[t][m] = NotHeld
  BY DEF GiveUp, Released
<1>3. elementGrant'.element = elementGrant.element
  BY DEF GiveUp, Pruned, TypeOK
<1> QED
  BY <1>1, <1>2, <1>3

\* The invariant holds after registration.
LEMMA InitInv == Init => IInv
<1> SUFFICES ASSUME Init PROVE IInv
  OBVIOUS
<1>1. TypeOK
  BY InitTyped
<1>2. OneLeader
  BY RosterAssumption DEF Init, OneLeader
<1>3. ElementsDisjoint
  BY DEF Init, ElementsDisjoint, Element
<1>4. NoRequestWhileHolding /\ FallenAreOut /\ FallenHoldNothing /\ GrantFollowsMover
  BY DEF Init, NoRequestWhileHolding, FallenAreOut, FallenHoldNothing, GrantFollowsMover
<1> QED
  BY <1>1, <1>2, <1>3, <1>4 DEF IInv

\* A squad tick keeps the invariant.
LEMMA TickInv ==
  ASSUME IInv, Tick
  PROVE  IInv'
<1>1. TypeOK /\ TypeOK'
  BY TickTyped DEF IInv
<1>2. NoRequestWhileHolding'
  <2> SUFFICES ASSUME NEW m \in Member, NEW t \in Type, request'[m] = t
               PROVE  held'[t][m] = NotHeld
    BY DEF NoRequestWhileHolding
  <2>1. request[m] = t
    BY <1>1, TickEffects DEF Type, NoRequest
  <2>2. held[t][m] = NotHeld
    BY <2>1 DEF IInv, NoRequestWhileHolding
  <2> QED
    BY <1>1, <2>2, TickEffects DEF Type, NoRequest
<1>3. FallenAreOut'
  BY <1>1, TickEffects DEF FallenAreOut
<1>4. FallenHoldNothing'
  <2> SUFFICES ASSUME NEW m \in fallen, NEW t \in Type
               PROVE  request'[m] = NoRequest /\ held'[t][m] = NotHeld
    BY <1>1, TickEffects, TypeFacts DEF FallenHoldNothing
  <2>1. m \in Member /\ request[m] = NoRequest /\ held[t][m] = NotHeld
    BY DEF IInv, TypeOK, FallenHoldNothing
  <2>2. m \notin Alive(health')
    BY <1>1, TickEffects DEF Alive
  <2> QED
    BY <1>1, <2>1, <2>2, TickEffects
<1>5. OneLeader'
  BY <1>1, TickEffects DEF IInv, OneLeader
<1>6. ElementsDisjoint'
  BY <1>1, TickEffects, FormElementsDisjoint, FormElementsTyped DEF IInv, ElementsDisjoint, Element, TypeOK
<1>7. GrantFollowsMover'
  BY <1>1, TickEffects DEF IInv, GrantFollowsMover
<1> QED
  BY <1>1, <1>2, <1>3, <1>4, <1>5, <1>6, <1>7 DEF IInv

\* The calls of the soldiers keep the invariant.
LEMMA GrantOnRequestInv ==
  ASSUME IInv, NEW m \in Member, NEW t \in Type, GrantOnRequest(m, t), TypeOK'
  PROVE  IInv'
<1>1. /\ \A u \in Type, n \in Member : held'[u][n] # held[u][n] => n = m
      /\ request'[m] = NoRequest
      /\ \A n \in Member : n # m => request'[n] = request[n]
  BY DEF GrantOnRequest, IInv, TypeOK
<1>2. m \notin fallen
  BY DEF GrantOnRequest, IInv, FallenAreOut, Alive
<1>3. UNCHANGED <<health, role, fallen, renotified, mask, mover, elementGrant>>
  BY DEF GrantOnRequest, rosterVars, planVars
<1>4. NoRequestWhileHolding'
  BY <1>1 DEF NoRequestWhileHolding, IInv, Type, NoRequest
<1>5. FallenHoldNothing'
  BY <1>1, <1>2, <1>3 DEF FallenHoldNothing, IInv, TypeOK
<1> QED
  BY <1>3, <1>4, <1>5
     DEF IInv, FallenAreOut, OneLeader, ElementsDisjoint, GrantFollowsMover

\* Taking the request slot (RequestToken with no token to spare) keeps the invariant.
LEMMA QueueRequestInv ==
  ASSUME IInv, NEW m \in Member, NEW t \in Type, QueueRequest(m, t), TypeOK'
  PROVE  IInv'
<1>1. request' = [request EXCEPT ![m] = t]
  BY DEF QueueRequest
<1>2. m \notin fallen
  BY DEF QueueRequest, IInv, FallenAreOut, Alive
<1>3. UNCHANGED <<health, role, fallen, renotified, mask, mover, elementGrant, held>>
  BY DEF QueueRequest, rosterVars, planVars
<1>4. held[t][m] = NotHeld
  BY DEF QueueRequest, HasToken
<1>5. NoRequestWhileHolding'
  BY <1>1, <1>3, <1>4 DEF NoRequestWhileHolding, IInv, TypeOK
<1>6. FallenHoldNothing'
  BY <1>1, <1>2, <1>3 DEF FallenHoldNothing, IInv, TypeOK
<1> QED
  BY <1>3, <1>5, <1>6
     DEF IInv, FallenAreOut, OneLeader, ElementsDisjoint, GrantFollowsMover

\* A release keeps the parts of the invariant that speak of tokens.
LEMMA GiveUpInv ==
  ASSUME IInv, NEW m \in Member, NEW ts, GiveUp(m, ts), UNCHANGED mover
  PROVE  /\ NoRequestWhileHolding' /\ GrantFollowsMover'
         /\ \A n \in fallen : request'[n] = NoRequest /\ \A t \in Type : held'[t][n] = NotHeld
<1>1. TypeOK
  BY DEF IInv
<1>2. NoRequestWhileHolding'
  BY <1>1, GiveUpEffects DEF IInv, NoRequestWhileHolding, Type, NoRequest
<1>3. GrantFollowsMover'
  BY <1>1, GiveUpEffects DEF IInv, GrantFollowsMover
<1>4. \A n \in fallen : request'[n] = NoRequest /\ \A t \in Type : held'[t][n] = NotHeld
  BY <1>1, GiveUpEffects DEF IInv, FallenHoldNothing, TypeOK
<1> QED
  BY <1>2, <1>3, <1>4

\* ReleaseToken keeps the invariant.
LEMMA ReleaseTokenInv ==
  ASSUME IInv, NEW m \in Member, NEW t \in Type, ReleaseToken(m, t), TypeOK'
  PROVE  IInv'
<1>1. GiveUp(m, {t}) /\ UNCHANGED <<health, role, fallen, renotified, mask, mover>>
  BY DEF ReleaseToken, rosterVars, planVars
<1>2. NoRequestWhileHolding' /\ GrantFollowsMover' /\ FallenHoldNothing'
  BY <1>1, GiveUpInv DEF FallenHoldNothing
<1> QED
  BY <1>1, <1>2 DEF IInv, FallenAreOut, OneLeader, ElementsDisjoint

\* NotifyMemberDied keeps the invariant: the dead give everything up, and at most one heir
\* replaces a leader that falls; a second notification of a fallen leader is remembered.
LEMMA NotifyMemberDiedInv ==
  ASSUME IInv, NEW m \in Member, NotifyMemberDied(m), TypeOK'
  PROVE  IInv'
<1>1. GiveUp(m, Type) /\ UNCHANGED <<mask, mover>> /\ fallen' = fallen \cup {m}
  BY DEF NotifyMemberDied
<1>2. NoRequestWhileHolding' /\ GrantFollowsMover'
  BY <1>1, GiveUpInv
<1>3. FallenHoldNothing'
  <2>1. request'[m] = NoRequest /\ \A t \in Type : held'[t][m] = NotHeld
    BY <1>1, GiveUpEffects DEF IInv
  <2> QED
    BY <1>1, <2>1, GiveUpInv DEF FallenHoldNothing
<1>4. FallenAreOut'
  BY <1>1 DEF NotifyMemberDied, IInv, FallenAreOut, TypeOK
<1>5. OneLeader'
  <2>1. CASE role[m] = "Leader" /\ m \notin fallen /\ ~renotified
    <3>1. \A n \in Member \ fallen' : role[n] # "Leader"
      BY <1>1, <2>1 DEF IInv, OneLeader
    <3>2. \A n \in Member : role'[n] = "Leader" =>
            role[n] = "Leader" \/ n \in Heirs(health', role)
      BY DEF NotifyMemberDied, Succession
    <3> QED
      BY <3>1, <3>2, HeirUnique DEF OneLeader
  <2>2. CASE role[m] # "Leader"
    <3>1. \A n \in Member : role'[n] = role[n]
      BY <2>2 DEF NotifyMemberDied, Succession
    <3> QED
      BY <1>1, <3>1 DEF NotifyMemberDied, IInv, OneLeader
  <2>3. CASE role[m] = "Leader" /\ (m \in fallen \/ renotified)
    <3>1. renotified'
      BY <2>3 DEF NotifyMemberDied
    <3> QED
      BY <3>1 DEF OneLeader
  <2> QED
    BY <2>1, <2>2, <2>3
<1> QED
  BY <1>1, <1>2, <1>3, <1>4, <1>5 DEF IInv, ElementsDisjoint

\* The loss of a Pawn keeps the invariant.
LEMMA PawnDestroyedInv ==
  ASSUME IInv, NEW m \in Member, PawnDestroyed(m), TypeOK'
  PROVE  IInv'
<1>1. UNCHANGED <<role, fallen, renotified, request, held, elementGrant, mask, mover>>
  BY DEF PawnDestroyed, tokenVars, planVars
<1>2. FallenAreOut'
  BY <1>1 DEF PawnDestroyed, IInv, FallenAreOut, TypeOK
<1> QED
  BY <1>1, <1>2 DEF IInv, NoRequestWhileHolding, FallenHoldNothing, OneLeader,
                    ElementsDisjoint, GrantFollowsMover

\* Time keeps the invariant: no grant appears or disappears.
LEMMA ElapseInv ==
  ASSUME IInv, Elapse, TypeOK'
  PROVE  IInv'
<1>1. UNCHANGED <<health, role, fallen, renotified, request, mask, mover>>
  BY DEF Elapse, rosterVars
<1>2. \A t \in Type, m \in Member : held[t][m] = NotHeld => held'[t][m] = NotHeld
  BY DEF Elapse
<1>3. elementGrant'.element = elementGrant.element
  BY DEF Elapse, IInv, TypeOK
<1>4. NoRequestWhileHolding' /\ FallenHoldNothing'
  BY <1>1, <1>2 DEF IInv, NoRequestWhileHolding, FallenHoldNothing, TypeOK
<1> QED
  BY <1>1, <1>3, <1>4 DEF IInv, FallenAreOut, OneLeader, ElementsDisjoint, GrantFollowsMover

\* A step keeps the invariant.
LEMMA NextInv == IInv /\ [Next]_vars => IInv'
<1> SUFFICES ASSUME IInv, [Next]_vars PROVE IInv'
  OBVIOUS
<1>1. TypeOK'
  BY NextTyped DEF IInv
<1>2. CASE UNCHANGED vars
  BY <1>1, <1>2 DEF vars, IInv, NoRequestWhileHolding, FallenAreOut, FallenHoldNothing,
                    OneLeader, ElementsDisjoint, GrantFollowsMover
<1>3. CASE RequestPlanReevaluation
  BY <1>1, <1>3 DEF RequestPlanReevaluation, rosterVars, tokenVars, IInv, NoRequestWhileHolding,
                    FallenAreOut, FallenHoldNothing, OneLeader, ElementsDisjoint, GrantFollowsMover
<1>4. CASE Tick \/ Elapse
  BY <1>1, <1>4, TickInv, ElapseInv
<1>5. CASE \E m \in Member : NotifyMemberDied(m) \/ PawnDestroyed(m)
  BY <1>1, <1>5, NotifyMemberDiedInv, PawnDestroyedInv
<1>6. CASE \E m \in Member, t \in Type :
             GrantOnRequest(m, t) \/ QueueRequest(m, t) \/ ReleaseToken(m, t)
  BY <1>1, <1>6, GrantOnRequestInv, QueueRequestInv, ReleaseTokenInv
<1> QED
  BY <1>2, <1>3, <1>4, <1>5, <1>6 DEF Next

\* The inductive invariant holds in every reachable state of the token economy.
THEOREM Invariant == Spec => []IInv
<1> QED
  BY InitInv, NextInv, PTL DEF Spec

\* Nobody waits for a token it holds: RequestToken and the priority loop of
\* Phase_UpdateTokens close the request of whoever they grant a token.
THEOREM NoSoldierWaitsForWhatItHolds == Spec => []NoRequestWhileHolding
<1>1. IInv => NoRequestWhileHolding
  BY DEF IInv
<1> QED
  BY Invariant, <1>1, PTL

\* The dead hold nothing: NotifyMemberDied takes everything back, and no later request, tick
\* or handover gives a dead soldier a token of its own.
THEOREM TheDeadHoldNothing == Spec => []FallenHoldNothing
<1>1. IInv => FallenHoldNothing
  BY DEF IInv
<1> QED
  BY Invariant, <1>1, PTL

\* PromoteNewLeader gives the squad a second leader in one case only, when the death of a
\* fallen leader is notified again: its Role is still Leader then.
THEOREM SuccessionKeepsOneLeader == Spec => []OneLeader
<1>1. IInv => OneLeader
  BY DEF IInv
<1> QED
  BY Invariant, <1>1, PTL

\* Phase_FormElements never puts a soldier in both elements.
THEOREM ElementsStayDisjoint == Spec => []ElementsDisjoint
<1>1. IInv => ElementsDisjoint
  BY DEF IInv
<1> QED
  BY Invariant, <1>1, PTL

\* The movement token that was issued to an element is the moving element's.
THEOREM GrantStaysWithMover == Spec => []GrantFollowsMover
<1>1. IInv => GrantFollowsMover
  BY DEF IInv
<1> QED
  BY Invariant, <1>1, PTL

----------------------------------------------------------------------------
(* The flags of the soldiers.                                              *)

\* What the flags f of member m have to say of the grants h and e and the elements mk.
FlagsOf(f, h, e, mk, m) ==
  /\ f["Suppression"][m] <=> HasToken(h, e, mk, m, "Suppression")
  /\ HasToken(h, e, mk, m, "Movement") => f["Movement"][m]
  /\ f["Movement"][m] /\ ~HasToken(h, e, mk, m, "Movement") =>
       e.element = NoElement /\ \E x \in Element : m \in mk[x]

\* Flags that were just set say the truth.
LEMMA ReflaggedCover ==
  ASSUME NEW f, NEW who, NEW h, NEW e, NEW mk, NEW m \in Member, m \in who
  PROVE  FlagsOf(Reflagged(f, who, h, e, mk), h, e, mk, m)
<1>1. \A t \in Type : Reflagged(f, who, h, e, mk)[t][m] = HasToken(h, e, mk, m, t)
  BY DEF Reflagged
<1>2. \A t \in Type : HasToken(h, e, mk, m, t) \in BOOLEAN
  BY DEF HasToken, Covered
<1> QED
  BY <1>1, <1>2, TypeFacts, Zenon DEF FlagsOf

\* Flags depend on whether a grant is held, not on its age.
LEMMA SameTokensSameFlags ==
  ASSUME NEW f, NEW g, NEW h, NEW i, NEW e, NEW d, NEW mk, NEW m \in Member,
         FlagsOf(f, h, e, mk, m),
         \A t \in Type : (h[t][m] = NotHeld) <=> (i[t][m] = NotHeld),
         \A t \in Type : g[t][m] = f[t][m],
         d.element = e.element
  PROVE  FlagsOf(g, i, d, mk, m)
<1>1. \A t \in Type : HasToken(i, d, mk, m, t) <=> HasToken(h, e, mk, m, t)
  BY DEF HasToken, Covered
<1> QED
  BY <1>1, TypeFacts, Zenon DEF FlagsOf

\* What RemoveGrantAt makes of the flags fits what is left of the grants, the element's
\* grant included: the walk from the end of the array may leave a movement flag only where
\* the element grant ran out in the same pass.
LEMMA RevocationCovers ==
  ASSUME TypeOK, FlagsCoverTokens, NEW hl, NEW dry, NEW m \in Member
  PROVE  FlagsOf(FlagsAfterRevocation(KeptGrants(hl, dry)), KeptGrants(hl, dry),
                 KeptElementGrant(KeptGrants(hl, dry)), mask, m)
<1> DEFINE k == KeptGrants(hl, dry)
           e == KeptElementGrant(k)
           losers == {n \in Member : \E t \in Type : held[t][n] # k[t][n]}
           after == {n \in losers : ElementRevoked /\ n \in elementGrant.behind
                                      /\ k["Suppression"][n] = NotHeld}
           r == Reflagged(flag, losers, k, elementGrant, mask)
           f == FlagsAfterRevocation(k)
<1>1. f = [r EXCEPT !["Movement"] = [n \in Member |->
             IF n \in after THEN k["Movement"][n] # NotHeld ELSE @[n]]]
  BY DEF FlagsAfterRevocation
<1>2. \A t \in Type : r[t][m] = IF m \in losers THEN HasToken(k, elementGrant, mask, m, t)
                                ELSE flag[t][m]
  BY DEF Reflagged
<1>3. /\ f["Suppression"][m] = r["Suppression"][m]
      /\ f["Movement"][m] = IF m \in after THEN k["Movement"][m] # NotHeld
                            ELSE r["Movement"][m]
  <2>1. r \in [Type -> [Member -> BOOLEAN]]
    BY ReflaggedTyped DEF TypeOK, FlagsTyped
  <2> HIDE DEF r, after, k
  <2> QED
    BY <1>1, <2>1, TypeFacts
<1>4. /\ ElementRevoked => e.element = NoElement /\ elementGrant.element # NoElement
      /\ ~ElementRevoked => e.element = elementGrant.element
      /\ elementGrant.element \in Element \cup {NoElement}
  BY DEF KeptElementGrant, ElementRevoked, Pruned, TypeOK
<1>5. m \notin losers => \A t \in Type : k[t][m] = held[t][m]
  OBVIOUS
<1>6. FlagsOf(flag, held, elementGrant, mask, m)
  BY DEF FlagsCoverTokens, FlagsOf
<1>7. m \in after => ElementRevoked /\ m \in losers
  OBVIOUS
<1> HIDE DEF losers, after, r, f, k, e
<1>8. "Movement" # "Suppression"
  OBVIOUS
<1>9. f["Suppression"][m] <=> HasToken(k, e, mask, m, "Suppression")
  <2>1. CASE m \in losers
    BY <1>2, <1>3, <1>8, <2>1, TypeFacts DEF HasToken
  <2>2. CASE m \notin losers
    BY <1>2, <1>3, <1>5, <1>6, <1>8, <2>2, TypeFacts DEF HasToken, FlagsOf
  <2> QED
    BY <2>1, <2>2
<1>10. HasToken(k, e, mask, m, "Movement") => f["Movement"][m]
  <2> SUFFICES ASSUME HasToken(k, e, mask, m, "Movement") PROVE f["Movement"][m]
    OBVIOUS
  <2>1. k["Movement"][m] # NotHeld \/ (~ElementRevoked /\ Covered(elementGrant, mask, m))
    BY <1>4 DEF HasToken, Covered
  <2>2. CASE m \in after
    BY <1>3, <1>7, <2>1, <2>2
  <2>3. CASE m \in losers /\ m \notin after
    BY <1>2, <1>3, <2>1, <2>3, TypeFacts DEF HasToken
  <2>4. CASE m \notin losers
    <3>1. HasToken(held, elementGrant, mask, m, "Movement")
      BY <1>5, <2>1, <2>4, TypeFacts DEF HasToken
    <3> QED
      BY <1>2, <1>3, <1>6, <1>7, <2>4, <3>1, TypeFacts DEF FlagsOf
  <2> QED
    BY <2>2, <2>3, <2>4
<1>11. f["Movement"][m] /\ ~HasToken(k, e, mask, m, "Movement") =>
         e.element = NoElement /\ \E x \in Element : m \in mask[x]
  <2> SUFFICES ASSUME f["Movement"][m], ~HasToken(k, e, mask, m, "Movement")
               PROVE  e.element = NoElement /\ \E x \in Element : m \in mask[x]
    OBVIOUS
  <2>1. k["Movement"][m] = NotHeld /\ ~Covered(e, mask, m)
    BY DEF HasToken
  <2>2. m \notin after
    BY <1>3, <2>1
  <2>3. Covered(elementGrant, mask, m) => ElementRevoked /\ \E x \in Element : m \in mask[x]
    BY <1>4, <2>1 DEF Covered
  <2>4. CASE m \in losers
    BY <1>2, <1>3, <1>4, <2>1, <2>2, <2>3, <2>4, TypeFacts DEF HasToken
  <2>5. CASE m \notin losers
    <3>1. flag["Movement"][m] /\ held["Movement"][m] = NotHeld
      BY <1>2, <1>3, <1>5, <2>1, <2>2, <2>5, TypeFacts
    <3>2. CASE Covered(elementGrant, mask, m)
      BY <1>4, <2>3, <3>2
    <3>3. CASE ~Covered(elementGrant, mask, m)
      <4>1. ~HasToken(held, elementGrant, mask, m, "Movement")
        BY <3>1, <3>3 DEF HasToken
      <4>2. elementGrant.element = NoElement /\ \E x \in Element : m \in mask[x]
        BY <1>6, <3>1, <4>1 DEF FlagsOf
      <4> QED
        BY <1>4, <4>2
    <3> QED
      BY <3>2, <3>3
  <2> QED
    BY <2>4, <2>5
<1>12. FlagsOf(f, k, e, mask, m)
  BY <1>9, <1>10, <1>11, Zenon DEF FlagsOf
<1> QED
  BY <1>12 DEF f, k, e

\* The grants after the priority loop of Phase_UpdateTokens served the members of S and M.
WithServed(k, S, M) == [t \in Type |-> [m \in Member |->
  IF m \in (IF t = "Suppression" THEN S ELSE M) THEN 0 ELSE k[t][m]]]

\* The token phase of a squad tick, which found out hl and dry and served S and M, and what
\* the plan phase made of it.
TickPasses(hl, dry, S, M) ==
  LET k == KeptGrants(hl, dry)
      e == KeptElementGrant(k)
      h == WithServed(k, S, M)
      f == Reflagged(FlagsAfterRevocation(k), S \cup M, h, e, mask)
  IN  /\ S \in Served(hl, k, e, "Suppression") /\ M \in Served(hl, k, e, "Movement")
      /\ health' = hl /\ cap' = UpdatedCap(hl)
      /\ \/ KeepPlan(h, e, f)
         \/ \E p \in Selectable : EvaluatePlan(hl, h, e, p)

\* A squad tick goes through these phases.
LEMMA TickIsPasses ==
  ASSUME Tick
  PROVE  \E hl, dry, S, M : TickPasses(hl, dry, S, M)
<1>1. PICK report \in StatusReports, dry \in SUBSET Holders(held, "Suppression") :
         TickSquad(report, dry)
  BY DEF Tick
<1> DEFINE hl == Collected(report)
           k == KeptGrants(hl, dry)
           e == KeptElementGrant(k)
           h(S, M) == [t \in Type |-> [m \in Member |->
                         IF m \in (IF t = "Suppression" THEN S ELSE M) THEN 0 ELSE k[t][m]]]
           f(S, M) == Reflagged(FlagsAfterRevocation(k), S \cup M, h(S, M), e, mask)
<1>2. PICK S \in Served(hl, k, e, "Suppression"), M \in Served(hl, k, e, "Movement") :
         /\ health' = hl
         /\ cap' = UpdatedCap(hl)
         /\ \/ KeepPlan(h(S, M), e, f(S, M))
            \/ \E p \in Selectable : EvaluatePlan(hl, h(S, M), e, p)
  BY <1>1 DEF TickSquad
<1>3. h(S, M) = WithServed(k, S, M)
  BY Zenon DEF WithServed
<1> HIDE DEF h
<1>4. TickPasses(hl, dry, S, M)
  <2> HIDE DEF hl
  <2> QED
    BY <1>2, <1>3, Zenon DEF TickPasses
<1> QED
  BY <1>4, Zenon

\* A squad tick keeps the flags and the tokens together.
LEMMA TickFlags ==
  ASSUME TypeOK, FlagsCoverTokens, Tick
  PROVE  FlagsCoverTokens'
<1>1. PICK hl, dry, S, M : TickPasses(hl, dry, S, M)
  BY TickIsPasses
<1> DEFINE k == KeptGrants(hl, dry)
           e == KeptElementGrant(k)
           h == WithServed(k, S, M)
           f == Reflagged(FlagsAfterRevocation(k), S \cup M, h, e, mask)
<1>2. ASSUME NEW m \in Member PROVE FlagsOf(f, h, e, mask, m)
  <2>1. CASE m \in S \cup M
    BY <2>1, ReflaggedCover
  <2>2. CASE m \notin S \cup M
    <3>1. FlagsOf(FlagsAfterRevocation(k), k, e, mask, m)
      BY RevocationCovers
    <3>2. \A t \in Type : h[t][m] = k[t][m] /\ f[t][m] = FlagsAfterRevocation(k)[t][m]
      BY <2>2 DEF WithServed, Reflagged
    <3> HIDE DEF h, k, e, f
    <3>3. \A t \in Type : (k[t][m] = NotHeld) <=> (h[t][m] = NotHeld)
      BY <3>2
    <3> QED
      BY <3>1, <3>2, <3>3, SameTokensSameFlags
  <2> QED
    BY <2>1, <2>2
<1>3. KeepPlan(h, e, f) \/ \E p \in Selectable : EvaluatePlan(hl, h, e, p)
  BY <1>1, Zenon DEF TickPasses
<1> HIDE DEF h, e, f
<1>4. SUFFICES ASSUME NEW m \in Member PROVE FlagsOf(flag', held', elementGrant', mask', m)
  BY DEF FlagsCoverTokens, FlagsOf
<1>5. CASE KeepPlan(h, e, f)
  BY <1>2, <1>5 DEF KeepPlan, planVars
<1>6. CASE \E p \in Selectable : EvaluatePlan(hl, h, e, p)
  <2>1. PICK p \in Selectable : EvaluatePlan(hl, h, e, p)
    BY <1>6
  <2>2. flag' = Reflagged(flag, Member, held', elementGrant', mask')
    BY <2>1 DEF EvaluatePlan
  <2> QED
    BY <2>2, ReflaggedCover
<1> QED
  BY <1>3, <1>5, <1>6

\* Every step keeps the flags and the tokens together.
LEMMA FlagsStep == TypeOK /\ FlagsCoverTokens /\ [Next]_vars => FlagsCoverTokens'
<1> SUFFICES ASSUME TypeOK, FlagsCoverTokens, [Next]_vars PROVE FlagsCoverTokens'
  OBVIOUS
<1>1. \A m \in Member : FlagsOf(flag, held, elementGrant, mask, m)
  BY DEF FlagsCoverTokens, FlagsOf
<1>2. (\A m \in Member : FlagsOf(flag', held', elementGrant', mask', m)) => FlagsCoverTokens'
  BY DEF FlagsCoverTokens, FlagsOf
<1>3. CASE UNCHANGED <<flag, held, elementGrant, mask>>
  BY <1>1, <1>2, <1>3
<1>4. ASSUME NEW m \in Member, NEW t \in Type, GrantOnRequest(m, t) PROVE FlagsCoverTokens'
  <2> SUFFICES ASSUME NEW n \in Member PROVE FlagsOf(flag', held', elementGrant', mask', n)
    BY <1>2
  <2>1. /\ flag' = Reflagged(flag, {m}, held', elementGrant, mask)
        /\ held' = [held EXCEPT ![t][m] = 0]
        /\ elementGrant' = elementGrant /\ mask' = mask
    BY <1>4 DEF GrantOnRequest, planVars
  <2>2. CASE n = m
    BY <2>1, <2>2, ReflaggedCover
  <2>3. CASE n # m
    <3>1. \A u \in Type : held'[u][n] = held[u][n] /\ flag'[u][n] = flag[u][n]
      BY <2>1, <2>3 DEF Reflagged, TypeOK
    <3>2. FlagsOf(flag, held, elementGrant, mask', n) /\ elementGrant'.element = elementGrant.element
      BY <1>1, <2>1
    <3>3. \A u \in Type : (held[u][n] = NotHeld) <=> (held'[u][n] = NotHeld)
      BY <3>1
    <3> QED
      BY <3>1, <3>2, <3>3, SameTokensSameFlags
  <2> QED
    BY <2>2, <2>3
<1>5. ASSUME NEW m \in Member, NEW ts, GiveUp(m, ts), UNCHANGED mask PROVE FlagsCoverTokens'
  <2> SUFFICES ASSUME NEW n \in Member PROVE FlagsOf(flag', held', elementGrant', mask', n)
    BY <1>2
  <2>1. /\ flag' = Reflagged(flag, {m}, held', elementGrant', mask)
        /\ held' = Released(m, ts) /\ mask' = mask
    BY <1>5 DEF GiveUp
  <2>2. elementGrant'.element = elementGrant.element
    BY <1>5 DEF GiveUp, Pruned, TypeOK
  <2>3. CASE n = m
    BY <2>1, <2>3, ReflaggedCover
  <2>4. CASE n # m
    <3>1. \A u \in Type : held'[u][n] = held[u][n] /\ flag'[u][n] = flag[u][n]
      BY <2>1, <2>4 DEF Reflagged, Released
    <3>2. FlagsOf(flag, held, elementGrant, mask', n) /\ elementGrant'.element = elementGrant.element
      BY <1>1, <2>1, <2>2
    <3>3. \A u \in Type : (held[u][n] = NotHeld) <=> (held'[u][n] = NotHeld)
      BY <3>1
    <3> QED
      BY <3>1, <3>2, <3>3, SameTokensSameFlags
  <2> QED
    BY <2>3, <2>4
<1>6. CASE Elapse
  <2> SUFFICES ASSUME NEW n \in Member PROVE FlagsOf(flag', held', elementGrant', mask', n)
    BY <1>2
  <2>1. \A t \in Type : (held[t][n] = NotHeld) <=> (held'[t][n] = NotHeld)
    <3> SUFFICES ASSUME NEW t \in Type PROVE (held[t][n] = NotHeld) <=> (held'[t][n] = NotHeld)
      OBVIOUS
    <3>1. held'[t][n] = IF held[t][n] = NotHeld THEN NotHeld ELSE MinOf(held[t][n] + 1, MaxHold[t])
      BY <1>6 DEF Elapse
    <3>2. held[t][n] \in {NotHeld} \cup 0 .. MaxHold[t] /\ MaxHold[t] \in Nat
      BY TimeFacts DEF TypeOK
    <3> QED
      BY <3>1, <3>2 DEF MinOf, NotHeld
  <2>2. elementGrant'.element = elementGrant.element
    BY <1>6 DEF Elapse, TypeOK
  <2>3. flag' = flag /\ mask' = mask
    BY <1>6 DEF Elapse
  <2> QED
    BY <1>1, <2>1, <2>2, <2>3, SameTokensSameFlags
<1>7. ASSUME NEW m \in Member, NotifyMemberDied(m) PROVE FlagsCoverTokens'
  BY <1>5, <1>7 DEF NotifyMemberDied
<1>8. ASSUME NEW m \in Member, NEW t \in Type, ReleaseToken(m, t) PROVE FlagsCoverTokens'
  BY <1>5, <1>8 DEF ReleaseToken, planVars
<1>9. ASSUME NEW m \in Member, NEW t \in Type, QueueRequest(m, t) PROVE FlagsCoverTokens'
  BY <1>3, <1>9 DEF QueueRequest, planVars
<1>10. ASSUME NEW m \in Member, PawnDestroyed(m) PROVE FlagsCoverTokens'
  BY <1>3, <1>10 DEF PawnDestroyed, planVars, tokenVars
<1>11. CASE RequestPlanReevaluation
  BY <1>3, <1>11 DEF RequestPlanReevaluation, tokenVars
<1>12. CASE UNCHANGED vars
  BY <1>3, <1>12 DEF vars
<1> QED
  BY <1>4, <1>6, <1>7, <1>8, <1>9, <1>10, <1>11, <1>12, TickFlags DEF Next

\* The flags that the soldiers' trees read never miss a token that the squad issued, and
\* what they may say beyond it is confined to an element whose grant ran out.
THEOREM FlagsFollowTokens == Spec => []FlagsCoverTokens
<1>1. Init => FlagsCoverTokens
  BY DEF Init, FlagsCoverTokens, HasToken, Covered, NoElement, NotHeld, Type
<1>2. TypeOK /\ FlagsCoverTokens /\ [Next]_vars => FlagsCoverTokens'
  BY FlagsStep
<1> QED
  BY <1>1, <1>2, TypeCorrect, PTL DEF Spec

----------------------------------------------------------------------------
(* The caps.                                                               *)

\* Holders can be counted, and with them the grants.
LEMMA HoldersCount ==
  ASSUME NEW h, NEW t, NEW e
  PROVE  /\ IsFiniteSet(Holders(h, t)) /\ Cardinality(Holders(h, t)) \in Nat
         /\ GrantCount(h, e, t) \in Nat
<1>1. IsFiniteSet(Member)
  BY MemberFinite
<1>2. Holders(h, t) \subseteq Member
  BY DEF Holders
<1>3. IsFiniteSet(Holders(h, t)) /\ Cardinality(Holders(h, t)) \in Nat
  BY <1>1, <1>2, FS_Subset, FS_CardinalityType
<1> QED
  BY <1>3 DEF GrantCount

\* Members without a token who get one are counted on top of the others.
LEMMA GrantsAdd ==
  ASSUME NEW h, NEW i, NEW e, NEW t, NEW S, S \subseteq Member,
         \A m \in S : h[t][m] = NotHeld /\ i[t][m] # NotHeld,
         \A m \in Member \ S : (h[t][m] = NotHeld) <=> (i[t][m] = NotHeld)
  PROVE  /\ Cardinality(S) \in Nat /\ IsFiniteSet(S)
         /\ GrantCount(i, e, t) = GrantCount(h, e, t) + Cardinality(S)
<1>1. IsFiniteSet(S) /\ Cardinality(S) \in Nat
  <2>1. IsFiniteSet(Member)
    BY MemberFinite
  <2> QED
    BY <2>1, FS_Subset, FS_CardinalityType
<1>2. Holders(i, t) = Holders(h, t) \cup S /\ Holders(h, t) \cap S = {}
  BY DEF Holders
<1>3. Cardinality(Holders(i, t)) = Cardinality(Holders(h, t)) + Cardinality(S)
  <2>1. Cardinality(Holders(h, t) \cap S) = 0
    BY <1>2, FS_EmptySet
  <2> QED
    BY <1>1, <1>2, <2>1, HoldersCount, FS_Union
<1> QED
  BY <1>1, <1>3, HoldersCount DEF GrantCount

\* The priority loop serves no more than the cap has room for.
LEMMA ServedWithinCap ==
  ASSUME TypeOK, NEW hl, NEW k, NEW e, NEW t \in Type, NEW S \in Served(hl, k, e, t),
         NEW i, S # {},
         \A m \in S : i[t][m] # NotHeld,
         \A m \in Member \ S : (k[t][m] = NotHeld) <=> (i[t][m] = NotHeld)
  PROVE  GrantCount(i, e, t) <= UpdatedCap(hl)[t]
<1> DEFINE waiting == Candidates(hl, k, e, t)
           room == MaxOf(0, UpdatedCap(hl)[t] - GrantCount(k, e, t))
<1>1. S \subseteq waiting /\ Cardinality(S) = MinOf(room, Cardinality(waiting))
  BY DEF Served
<1>2. waiting \subseteq Member /\ \A m \in waiting : k[t][m] = NotHeld
  BY DEF Candidates, Alive, HasToken
<1>3. IsFiniteSet(S) /\ Cardinality(S) \in Nat
      /\ GrantCount(i, e, t) = GrantCount(k, e, t) + Cardinality(S)
  <2> HIDE DEF waiting, room
  <2> QED
    BY <1>1, <1>2, GrantsAdd
<1>4. Cardinality(S) > 0
  BY <1>3, FS_EmptySet
<1>5. UpdatedCap(hl)[t] \in Nat /\ GrantCount(k, e, t) \in Nat
  BY CapTyped, HoldersCount DEF TypeOK
<1>6. Cardinality(waiting) \in Nat
  <2>1. IsFiniteSet(Member)
    BY MemberFinite
  <2> QED
    BY <1>2, <2>1, FS_Subset, FS_CardinalityType
<1>7. room \in Nat /\ Cardinality(S) <= room
  BY <1>1, <1>5, <1>6 DEF MinOf, MaxOf
<1>8. room = UpdatedCap(hl)[t] - GrantCount(k, e, t)
  BY <1>3, <1>4, <1>5, <1>7 DEF MaxOf
<1> HIDE DEF room
<1> QED
  BY <1>3, <1>5, <1>7, <1>8

\* What a squad tick issues stays within the caps that it has just set.
LEMMA TickWithinCap ==
  ASSUME TypeOK, Tick, NEW t \in Type, NEW m \in Member, NewlyHeld(t, m)
  PROVE  m \in Alive(health') /\ GrantCount(held', elementGrant', t) <= cap'[t]
<1>1. PICK hl, dry, S, M : TickPasses(hl, dry, S, M)
  BY TickIsPasses
<1> DEFINE k == KeptGrants(hl, dry)
           e == KeptElementGrant(k)
           h == WithServed(k, S, M)
           f == Reflagged(FlagsAfterRevocation(k), S \cup M, h, e, mask)
           R == IF t = "Suppression" THEN S ELSE M
<1>2. /\ R \in Served(hl, k, e, t)
      /\ health' = hl /\ cap' = UpdatedCap(hl)
      /\ KeepPlan(h, e, f) \/ \E p \in Selectable : EvaluatePlan(hl, h, e, p)
  BY <1>1 DEF TickPasses, Type
<1>3. R \subseteq Alive(hl)
  BY <1>2 DEF Served, Candidates
<1>4. held[t][m] = NotHeld /\ held'[t][m] # NotHeld /\ k[t][m] = NotHeld
  BY DEF NewlyHeld, KeptGrants
<1>5. \A n \in Member : h[t][n] = IF n \in R THEN 0 ELSE k[t][n]
  BY DEF WithServed
<1> HIDE DEF k, e, h, f, R
<1>6. /\ \A n \in Member : held'[t][n] = h[t][n]
      /\ t = "Suppression" \/ elementGrant' = e
  <2>1. CASE KeepPlan(h, e, f)
    BY <2>1 DEF KeepPlan
  <2>2. ASSUME NEW p \in Selectable, EvaluatePlan(hl, h, e, p), ~Handover(p) PROVE <1>6
    BY <2>2 DEF EvaluatePlan
  <2>3. ASSUME NEW p \in Selectable, EvaluatePlan(hl, h, e, p), Handover(p) PROVE <1>6
    <3>1. held' = WithoutMovers(h)
      BY <2>3 DEF EvaluatePlan
    <3>2. DOMAIN h = Type /\ "Movement" \in Type
      BY TypeFacts DEF h, WithServed
    <3>3. held'["Movement"][m] = NotHeld
      BY <3>1, <3>2 DEF WithoutMovers
    <3>4. t = "Suppression"
      BY <1>4, <3>3 DEF Type
    <3>5. held'["Suppression"] = h["Suppression"]
      BY <3>1, <3>2, TypeFacts DEF WithoutMovers
    <3> QED
      BY <3>4, <3>5
  <2> QED
    BY <1>2, <2>1, <2>2, <2>3
<1>7. m \in R
  BY <1>4, <1>5, <1>6
<1>8. GrantCount(held', e, t) <= cap'[t]
  <2>1. \A n \in R : held'[t][n] # NotHeld
    <3>1. R \subseteq Member /\ 0 # NotHeld
      BY <1>3 DEF Alive, NotHeld
    <3> QED
      BY <1>5, <1>6, <3>1
  <2>2. \A n \in Member \ R : (k[t][n] = NotHeld) <=> (held'[t][n] = NotHeld)
    BY <1>5, <1>6
  <2> QED
    BY <1>2, <1>7, <2>1, <2>2, ServedWithinCap
<1>9. GrantCount(held', elementGrant', t) = GrantCount(held', e, t)
  <2>1. CASE t = "Suppression"
    BY <2>1 DEF GrantCount
  <2>2. CASE elementGrant' = e
    BY <2>2
  <2> QED
    BY <1>6, <2>1, <2>2
<1> QED
  BY <1>2, <1>3, <1>7, <1>8, <1>9

\* What RequestToken issues on the spot stays within the cap.
LEMMA RequestWithinCap ==
  ASSUME TypeOK, NEW n \in Member, NEW u \in Type, GrantOnRequest(n, u),
         NEW t \in Type, NEW m \in Member, NewlyHeld(t, m)
  PROVE  m \in Alive(health') /\ GrantCount(held', elementGrant', t) <= cap'[t]
<1>1. /\ n \in Alive(health) /\ ~HasToken(held, elementGrant, mask, n, u)
      /\ GrantCount(held, elementGrant, u) < cap[u]
      /\ held' = [held EXCEPT ![u][n] = 0]
      /\ elementGrant' = elementGrant /\ cap' = cap /\ health' = health
  BY DEF GrantOnRequest, rosterVars
<1>2. t = u /\ m = n
  BY <1>1 DEF NewlyHeld, TypeOK
<1>3. held[u][n] = NotHeld /\ held'[u][n] = 0 /\ \A l \in Member \ {n} : held'[u][l] = held[u][l]
  BY <1>1 DEF HasToken, TypeOK
<1>4. GrantCount(held', elementGrant, u) = GrantCount(held, elementGrant, u) + Cardinality({n})
  <2>1. \A l \in {n} : held[u][l] = NotHeld /\ held'[u][l] # NotHeld
    BY <1>3 DEF NotHeld
  <2>2. \A l \in Member \ {n} : (held[u][l] = NotHeld) <=> (held'[u][l] = NotHeld)
    BY <1>3
  <2>3. {n} \subseteq Member
    OBVIOUS
  <2> QED
    BY <2>1, <2>2, <2>3, GrantsAdd
<1>5. Cardinality({n}) = 1
  BY FS_Singleton
<1>6. GrantCount(held, elementGrant, u) \in Nat /\ cap[u] \in Nat
  BY HoldersCount DEF TypeOK
<1>7. GrantCount(held', elementGrant, u) <= cap[u]
  BY <1>1, <1>4, <1>5, <1>6
<1> QED
  BY <1>1, <1>2, <1>7

\* No other step issues a grant to a soldier.
LEMMA OthersIssueNothing ==
  ASSUME TypeOK, NEW t \in Type, NEW m \in Member,
         \/ UNCHANGED held \/ Elapse \/ \E n \in Member, ts \in SUBSET Type : GiveUp(n, ts)
  PROVE  ~NewlyHeld(t, m)
<1>1. CASE UNCHANGED held
  BY <1>1 DEF NewlyHeld
<1>2. CASE Elapse
  BY <1>2 DEF NewlyHeld, Elapse
<1>3. ASSUME NEW n \in Member, NEW ts \in SUBSET Type, GiveUp(n, ts) PROVE ~NewlyHeld(t, m)
  BY <1>3 DEF NewlyHeld, GiveUp, Released
<1> QED
  BY <1>1, <1>2, <1>3

\* The step that IssuedWithinCap speaks of.
IssueIsCapped ==
  \A t \in Type, m \in Member : NewlyHeld(t, m) =>
    /\ m \in Alive(health')
    /\ GrantCount(held', elementGrant', t) <= cap'[t]

\* Individual grants are issued to the living only, and within the cap in force: RequestToken
\* and the priority loop of Phase_UpdateTokens agree on the count, the element's grant included.
THEOREM IssuesStayWithinCap == Spec => IssuedWithinCap
<1>1. TypeOK /\ [Next]_vars => [IssueIsCapped]_vars
  <2> SUFFICES ASSUME TypeOK, [Next]_vars, NEW t \in Type, NEW m \in Member, NewlyHeld(t, m)
               PROVE  m \in Alive(health') /\ GrantCount(held', elementGrant', t) <= cap'[t]
    BY DEF IssueIsCapped
  <2>1. CASE Tick
    BY <2>1, TickWithinCap
  <2>2. CASE \E n \in Member, u \in Type : GrantOnRequest(n, u)
    BY <2>2, RequestWithinCap
  <2>3. CASE Elapse
    BY <2>3, OthersIssueNothing
  <2>4. CASE UNCHANGED held
    BY <2>4, OthersIssueNothing
  <2>5. ASSUME NEW n \in Member, NotifyMemberDied(n) PROVE FALSE
    BY <2>5, OthersIssueNothing DEF NotifyMemberDied
  <2>6. ASSUME NEW n \in Member, NEW u \in Type, ReleaseToken(n, u) PROVE FALSE
    BY <2>6, OthersIssueNothing DEF ReleaseToken
  <2>7. ASSUME NEW n \in Member, NEW u \in Type, QueueRequest(n, u) PROVE FALSE
    BY <2>7, OthersIssueNothing DEF QueueRequest
  <2>8. ASSUME NEW n \in Member, PawnDestroyed(n) PROVE FALSE
    BY <2>8, OthersIssueNothing DEF PawnDestroyed, tokenVars
  <2>9. CASE RequestPlanReevaluation
    BY <2>9, OthersIssueNothing DEF RequestPlanReevaluation, tokenVars
  <2>10. CASE UNCHANGED vars
    BY <2>10, OthersIssueNothing DEF vars
  <2> QED
    BY <2>1, <2>2, <2>3, <2>5, <2>6, <2>7, <2>8, <2>9, <2>10 DEF Next
<1> QED
  BY <1>1, TypeCorrect, PTL DEF Spec, IssuedWithinCap, IssueIsCapped

----------------------------------------------------------------------------
(* The token economy implements TokenLease.                                *)

\* The members with a grant of their own, by type: what the lease maps to.
LeaseOf(h) == [t \in Type |-> Holders(h, t)]

\* The instance counts as the module does.
LEMMA SameCount ==
  ASSUME NEW S
  PROVE  Lease!Cardinality(S) = Cardinality(S)
  BY Zenon DEF Lease!Cardinality, Cardinality, Lease!IsFiniteSet, IsFiniteSet

\* After registration nobody has a token.
LEMMA InitRefines == Init => Lease!LeaseInit
<1> SUFFICES ASSUME Init PROVE Lease!LeaseInit
  OBVIOUS
<1>1. Alive(health) = Member
  BY DEF Init, Alive
<1>2. LeaseOf(held) = [t \in Type |-> {}]
  BY DEF Init, LeaseOf, Holders
<1>3. elementGrant.element = NoElement /\ fallen = {} /\ cap = [t \in Type |-> 0]
  BY DEF Init
<1> QED
  BY <1>1, <1>2, <1>3 DEF Lease!LeaseInit, LeaseOf

\* A token granted at once is asked for by somebody in action.
LEMMA GrantOnRequestRefines ==
  ASSUME IInv, NEW m \in Member, NEW t \in Type, GrantOnRequest(m, t)
  PROVE  Lease!Ask(m)
<1>1. /\ m \in Alive(health) /\ held[t][m] = NotHeld
      /\ GrantCount(held, elementGrant, t) < cap[t]
      /\ held' = [held EXCEPT ![t][m] = 0]
      /\ elementGrant' = elementGrant /\ cap' = cap /\ health' = health /\ fallen' = fallen
  BY DEF GrantOnRequest, rosterVars, HasToken
<1>2. m \notin fallen
  BY <1>1 DEF IInv, FallenAreOut, Alive
<1>3. LeaseOf(held)[t] = Holders(held, t) /\ m \notin Holders(held, t)
  BY <1>1 DEF LeaseOf, Holders
<1>4. Holders(held', t) = Holders(held, t) \cup {m}
      /\ \A u \in Type \ {t} : Holders(held', u) = Holders(held, u)
  BY <1>1 DEF Holders, IInv, TypeOK, NotHeld
<1>5. LeaseOf(held') = [LeaseOf(held) EXCEPT ![t] = @ \cup {m}]
  BY <1>3, <1>4 DEF LeaseOf
<1>6. Lease!Out(t) = GrantCount(held, elementGrant, t)
  <2>1. Lease!Cardinality(LeaseOf(held)[t]) = Cardinality(Holders(held, t))
    BY <1>3, SameCount
  <2> QED
    BY <2>1 DEF Lease!Out, GrantCount, LeaseOf
<1> QED
  BY <1>1, <1>2, <1>3, <1>5, <1>6 DEF Lease!Ask, LeaseOf

\* A release gives one token back.
LEMMA ReleaseTokenRefines ==
  ASSUME IInv, NEW m \in Member, NEW t \in Type, ReleaseToken(m, t)
  PROVE  Lease!GiveBack(m)
<1>1. /\ held' = Released(m, {t}) /\ elementGrant'.element = elementGrant.element
      /\ cap' = cap /\ health' = health /\ fallen' = fallen
  BY GiveUpEffects DEF ReleaseToken, GiveUp, rosterVars, IInv
<1>2. \A u \in Type : Holders(held', u) = IF u = t THEN Holders(held, t) \ {m} ELSE Holders(held, u)
  BY <1>1 DEF Holders, Released
<1>3. LeaseOf(held') = [LeaseOf(held) EXCEPT ![t] = @ \ {m}]
  BY <1>2 DEF LeaseOf
<1> QED
  BY <1>1, <1>3 DEF Lease!GiveBack, LeaseOf

\* A death frees the tokens of the dead soldier and takes it out of action; notified again, it
\* finds neither tokens nor anybody in action.
LEMMA NotifyMemberDiedRefines ==
  ASSUME IInv, NEW m \in Member, NotifyMemberDied(m)
  PROVE  Lease!Fall(m) \/ UNCHANGED Lease!leaseVars
<1>1. /\ fallen' = fallen \cup {m} /\ cap' = cap
      /\ held' = Released(m, Type) /\ elementGrant'.element = elementGrant.element
  BY GiveUpEffects DEF NotifyMemberDied, GiveUp, IInv
<1>2. Alive(health') = Alive(health) \ {m}
  BY DEF NotifyMemberDied, Alive, IInv, TypeOK
<1>3. \A u \in Type : Holders(held', u) = Holders(held, u) \ {m}
  BY <1>1 DEF Holders, Released
<1>4. LeaseOf(held') = [u \in Type |-> LeaseOf(held)[u] \ {m}]
  BY <1>3 DEF LeaseOf
<1>5. CASE m \notin fallen
  BY <1>1, <1>2, <1>4, <1>5 DEF Lease!Fall, LeaseOf
<1>6. CASE m \in fallen
  <2>1. fallen' = fallen /\ Alive(health') = Alive(health)
    BY <1>1, <1>2, <1>6 DEF IInv, FallenAreOut, Alive
  <2>2. \A u \in Type : Holders(held', u) = Holders(held, u)
    BY <1>3, <1>6 DEF Holders, IInv, FallenHoldNothing
  <2> QED
    BY <1>1, <2>1, <2>2 DEF Lease!leaseVars
<1> QED
  BY <1>5, <1>6

\* A soldier whose Pawn is destroyed vanishes.
LEMMA PawnDestroyedRefines ==
  ASSUME IInv, NEW m \in Member, PawnDestroyed(m)
  PROVE  Lease!Vanish(m)
<1>1. UNCHANGED <<fallen, cap, held, elementGrant>>
  BY DEF PawnDestroyed, tokenVars
<1>2. Alive(health') = Alive(health) \ {m}
  BY DEF PawnDestroyed, Alive, IInv, TypeOK
<1> QED
  BY <1>1, <1>2 DEF Lease!Vanish

\* A tick either leaves the element's turn alone or ends it, or hands it over, and then
\* nobody keeps a movement token of its own.
LEMMA TickTurns ==
  ASSUME TypeOK, Tick
  PROVE  \/ elementGrant'.element \in {elementGrant.element, NoElement}
         \/ elementGrant'.element \in Element /\ Holders(held', "Movement") = {}
<1>1. PICK hl, dry, S, M : TickPasses(hl, dry, S, M)
  BY TickIsPasses
<1> DEFINE k == KeptGrants(hl, dry)
           e == KeptElementGrant(k)
           h == WithServed(k, S, M)
           f == Reflagged(FlagsAfterRevocation(k), S \cup M, h, e, mask)
<1>2. KeepPlan(h, e, f) \/ \E p \in Selectable : EvaluatePlan(hl, h, e, p)
  BY <1>1 DEF TickPasses
<1>3. e.element \in {elementGrant.element, NoElement}
  BY DEF KeptElementGrant, Pruned, TypeOK
<1>4. DOMAIN h = Type
  BY DEF WithServed
<1> HIDE DEF h, e, f, k
<1>5. CASE KeepPlan(h, e, f)
  BY <1>3, <1>5 DEF KeepPlan
<1>6. ASSUME NEW p \in Selectable, EvaluatePlan(hl, h, e, p), ~Handover(p)
      PROVE  elementGrant'.element \in {elementGrant.element, NoElement}
  BY <1>3, <1>6 DEF EvaluatePlan
<1>7. ASSUME NEW p \in Selectable, EvaluatePlan(hl, h, e, p), Handover(p)
      PROVE  elementGrant'.element \in Element /\ Holders(held', "Movement") = {}
  <2>1. held' = WithoutMovers(h) /\ elementGrant' = HandoverGrant(h)
    BY <1>7 DEF EvaluatePlan
  <2>2. held'["Movement"] = [m \in Member |-> NotHeld]
    BY <1>4, <2>1, TypeFacts DEF WithoutMovers
  <2> QED
    BY <2>1, <2>2 DEF Holders, HandoverGrant, NextMover, Element
<1> QED
  BY <1>2, <1>5, <1>6, <1>7

\* A squad tick is a round, or hands the turn over.
LEMMA TickRefines ==
  ASSUME IInv, Tick
  PROVE  Lease!Round \/ Lease!HandOver
<1>1. TypeOK /\ TypeOK'
  BY TickTyped DEF IInv
<1>2. Alive(health') \subseteq Member \ fallen /\ fallen' = fallen
  BY <1>1, TickEffects DEF Alive
<1>3. cap' \in [Type -> Nat] /\ LeaseOf(held') \in [Type -> SUBSET Member]
  BY <1>1 DEF TypeOK, LeaseOf, Holders
<1>4. ASSUME NEW t \in Type, Lease!Fresh(t) # {}
      PROVE  Lease!Fresh(t) \subseteq Alive(health') /\ GrantCount(held', elementGrant', t) <= cap'[t]
  <2>1. Lease!Fresh(t) = Holders(held', t) \ Holders(held, t)
    BY DEF Lease!Fresh
  <2>2. \A m \in Lease!Fresh(t) : m \in Member /\ NewlyHeld(t, m)
    BY <2>1 DEF Holders, NewlyHeld
  <2>3. \A m \in Lease!Fresh(t) :
          m \in Alive(health') /\ GrantCount(held', elementGrant', t) <= cap'[t]
    BY <1>1, <2>2, TickWithinCap
  <2> QED
    BY <1>4, <2>3
<1>5. \A t \in Type : Lease!Out(t)' = GrantCount(held', elementGrant', t)
  <2> SUFFICES ASSUME NEW t \in Type PROVE Lease!Out(t)' = GrantCount(held', elementGrant', t)
    OBVIOUS
  <2>1. Lease!Cardinality(LeaseOf(held')[t]) = Cardinality(Holders(held', t))
    BY SameCount DEF LeaseOf
  <2> QED
    BY <2>1 DEF Lease!Out, GrantCount, LeaseOf
<1>6. Lease!Deal
  BY <1>2, <1>3, <1>4, <1>5 DEF Lease!Deal, LeaseOf
<1>7. LeaseOf(held')["Movement"] = Holders(held', "Movement")
  BY TypeFacts DEF LeaseOf
<1> QED
  BY <1>1, <1>6, <1>7, TickTurns DEF Lease!Round, Lease!HandOver, LeaseOf

\* Time changes no lease.
LEMMA ElapseRefines ==
  ASSUME IInv, Elapse
  PROVE  UNCHANGED Lease!leaseVars
<1>1. TypeOK /\ UNCHANGED <<health, fallen, cap>>
  BY DEF IInv, Elapse, rosterVars
<1>2. \A t \in Type, m \in Member : held'[t][m] = NotHeld <=> held[t][m] = NotHeld
  <2> SUFFICES ASSUME NEW t \in Type, NEW m \in Member
               PROVE  held'[t][m] = NotHeld <=> held[t][m] = NotHeld
    OBVIOUS
  <2>1. held'[t][m] = IF held[t][m] = NotHeld THEN NotHeld ELSE MinOf(held[t][m] + 1, MaxHold[t])
    BY DEF Elapse
  <2>2. held[t][m] # NotHeld => MinOf(held[t][m] + 1, MaxHold[t]) \in Nat
    BY <1>1, TimeFacts DEF TypeOK, MinOf
  <2> QED
    BY <2>1, <2>2 DEF NotHeld
<1>3. \A t \in Type : Holders(held', t) = Holders(held, t)
  BY <1>2 DEF Holders
<1>4. elementGrant'.element = elementGrant.element
  BY <1>1 DEF Elapse, TypeOK
<1> QED
  BY <1>1, <1>3, <1>4 DEF Lease!leaseVars

\* Every step of the economy is a step of the lease, or changes no lease.
LEMMA StepRefines ==
  IInv /\ [Next]_vars => [Lease!LeaseNext]_(Lease!leaseVars)
<1> SUFFICES ASSUME IInv, [Next]_vars PROVE [Lease!LeaseNext]_(Lease!leaseVars)
  OBVIOUS
<1>1. ASSUME NEW m \in Member, NEW t \in Type, GrantOnRequest(m, t) PROVE Lease!Ask(m)
  BY <1>1, GrantOnRequestRefines
<1>2. ASSUME NEW m \in Member, NEW t \in Type, ReleaseToken(m, t) PROVE Lease!GiveBack(m)
  BY <1>2, ReleaseTokenRefines
<1>3. ASSUME NEW m \in Member, NotifyMemberDied(m)
      PROVE  Lease!Fall(m) \/ UNCHANGED Lease!leaseVars
  BY <1>3, NotifyMemberDiedRefines
<1>4. ASSUME NEW m \in Member, PawnDestroyed(m) PROVE Lease!Vanish(m)
  BY <1>4, PawnDestroyedRefines
<1>5. ASSUME Tick PROVE Lease!Round \/ Lease!HandOver
  BY <1>5, TickRefines
<1>6. ASSUME Elapse PROVE UNCHANGED Lease!leaseVars
  BY <1>6, ElapseRefines
<1>7. ASSUME NEW m \in Member, NEW t \in Type, QueueRequest(m, t) PROVE UNCHANGED Lease!leaseVars
  BY <1>7 DEF QueueRequest, rosterVars, Lease!leaseVars
<1>8. ASSUME RequestPlanReevaluation PROVE UNCHANGED Lease!leaseVars
  BY <1>8 DEF RequestPlanReevaluation, rosterVars, tokenVars, Lease!leaseVars
<1>9. ASSUME UNCHANGED vars PROVE UNCHANGED Lease!leaseVars
  BY <1>9 DEF vars, Lease!leaseVars
<1> QED
  BY <1>1, <1>2, <1>3, <1>4, <1>5, <1>6, <1>7, <1>8, <1>9 DEF Next, Lease!LeaseNext

\* The economy with its ages, requests, priorities and plans keeps the promise of TokenLease:
\* tokens are dealt out in rounds and to whoever asks, to the fit and within the limit, and an
\* element gets its turn only when nobody has a movement token of its own.
THEOREM EconomyImplementsLease == Spec => Promise
<1> QED
  BY InitRefines, StepRefines, Invariant, PTL DEF Spec, Promise, Lease!LeaseSpec
=============================================================================
