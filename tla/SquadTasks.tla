------------------------------ MODULE SquadTasks ------------------------------
(***************************************************************************)
(* The StateTree nodes through which a soldier uses its squad: the         *)
(* evaluator that copies its assignment (FSTE_SquadContext) and the task   *)
(* that holds a token while a state lasts (FSTT_AcquireSquadToken).        *)
(*                                                                         *)
(* The squad appears as far as the nodes can see it: who holds a token,    *)
(* who waits, which task each member has and the revision it is marked     *)
(* with.  SquadTokens has the rest (caps, ages, priorities, elements).     *)
(***************************************************************************)
EXTENDS Integers, FiniteSets

CONSTANTS
  Member,           \* member indices of the squad
  Type,             \* token types in use, among "Movement" and "Suppression"
  Plan,             \* plans in use
  PerElement,       \* plans that issue movement tokens to an element
  Bravo,            \* members of the second element; the others are Alpha
  TokenCap,         \* [Type -> Nat]: tokens of each type
  MaxRevision,      \* bound on AssignmentRevision
  Follower          \* members whose evaluator is followed: nobody else reads its copy

ASSUME TypeAssumption == Type \subseteq {"Movement", "Suppression"}
ASSUME CapAssumption == TokenCap \in [Type -> Nat]
ASSUME MemberAssumption == IsFiniteSet(Member) /\ Bravo \subseteq Member /\ Follower \subseteq Member
ASSUME PlanAssumption == PerElement \subseteq Plan /\ ("Flank" \in Plan => "BaseOfFire" \in Plan)
ASSUME BoundAssumption == MaxRevision \in Nat

None == "None"
Element == {"Alpha", "Bravo"}
Task ==
  {"Bound", "Overwatch", "Withdraw", "RearGuard", "Maneuver", "Suppress", "Regroup", None}

VARIABLES
  plan,         \* Blackboard.CurrentPlan
  mover,        \* MovementTokenElementId
  revision,     \* AssignmentRevision
  live,         \* [Member -> [plan, task, revision]]: Assignments
  holders,      \* [Type -> SUBSET Member]: the grants to single members
  elementGrant, \* the element with a movement grant
  request,      \* [Member -> Type or None]: the member's one request slot
  alive,        \* members whose death was not notified
  resolves,     \* members whose controller leads to the squad (ResolveSquad)
  seen,         \* [Member -> [plan, task, revision]]: the evaluator's copy
  node,         \* [Member -> [type, status]]: the task that holds a token
  \* History, read by the properties alone:
  leaked,       \* <<member, type>> left behind by an ExitState without a squad
  early         \* revisions pushed before the assignments had the plan

squadVars == <<plan, mover, revision, live, alive, early>>
tokenVars == <<holders, elementGrant, request>>
soldierVars == <<resolves, seen, node>>
vars == <<squadVars, tokenVars, soldierVars, leaked>>

Assignment == [plan : Plan \cup {None}, task : Task, revision : 0 .. MaxRevision]
NoAssignment == [plan |-> None, task |-> None, revision |-> 0]
Outside == [type |-> None, status |-> "Out"]

\* A task without a squad at its entry is "Free" of tokens; one that failed is "Leaving".
Status == {"Out", "Free", "Waiting", "Holding", "Leaving"}

----------------------------------------------------------------------------
(* The squad's answers.                                                    *)

ElementOf(m) == IF m \in Bravo THEN "Bravo" ELSE "Alpha"

\* HasToken, of a member and of its element.
Holds(own, ofElement, m, t) ==
  m \in own[t] \/ (t = "Movement" /\ ofElement = ElementOf(m))

HasToken(m, t) == Holds(holders, elementGrant, m, t)

GrantCount(own, ofElement, t) ==
  Cardinality(own[t]) + (IF t = "Movement" /\ ofElement # None THEN 1 ELSE 0)

\* Variants of an operator, named Bad..., hold the mistakes that the properties must tell
\* from the code; no action uses them.
\* One token too many.
BadFree(t) == GrantCount(holders, elementGrant, t) <= TokenCap[t]

Free(t) == GrantCount(holders, elementGrant, t) < TokenCap[t]

\* What RequestToken returns.
Obtains(m, t) == m \in alive /\ (HasToken(m, t) \/ Free(t))

\* RequestToken: a free token at once, or a place in the queue unless the slot is taken.
RequestToken(m, t) ==
  IF m \notin alive \/ HasToken(m, t)
    THEN UNCHANGED <<holders, request>>
    ELSE IF Free(t)
      THEN /\ holders' = [holders EXCEPT ![t] = @ \cup {m}]
           /\ request' = [request EXCEPT ![m] = None]
      ELSE /\ request' = [request EXCEPT ![m] = IF @ = None THEN t ELSE @]
           /\ UNCHANGED holders

\* The place in the queue is kept.
BadReleaseToken(m, t) ==
  /\ holders' = [holders EXCEPT ![t] = @ \ {m}]
  /\ UNCHANGED request

\* ReleaseToken clears the slot, whichever type waits in it.
ReleaseToken(m, t) ==
  /\ holders' = [holders EXCEPT ![t] = @ \ {m}]
  /\ request' = [request EXCEPT ![m] = None]

\* A leak ends when the token is back and nobody waits for it any more.
StillOut(pairs) == {p \in pairs : p[1] \in holders'[p[2]] \/ request'[p[1]] = p[2]}

\* A death that is notified again finds nothing to take.
NotifyMemberDied(m) ==
  /\ alive' = alive \ {m}
  /\ holders' = [t \in Type |-> holders[t] \ {m}]
  /\ request' = [request EXCEPT ![m] = None]
  /\ leaked' = StillOut(leaked)
  /\ UNCHANGED <<plan, mover, revision, live, early, elementGrant, soldierVars>>

\* ReceiveOrder of HoldFire: a new revision of what is there.
HoldFire ==
  /\ revision < MaxRevision
  /\ revision' = revision + 1
  /\ live' = [m \in Member |-> [live[m] EXCEPT !.revision = revision + 1]]
  /\ early' = IF \E m \in Member : live[m].plan # plan THEN early \cup {revision + 1} ELSE early
  /\ UNCHANGED <<plan, mover, alive, tokenVars, soldierVars, leaked>>

----------------------------------------------------------------------------
(* The squad's tick, seen from the nodes.                                  *)

\* The switch of Phase_AssignTasks.
TaskOf(p, m, moving, suppressing) ==
  CASE p = "BoundingOverwatch" -> IF moving THEN "Bound" ELSE "Overwatch"
    [] p = "Withdraw" -> IF moving THEN "Withdraw" ELSE "RearGuard"
    [] p = "Flank" -> IF m \in Bravo THEN "Maneuver" ELSE "Suppress"
    [] p = "BaseOfFire" -> IF suppressing THEN "Suppress" ELSE "Overwatch"
    [] p = "Regroup" -> "Regroup"
    [] OTHER -> "Overwatch"

\* Phase_AssignTasks gives every assignment the present revision, new or not.
Assigned(p, element, own, number) ==
  [m \in Member |->
    [plan |-> p,
     task |-> TaskOf(p, m, element = ElementOf(m), m \in own["Suppression"]),
     revision |-> number]]

\* Phase_UpdateTokens: grants run out, then the queue is served; which ones is settled in
\* SquadTokens by ages and priorities.  Movement is not issued to single members under a
\* per-element plan.
Kept(lost) == [t \in Type |-> holders[t] \ {m \in Member : <<m, t>> \in lost}]

Queue(own, ofElement, t) ==
  {m \in alive : request[m] = t /\ ~Holds(own, ofElement, m, t)}

Serves(own, ofElement, t, chosen) ==
  /\ chosen \subseteq Queue(own, ofElement, t)
  /\ IF t = "Movement" /\ plan \in PerElement
       THEN chosen = {}
       ELSE \/ chosen = Queue(own, ofElement, t)
                 /\ Cardinality(chosen) + GrantCount(own, ofElement, t) <= TokenCap[t]
            \/ /\ chosen # Queue(own, ofElement, t)
               /\ \/ Cardinality(chosen) + GrantCount(own, ofElement, t) = TokenCap[t]
                  \/ chosen = {} /\ GrantCount(own, ofElement, t) > TokenCap[t]

\* The revision is not counted up for a new plan.
BadPushed(p) == revision

\* Phase_SelectPlan pushes a new revision when it changes the plan.
Pushed(p) == IF p = plan THEN revision ELSE revision + 1

\* Phase_AssignTasks: the first element, and then the other one, when the bound has lasted
\* long enough; a handover takes all movement grants.
NextMover == IF mover = "Alpha" THEN "Bravo" ELSE "Alpha"

Hands(p, over) ==
  IF p \in PerElement
    THEN over \/ mover # None
    ELSE ~over

\* The tick without an evaluation of the plan.
TokensTick(own, ofElement) ==
  /\ holders' = own
  /\ elementGrant' = ofElement
  /\ UNCHANGED <<plan, mover, revision, live, early>>

\* The tick with one: p is selected, the tasks are assigned, and a flank without a corridor
\* falls back to a base of fire, which marks the assignments with a revision of its own but
\* leaves their tasks.
PlanTick(own, ofElement, p, over, corridor) ==
  LET element == IF p \notin PerElement THEN None ELSE IF over THEN NextMover ELSE mover
      after == IF over THEN [t \in Type |-> IF t = "Movement" THEN {} ELSE own[t]] ELSE own
      fails == p = "Flank" /\ p # plan /\ ~corridor
      number == IF fails THEN Pushed(p) + 1 ELSE Pushed(p)
  IN /\ Hands(p, over)
     /\ number <= MaxRevision
     /\ plan' = IF fails THEN "BaseOfFire" ELSE p
     /\ mover' = element
     /\ revision' = number
     /\ holders' = after
     /\ elementGrant' = IF over THEN element ELSE ofElement
     /\ live' = Assigned(p, element, after, number)
     /\ early' = IF fails THEN early \cup {number} ELSE early

SquadTick ==
  \E lost \in SUBSET {p \in Member \X Type : p[1] \in holders[p[2]]},
     chosen \in [Type -> SUBSET Member], ofElement \in {None, elementGrant} :
    LET kept == Kept(lost)
        own == [t \in Type |-> kept[t] \cup chosen[t]]
    IN /\ \A t \in Type : Serves(kept, ofElement, t, chosen[t])
       /\ request' = [m \in Member |->
            IF \E t \in Type : m \in chosen[t] THEN None ELSE request[m]]
       /\ \/ TokensTick(own, ofElement)
          \/ \E p \in Plan, over \in BOOLEAN, corridor \in BOOLEAN :
               PlanTick(own, ofElement, p, over, corridor)
       /\ leaked' = StillOut(leaked)
       /\ UNCHANGED <<alive, soldierVars>>

----------------------------------------------------------------------------
(* The soldier's tree.                                                     *)

\* FSTE_SquadContext::Tick; the token flags, copied in any case, are left out.
EvaluatorTick(m) ==
  /\ m \in resolves \cap Follower
  /\ live[m].revision # seen[m].revision
  /\ seen' = [seen EXCEPT ![m] = live[m]]
  /\ UNCHANGED <<squadVars, tokenVars, resolves, node, leaked>>

\* FSTT_AcquireSquadToken::EnterState; failIfUnavailable is its parameter.
EnterState(m, t, failIfUnavailable) ==
  /\ node[m].status = "Out"
  /\ IF m \notin resolves
       THEN /\ node' = [node EXCEPT ![m] = [type |-> t, status |-> "Free"]]
            /\ UNCHANGED <<holders, request>>
       ELSE /\ RequestToken(m, t)
            /\ node' = [node EXCEPT ![m] = [type |-> t, status |->
                 IF Obtains(m, t) THEN "Holding"
                 ELSE IF failIfUnavailable THEN "Leaving" ELSE "Waiting"]]
  /\ leaked' = StillOut(IF m \in resolves THEN leaked \ {<<m, t>>} ELSE leaked)
  /\ UNCHANGED <<squadVars, elementGrant, resolves, seen>>

\* Tick of a task that waits: it asks again.
WaitingTick(m) ==
  /\ node[m].status = "Waiting"
  /\ m \in resolves
  /\ RequestToken(m, node[m].type)
  /\ node' = IF Obtains(m, node[m].type) THEN [node EXCEPT ![m].status = "Holding"] ELSE node
  /\ leaked' = StillOut(leaked)
  /\ UNCHANGED <<squadVars, elementGrant, resolves, seen>>

\* Tick of a task whose token the squad has taken: the task fails.
RevokedTick(m) ==
  /\ node[m].status = "Holding"
  /\ m \in resolves
  /\ ~HasToken(m, node[m].type)
  /\ node' = [node EXCEPT ![m].status = "Leaving"]
  /\ UNCHANGED <<squadVars, tokenVars, resolves, seen, leaked>>

\* ExitState gives the token back if the squad can still be found.
ExitState(m) ==
  /\ node[m].status # "Out"
  /\ node' = [node EXCEPT ![m] = Outside]
  /\ IF node[m].status # "Free" /\ m \in resolves
       THEN /\ ReleaseToken(m, node[m].type)
            /\ leaked' = StillOut(leaked)
       ELSE /\ UNCHANGED <<holders, request>>
            /\ leaked' = StillOut(IF node[m].status = "Free" THEN leaked
                                  ELSE leaked \cup {<<m, node[m].type>>})
  /\ UNCHANGED <<squadVars, elementGrant, resolves, seen>>

\* The controller loses its Pawn, or the Pawn its entry in the subsystem's table.
LosePawn(m) ==
  /\ m \in resolves
  /\ resolves' = resolves \ {m}
  /\ UNCHANGED <<squadVars, tokenVars, seen, node, leaked>>

\* The tree starts again with the Pawn (TreeStart).
TreeStart(m) ==
  /\ m \notin resolves
  /\ node[m].status = "Out"
  /\ resolves' = resolves \cup {m}
  /\ seen' = [seen EXCEPT ![m] = NoAssignment]
  /\ UNCHANGED <<squadVars, tokenVars, node, leaked>>

Init ==
  /\ plan = None
  /\ mover = None
  /\ revision = 0
  /\ live = [m \in Member |-> NoAssignment]
  /\ holders = [t \in Type |-> {}]
  /\ elementGrant = None
  /\ request = [m \in Member |-> None]
  /\ alive = Member
  /\ resolves = Member
  /\ seen = [m \in Member |-> NoAssignment]
  /\ node = [m \in Member |-> Outside]
  /\ leaked = {}
  /\ early = {}

Next ==
  \/ SquadTick
  \/ HoldFire
  \/ \E m \in Member :
       \/ NotifyMemberDied(m)
       \/ EvaluatorTick(m)
       \/ \E t \in Type, failIfUnavailable \in BOOLEAN : EnterState(m, t, failIfUnavailable)
       \/ WaitingTick(m)
       \/ RevokedTick(m)
       \/ ExitState(m)
       \/ LosePawn(m)
       \/ TreeStart(m)

Spec == Init /\ [][Next]_vars

----------------------------------------------------------------------------
(* Properties.                                                             *)

\* Every variable has its type; single grants never exceed the cap.
TypeOK ==
  /\ plan \in Plan \cup {None} /\ mover \in Element \cup {None}
  /\ revision \in 0 .. MaxRevision
  /\ live \in [Member -> Assignment] /\ seen \in [Member -> Assignment]
  /\ holders \in [Type -> SUBSET Member]
  /\ \A t \in Type : Cardinality(holders[t]) <= TokenCap[t]
  /\ elementGrant \in Element \cup {None}
  /\ request \in [Member -> Type \cup {None}]
  /\ alive \subseteq Member /\ resolves \subseteq Member
  /\ node \in [Member -> [type : Type \cup {None}, status : Status]]
  /\ leaked \subseteq Member \X Type
  /\ early \subseteq 1 .. MaxRevision

\* Whatever the squad grants or queues between two ticks of the tree, a soldier outside the
\* state that uses a token neither holds it nor waits for it, unless it left that state
\* when its squad could not be found.
NoStrayToken ==
  \A m \in Member, t \in Type :
    (m \in holders[t] \/ request[m] = t) =>
      \/ node[m].type = t /\ node[m].status \in {"Waiting", "Holding", "Leaving"}
      \/ <<m, t>> \in leaked

\* A soldier that has copied the present revision knows the present plan: the plan never
\* changes under a revision, except under one that was pushed before its assignments
\* were made, as after a flank that failed.
PlanIsCurrent ==
  \A m \in Member :
    (seen[m].revision = live[m].revision /\ seen[m].revision \notin early) =>
      seen[m].plan = live[m].plan

\* The same of the task, which is what the revision is for.
TaskIsCurrent ==
  \A m \in Member :
    seen[m].revision = live[m].revision => seen[m].task = live[m].task
=============================================================================
