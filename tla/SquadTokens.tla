---------------------------- MODULE SquadTokens ----------------------------
(***************************************************************************)
(* The token economy of one squad (USquadComponent, layer L1).             *)
(*                                                                         *)
(* A soldier may move, or lay suppressing fire, only while it holds a      *)
(* token.  The squad issues tokens to individuals (RequestToken, and the   *)
(* waiting requests served by TickSquad) or, in the bounding plans, the    *)
(* one movement token to a whole element (Phase_AssignTasks).  It takes    *)
(* them back when they were held too long, when the holder is out of       *)
(* action, when the soldier gives them up, and when the elements swap.     *)
(*                                                                         *)
(* Times are kept as ages, counted in time units by Elapse and saturated   *)
(* at the largest threshold they are compared with.  The plan that         *)
(* Phase_SelectPlan picks is left open: morale, dispersion and scores are  *)
(* data here, and the two overrides may pick a plan at any evaluation.     *)
(***************************************************************************)
EXTENDS Integers, FiniteSets

CONSTANTS
  N,                  \* Members.Num() after registration
  Plans,              \* the plans Phase_SelectPlan may pick
  Rule,               \* USquadPlanRuleSet: a function from (some) plans to rules
  InitialRole,        \* ESquadRole each member registers with
  SuccessionOrder,    \* FSquadMemberEntry::SuccessionOrder
  Reportable,         \* the healths GetSquadStatus may report
  MinHold,            \* TokenMinHoldSec
  MaxHold,            \* SuppressionTokenMaxHoldSec, MovementTokenMaxHoldSec
  BoundMin,           \* BoundMinDurationSec
  BoundMax,           \* BoundMaxDurationSec
  PlanInterval,       \* PlanEvalIntervalSec
  StarvationBonus,    \* StarvationBonusPerSec, in hundredths per time unit
  MaxWait             \* bound on the waiting time that is told apart

Member == 0 .. N - 1
Type == {"Suppression", "Movement"}
Element == {"Alpha", "Bravo"}
Role == {"Leader", "AutomaticRifleman", "Marksman", "Rifleman"}
\* ESquadMemberHealth, and "Gone" for a Pawn whose weak pointer is no longer valid
Health == {"Healthy", "Injured", "Downed", "Dead", "Gone"}

NoElement == "None"
NoRequest == "None"
NotHeld == -1
NotStarted == -1

ASSUME SizeAssumption == N \in Nat \ {0}
ASSUME RuleAssumption ==
  \A p \in DOMAIN Rule :
     /\ Rule[p].perElement \in BOOLEAN
     /\ Rule[p].ratio \in [Type -> 0 .. 100]
     /\ Rule[p].offset \in [Type -> Int]
ASSUME RosterAssumption ==
  /\ InitialRole \in [Member -> Role]
  /\ SuccessionOrder \in [Member -> Int]
  /\ \A m, n \in Member : InitialRole[m] = "Leader" /\ InitialRole[n] = "Leader" => m = n
  /\ Reportable \subseteq Health \ {"Gone"}
  /\ Reportable # {}
ASSUME TimeAssumption ==
  /\ {MinHold, BoundMin, BoundMax, PlanInterval, StarvationBonus, MaxWait} \subseteq Nat
  /\ MaxHold \in [Type -> Nat]
  /\ \A t \in Type : MinHold <= MaxHold[t]
  /\ BoundMin <= BoundMax

VARIABLES
  health,        \* Members[m].Status.Health, "Gone" when Pawn is invalid
  role,          \* Members[m].Role
  fallen,        \* members whose death was notified
  renotified,    \* a fallen member whose Role is still Leader was notified again (history)
  request,       \* RequestedTokenType of a pending request, NoRequest when there is none
  waited,        \* time since TokenRequestedAtSeconds
  held,          \* held[t][m]: age of m's individual grant of type t, or NotHeld
  elementGrant,  \* the grant issued to an element: its element, its age, and the
                 \* members whose suppression grant precedes it in Blackboard.Grants
  cap,           \* Blackboard.SuppressionTokens, Blackboard.MovementTokens
  flag,          \* Assignments[m].bHasSuppressionToken, bHasMovementToken
  plan,          \* Blackboard.CurrentPlan
  mask,          \* MemberMask of the two elements
  mover,         \* MovementTokenElementId
  boundAge,      \* time since LastBoundStartSeconds, NotStarted when that is negative
  evalAge,       \* time since LastPlanEvalSeconds
  planPending    \* bPlanEvalPending

tokenVars == <<request, waited, held, elementGrant, cap, flag>>
planVars == <<plan, mask, mover, boundAge, evalAge, planPending>>
rosterVars == <<health, role, fallen, renotified>>
vars == <<health, role, fallen, renotified, request, waited, held, elementGrant, cap, flag,
          plan, mask, mover, boundAge, evalAge, planPending>>

----------------------------------------------------------------------------
(* Reading the roster and the grants.                                      *)

MinOf(a, b) == IF a < b THEN a ELSE b
MaxOf(a, b) == IF a < b THEN b ELSE a

\* FSquadMemberEntry::IsAlive: the Pawn is valid and neither dead nor downed.
Alive(hl) == {m \in Member : hl[m] \in {"Healthy", "Injured"}}

Holders(h, t) == {m \in Member : h[t][m] # NotHeld}

\* Whether the element grant covers m through the element's mask.
Covered(e, mk, m) == e.element # NoElement /\ m \in mk[e.element]

\* Blackboard.Grants holds an individual grant for m, or one for its element.
HasToken(h, e, mk, m, t) ==
  \/ h[t][m] # NotHeld
  \/ t = "Movement" /\ Covered(e, mk, m)

\* The number of grants of type t, the element's included.
GrantCount(h, e, t) ==
  Cardinality(Holders(h, t))
    + (IF t = "Movement" /\ e.element # NoElement THEN 1 ELSE 0)

\* Both assignment flags of the members in who, set from HasToken.
Reflagged(f, who, h, e, mk) ==
  [t \in Type |-> [m \in Member |->
     IF m \in who THEN HasToken(h, e, mk, m, t) ELSE f[t][m]]]

\* A suppression grant that left the array no longer precedes the element grant.
Pruned(e, h) == [e EXCEPT !.behind = @ \cap Holders(h, "Suppression")]

\* Living members outside command that the succession order puts first.
Heirs(hl, rl) ==
  LET eligible == {m \in Alive(hl) : rl[m] # "Leader"}
  IN  {c \in eligible : \A d \in eligible :
         \/ SuccessionOrder[c] < SuccessionOrder[d]
         \/ SuccessionOrder[c] = SuccessionOrder[d] /\ c <= d}

----------------------------------------------------------------------------
(* Calls from the soldiers: request, release, death.                       *)

\* Variants of an operator, named Bad..., hold the mistakes that the properties must tell
\* from the code; no action uses them.
\* The immediate grant forgets to close the pending request.
BadGrantKeepsRequest(m, t) ==
  /\ m \in Alive(health)
  /\ ~HasToken(held, elementGrant, mask, m, t)
  /\ GrantCount(held, elementGrant, t) < cap[t]
  /\ held' = [held EXCEPT ![t][m] = 0]
  /\ flag' = Reflagged(flag, {m}, held', elementGrant, mask)
  /\ UNCHANGED <<request, waited, elementGrant, cap, rosterVars, planVars>>

\* RequestToken, with a token to spare: granted at once, and any request of m is closed.
GrantOnRequest(m, t) ==
  /\ m \in Alive(health)
  /\ ~HasToken(held, elementGrant, mask, m, t)
  /\ GrantCount(held, elementGrant, t) < cap[t]
  /\ held' = [held EXCEPT ![t][m] = 0]
  /\ request' = [request EXCEPT ![m] = NoRequest]
  /\ waited' = [waited EXCEPT ![m] = 0]
  /\ flag' = Reflagged(flag, {m}, held', elementGrant, mask)
  /\ UNCHANGED <<elementGrant, cap, rosterVars, planVars>>

\* RequestToken, with none to spare: the member's one request slot is taken if it is free.
QueueRequest(m, t) ==
  /\ m \in Alive(health)
  /\ ~HasToken(held, elementGrant, mask, m, t)
  /\ GrantCount(held, elementGrant, t) >= cap[t]
  /\ request[m] = NoRequest
  /\ request' = [request EXCEPT ![m] = t]
  /\ waited' = [waited EXCEPT ![m] = 0]
  /\ UNCHANGED <<held, elementGrant, cap, flag, rosterVars, planVars>>

\* What ReleaseToken leaves of the grants, for the types in ts.
Released(m, ts) == [t \in Type |-> [n \in Member |->
  IF n = m /\ t \in ts THEN NotHeld ELSE held[t][n]]]

\* The request slot survives the release.
BadGiveUp(m, ts) ==
  /\ held' = Released(m, ts)
  /\ elementGrant' = Pruned(elementGrant, held')
  /\ flag' = Reflagged(flag, {m}, held', elementGrant', mask)
  /\ UNCHANGED <<request, waited, cap>>

\* ReleaseToken for every type in ts: the individual grants go, the request slot is
\* cleared whatever type it asks for, and the flags follow.
GiveUp(m, ts) ==
  /\ held' = Released(m, ts)
  /\ elementGrant' = Pruned(elementGrant, held')
  /\ request' = [request EXCEPT ![m] = NoRequest]
  /\ waited' = [waited EXCEPT ![m] = 0]
  /\ flag' = Reflagged(flag, {m}, held', elementGrant', mask)
  /\ UNCHANGED cap

ReleaseToken(m, t) ==
  /\ GiveUp(m, {t})
  /\ UNCHANGED <<rosterVars, planVars>>

\* Every death promotes somebody.
BadSuccession(m, hl) == [n \in Member |-> IF n \in Heirs(hl, role) THEN "Leader" ELSE role[n]]

\* PromoteNewLeader: the first heir of a fallen leader leads.  The dead keep their Role.
Succession(m, hl) == [n \in Member |->
  IF role[m] = "Leader" /\ n \in Heirs(hl, role) THEN "Leader" ELSE role[n]]

\* NotifyMemberDied: both tokens go, and a leader is succeeded.  Nothing stops a second
\* notification of the same death, which finds the dead leader's Role and promotes again.
NotifyMemberDied(m) ==
  /\ fallen' = fallen \cup {m}
  /\ renotified' = (renotified \/ (m \in fallen /\ role[m] = "Leader"))
  /\ health' = [health EXCEPT ![m] = IF @ = "Gone" THEN @ ELSE "Dead"]
  /\ GiveUp(m, Type)
  /\ role' = Succession(m, health')
  /\ planPending' = TRUE
  /\ UNCHANGED <<plan, mask, mover, boundAge, evalAge>>

\* The engine destroys a Pawn: its weak pointer reads as invalid from then on.
PawnDestroyed(m) ==
  /\ health[m] # "Gone"
  /\ health' = [health EXCEPT ![m] = "Gone"]
  /\ UNCHANGED <<role, fallen, renotified, tokenVars, planVars>>

RequestPlanReevaluation ==
  /\ ~planPending
  /\ planPending' = TRUE
  /\ UNCHANGED <<rosterVars, tokenVars, plan, mask, mover, boundAge, evalAge>>

----------------------------------------------------------------------------
(* TickSquad, phase A: the members' status and the tokens.                 *)

\* Statuses the soldiers can report: a dead soldier reports itself dead from then on.
StatusReports ==
  {r \in [Member -> Reportable \cup {"Dead"}] :
     \A m \in Member : IF health[m] = "Dead" \/ m \in fallen THEN r[m] = "Dead"
                       ELSE r[m] \in Reportable}

\* Phase_CollectMemberStatus: the status is pulled from every Pawn that is still there.
Collected(report) == [m \in Member |-> IF health[m] = "Gone" THEN "Gone" ELSE report[m]]

\* A negative offset is not stopped at zero.
BadUpdatedCap(hl) ==
  IF plan \in DOMAIN Rule
  THEN [t \in Type |-> (Cardinality(Alive(hl)) * Rule[plan].ratio[t] + 99) \div 100
                          + Rule[plan].offset[t]]
  ELSE cap

\* The caps of the current plan for the living; a plan without a rule keeps the old ones.
UpdatedCap(hl) ==
  IF plan \in DOMAIN Rule
  THEN LET alive == Cardinality(Alive(hl))
           share(t) == (alive * Rule[plan].ratio[t] + 99) \div 100
       IN  [t \in Type |-> MaxOf(0, share(t) + Rule[plan].offset[t])]
  ELSE cap

\* The longest holding time is forgotten.
BadRevoked(hl, dry, t, m) ==
  /\ held[t][m] >= MinHold
  /\ m \notin Alive(hl) \/ (t = "Suppression" /\ m \in dry)

\* An individual grant is taken back, once it had its minimum, when it had its maximum,
\* when the holder is out of action, or when a suppressor is out of ammunition.
Revoked(hl, dry, t, m) ==
  /\ held[t][m] >= MinHold
  /\ \/ held[t][m] >= MaxHold[t]
     \/ m \notin Alive(hl)
     \/ t = "Suppression" /\ m \in dry

KeptGrants(hl, dry) == [t \in Type |-> [m \in Member |->
  IF held[t][m] # NotHeld /\ Revoked(hl, dry, t, m) THEN NotHeld ELSE held[t][m]]]

ElementRevoked ==
  /\ elementGrant.element # NoElement
  /\ elementGrant.age >= MaxHold["Movement"]

\* elementGrant.age >= MinHold follows: MinHold is at most MaxHold.
KeptElementGrant(h) ==
  IF ElementRevoked THEN [element |-> NoElement, age |-> 0, behind |-> {}]
                    ELSE Pruned(elementGrant, h)

\* The flags wait for the next assignment.
BadFlagsAfterRevocation(h) == flag

\* The flags of a member whose grant is taken back are set on the spot.  The array is
\* walked from its end, so an element grant that is taken back in the same pass is still
\* there, unless the member loses a suppression grant that precedes it in the array.
FlagsAfterRevocation(h) ==
  LET losers == {m \in Member : \E t \in Type : held[t][m] # h[t][m]}
      after  == {m \in losers : ElementRevoked /\ m \in elementGrant.behind
                                  /\ h["Suppression"][m] = NotHeld}
  IN  [Reflagged(flag, losers, h, elementGrant, mask) EXCEPT
         !["Movement"] = [m \in Member |->
             IF m \in after THEN h["Movement"][m] # NotHeld ELSE @[m]]]

\* Role weight and health factor of a request, in hundredths.
Weight(hl, m, t) ==
  IF t = "Movement" THEN IF hl[m] = "Injured" THEN 140 ELSE 100
  ELSE LET byRole == CASE role[m] = "AutomaticRifleman" -> 150
                       [] role[m] = "Marksman"          -> 120
                       [] OTHER                         -> 100
       IN  IF hl[m] = "Injured" THEN (byRole * 6) \div 10 ELSE byRole

\* The request that the priority loop picks first; the lower index wins a tie.
Precedes(hl, t, a, b) ==
  LET priority(m) == Weight(hl, m, t) + StarvationBonus * waited[m]
  IN  \/ priority(a) > priority(b)
      \/ priority(a) = priority(b) /\ a < b

\* Individual movement tokens are not served while the plan issues them to elements.
Candidates(hl, h, e, t) ==
  {m \in Alive(hl) :
     /\ request[m] = t
     /\ ~HasToken(h, e, mask, m, t)
     /\ t = "Movement" /\ plan \in DOMAIN Rule => ~Rule[plan].perElement}

\* The members the priority loop serves: as many as the cap leaves room for, best first.
Served(hl, h, e, t) ==
  LET waiting == Candidates(hl, h, e, t)
      room    == MaxOf(0, UpdatedCap(hl)[t] - GrantCount(h, e, t))
  IN  {S \in SUBSET waiting :
         /\ Cardinality(S) = MinOf(room, Cardinality(waiting))
         /\ \A w \in S, l \in waiting \ S : Precedes(hl, t, w, l)}

----------------------------------------------------------------------------
(* TickSquad, phases B and C: the plan, the elements and the assignments.  *)

\* Every other member of S, from the first.
Alternate(S) == {m \in S : Cardinality({n \in S : n < m}) % 2 = 0}

\* The last living leader of the array, as a set of at most one.
LeaderOf(hl) ==
  LET leaders == {m \in Alive(hl) : role[m] = "Leader"}
  IN  {m \in leaders : \A n \in leaders : n <= m}

\* The heir is dealt out a second time.
BadRest(hl) == Alive(hl) \ LeaderOf(hl)

Rest(hl) == Alive(hl) \ (LeaderOf(hl) \cup Heirs(hl, role))

\* Phase_FormElements: the leader and the first heir apart, then the automatic riflemen
\* and the others dealt out in turn.
FormElements(hl) ==
  LET gunners == {m \in Rest(hl) : role[m] = "AutomaticRifleman"}
      alpha   == Alternate(gunners) \cup Alternate(Rest(hl) \ gunners)
  IN  [x \in Element |-> IF x = "Alpha" THEN LeaderOf(hl) \cup alpha
                         ELSE Heirs(hl, role) \cup (Rest(hl) \ alpha)]

IssuesPerElement(p) == p \in DOMAIN Rule /\ Rule[p].perElement

\* The bound ends when it lasted too long; the other ends are not implemented.
BoundTooLong == boundAge # NotStarted /\ boundAge >= BoundMax
BoundMinElapsed == boundAge = NotStarted \/ boundAge >= BoundMin

\* Nothing ends a bound.
BadHandover(p) == IssuesPerElement(p) /\ mover = NoElement

\* The movement token passes to the other element, or to the first one.
Handover(p) ==
  /\ IssuesPerElement(p)
  /\ mover = NoElement \/ (BoundMinElapsed /\ BoundTooLong)

\* The element that moves next, and the grant that it then gets; every individual movement
\* grant goes.
NextMover == IF mover = "Alpha" THEN "Bravo" ELSE "Alpha"
BadHandoverGrant(h) ==
  [element |-> IF mover = NoElement THEN "Alpha" ELSE mover, age |-> 0,
   behind |-> Holders(h, "Suppression")]
HandoverGrant(h) == [element |-> NextMover, age |-> 0, behind |-> Holders(h, "Suppression")]
\* The movers keep their own grants beside the element's.
BadWithoutMovers(h) == h
WithoutMovers(h) == [h EXCEPT !["Movement"] = [m \in Member |-> NotHeld]]

PlanEvaluationDue == planPending \/ evalAge >= PlanInterval
EvaluationDone == planPending' = FALSE /\ evalAge' = 0

\* No evaluation in this tick: phase A's results stand.
KeepPlan(h, e, f) ==
  /\ ~PlanEvaluationDue
  /\ held' = h
  /\ elementGrant' = e
  /\ flag' = f
  /\ UNCHANGED planVars

\* Phase_SelectPlan: another plan, or no change.
Selectable == Plans \cup {plan}

\* Phase_PrepareSpatial after the change to p: a flank for which no corridor can be built
\* falls back to the base of fire.
Prepared(p) == IF p # plan /\ p = "Flank" THEN {p, "BaseOfFire"} ELSE {p}

\* The plan becomes p; on a change the elements are formed, then the tasks are assigned,
\* then the space is prepared, which marks a bound as not started.
EvaluatePlan(hl, h, e, p) ==
  LET masks  == IF p = plan THEN mask ELSE FormElements(hl)
      grants == IF Handover(p) THEN WithoutMovers(h) ELSE h
      bound  == IF Handover(p) THEN HandoverGrant(h) ELSE e
  IN  /\ PlanEvaluationDue
      /\ held' = grants
      /\ elementGrant' = bound
      /\ mask' = masks
      /\ flag' = Reflagged(flag, Member, grants, bound, masks)
      /\ mover' = IF Handover(p) THEN NextMover
                  ELSE IF IssuesPerElement(p) THEN mover ELSE NoElement
      /\ boundAge' = IF p # plan /\ p = "BoundingOverwatch" THEN NotStarted
                     ELSE IF Handover(p) THEN 0 ELSE boundAge
      /\ plan' \in Prepared(p)
      /\ EvaluationDone

\* One squad tick: the status reports come in, tokens are taken back, the caps follow the
\* living, the waiting requests are served, and the plan is evaluated if that is due.
TickSquad(report, dry) ==
  LET hl   == Collected(report)
      kept == KeptGrants(hl, dry)
      e    == KeptElementGrant(kept)
  IN  /\ health' = hl
      /\ cap' = UpdatedCap(hl)
      /\ UNCHANGED <<role, fallen, renotified>>
      /\ \E suppressors \in Served(hl, kept, e, "Suppression"),
            movers \in Served(hl, kept, e, "Movement") :
           LET served == suppressors \cup movers
               h == [t \in Type |-> [m \in Member |->
                       IF m \in (IF t = "Suppression" THEN suppressors ELSE movers)
                       THEN 0 ELSE kept[t][m]]]
               f == Reflagged(FlagsAfterRevocation(kept), served, h, e, mask)
           IN  /\ request' = [m \in Member |-> IF m \in served THEN NoRequest ELSE request[m]]
               /\ waited' = [m \in Member |-> IF m \in served THEN 0 ELSE waited[m]]
               /\ \/ KeepPlan(h, e, f)
                  \/ \E p \in Selectable : EvaluatePlan(hl, h, e, p)

Tick ==
  \E report \in StatusReports, dry \in SUBSET Holders(held, "Suppression") :
    TickSquad(report, dry)

----------------------------------------------------------------------------
(* Time and the specification.                                             *)

\* One time unit passes: every age grows up to the largest threshold it is compared with,
\* and a waiting time up to MaxWait.
Elapse ==
  /\ held' = [t \in Type |-> [m \in Member |->
                IF held[t][m] = NotHeld THEN NotHeld ELSE MinOf(held[t][m] + 1, MaxHold[t])]]
  /\ elementGrant' = IF elementGrant.element = NoElement THEN elementGrant
                     ELSE [elementGrant EXCEPT !.age = MinOf(@ + 1, MaxHold["Movement"])]
  /\ waited' = [m \in Member |->
                  IF request[m] = NoRequest THEN 0 ELSE MinOf(waited[m] + 1, MaxWait)]
  /\ boundAge' = IF boundAge = NotStarted THEN NotStarted ELSE MinOf(boundAge + 1, BoundMax)
  /\ evalAge' = MinOf(evalAge + 1, PlanInterval)
  /\ UNCHANGED <<rosterVars, request, cap, flag, plan, mask, mover, planPending>>

\* After InitializeSquad and the registrations, before the first tick.
Init ==
  /\ health = [m \in Member |-> "Healthy"]
  /\ role = InitialRole
  /\ fallen = {}
  /\ renotified = FALSE
  /\ request = [m \in Member |-> NoRequest]
  /\ waited = [m \in Member |-> 0]
  /\ held = [t \in Type |-> [m \in Member |-> NotHeld]]
  /\ elementGrant = [element |-> NoElement, age |-> 0, behind |-> {}]
  /\ cap = [t \in Type |-> 0]
  /\ flag = [t \in Type |-> [m \in Member |-> FALSE]]
  /\ plan = "None"
  /\ mask = [x \in Element |-> {}]
  /\ mover = NoElement
  /\ boundAge = NotStarted
  /\ evalAge = PlanInterval
  /\ planPending = TRUE

Next ==
  \/ \E m \in Member, t \in Type : GrantOnRequest(m, t)
  \/ \E m \in Member, t \in Type : QueueRequest(m, t)
  \/ \E m \in Member, t \in Type : ReleaseToken(m, t)
  \/ \E m \in Member : NotifyMemberDied(m)
  \/ \E m \in Member : PawnDestroyed(m)
  \/ RequestPlanReevaluation
  \/ Tick
  \/ Elapse

Spec == Init /\ [][Next]_vars

\* GetDesiredTickHz: a squad with nobody alive asks for no ticks (it may still get the ones
\* the round robin deals out for the other squads).
Scheduled == Alive(health) # {}

\* The subsystem keeps ticking a squad that asks for it, and the clock keeps running.
FairSpec == Spec /\ WF_vars(Scheduled /\ Tick) /\ WF_vars(Elapse)

----------------------------------------------------------------------------
(* Properties.                                                             *)

\* Every variable has its type: the grants' ages stay within their maximum, and the
\* element grant only remembers members of the squad.
TypeOK ==
  /\ health \in [Member -> Health]
  /\ role \in [Member -> Role]
  /\ fallen \subseteq Member
  /\ renotified \in BOOLEAN
  /\ request \in [Member -> Type \cup {NoRequest}]
  /\ waited \in [Member -> 0 .. MaxWait]
  /\ held \in [Type -> [Member -> Int]]
  /\ \A t \in Type, m \in Member : held[t][m] \in {NotHeld} \cup 0 .. MaxHold[t]
  /\ elementGrant \in [element : Element \cup {NoElement}, age : 0 .. MaxHold["Movement"],
                       behind : SUBSET Member]
  /\ cap \in [Type -> Nat]
  /\ flag \in [Type -> [Member -> BOOLEAN]]
  /\ plan \in Plans \cup {"None", "BaseOfFire"}
  /\ mask \in [Element -> SUBSET Member]
  /\ mover \in Element \cup {NoElement}
  /\ boundAge \in {NotStarted} \cup 0 .. BoundMax
  /\ evalAge \in 0 .. PlanInterval
  /\ planPending \in BOOLEAN

\* No member waits in the request queue for a token it holds itself (RequestToken returns
\* early for a holder, and both ways of granting close the request).
NoRequestWhileHolding ==
  \A m \in Member, t \in Type : request[m] = t => held[t][m] = NotHeld

\* The element that holds the movement token is the one the squad takes to be moving.
GrantFollowsMover ==
  elementGrant.element # NoElement /\ mover # NoElement => elementGrant.element = mover

\* The flags the soldiers read never miss a token, and a suppression flag never invents
\* one.  A movement flag without a token is left only by an element grant that ran out.
FlagsCoverTokens ==
  \A m \in Member :
     /\ flag["Suppression"][m] <=> HasToken(held, elementGrant, mask, m, "Suppression")
     /\ HasToken(held, elementGrant, mask, m, "Movement") => flag["Movement"][m]
     /\ flag["Movement"][m] /\ ~HasToken(held, elementGrant, mask, m, "Movement") =>
          elementGrant.element = NoElement /\ \E x \in Element : m \in mask[x]

\* A soldier whose death was notified holds no token of its own and waits for none, however
\* the calls that were under way are ordered around its death.
FallenHoldNothing ==
  \A m \in fallen : request[m] = NoRequest /\ \A t \in Type : held[t][m] = NotHeld

\* Succession makes a second leader only by a repeated notification: unless the death of a
\* fallen leader was notified again, at most one of the soldiers not notified dead leads.
OneLeader ==
  ~renotified =>
    \A m, n \in Member \ fallen : role[m] = "Leader" /\ role[n] = "Leader" => m = n

\* No soldier is in two elements, whatever deaths and successions came before.
ElementsDisjoint == mask["Alpha"] \cap mask["Bravo"] = {}

NewlyHeld(t, m) == held[t][m] = NotHeld /\ held'[t][m] # NotHeld

\* An individual grant is issued only to a living member, and never lifts the number of
\* grants of its type above the cap in force.
IssuedWithinCap ==
  [][\A t \in Type, m \in Member : NewlyHeld(t, m) =>
       /\ m \in Alive(health')
       /\ GrantCount(held', elementGrant', t) <= cap'[t]]_vars

\* Tokens circulate: no soldier keeps a token for ever, because its maximum holding time
\* ends it in some tick (Phase_UpdateTokens), whatever the soldier does, while anybody in
\* the squad is alive.
TokensCirculate ==
  \A t \in Type, m \in Member :
    held[t][m] # NotHeld ~> (held[t][m] = NotHeld \/ ~Scheduled)

\* The plans whose elements are to move in turns (PLAN.md, the table of token units).
MovesInTurns == plan \in {"BoundingOverwatch", "Withdraw"} /\ IssuesPerElement(plan)

\* While a living squad stays in such plans, each element gets its turn again and again (the
\* handover of Phase_AssignTasks).
ElementsAlternate ==
  <>[](MovesInTurns /\ Scheduled) => \A x \in Element : []<>(mover = x)

\* In a flank the fixing element, the first one, has no movement token: only the maneuver
\* element moves (Phase_AssignTasks says so of its tasks).
FixersStay == plan = "Flank" => elementGrant.element # "Alpha"

\* The starvation bonus keeps its promise: a living soldier does not wait for ever for a
\* token of a type that the squad has to give.
NoStarvation ==
  \A t \in Type, m \in Member :
    <>[](m \in Alive(health) /\ cap[t] > 0) => []<>(request[m] # t)

\* The token economy implements what it promises (module TokenLease).
Lease == INSTANCE TokenLease WITH
           fit <- Alive(health),
           limit <- cap,
           lease <- [t \in Type |-> Holders(held, t)],
           turn <- elementGrant.element,
           None <- NoElement
Promise == Lease!LeaseSpec
=============================================================================
