# Verification of the soldier AI drafts and the UDP mock-up

The repository holds weekly reports, designs and measurements, and among them three bodies of
code: the C++ drafts of a soldier AI for Unreal Engine (`src/titan/soldier_ai_lab`), a UDP
protocol client with its mock server (`src/titan/rc_mockup_tools/udp_protocol_client`), and
small tools around a NATS bus.  This directory models the parts of that code in which the
order of events decides what is right, checks them with TLC on small instances, and proves
the main invariants with TLAPS for every value of the constants.

## 1. Inventory

| Part | State | Operations | Interacts through |
|---|---|---|---|
| Squad, L1 (`USquadComponent`) | roster, blackboard (grants, caps, elements, queues), assignments, plan and timers | `RegisterMember`, `NotifyMemberDied`, `RequestToken`, `ReleaseToken`, `TickSquad`, `SubmitContactReport`, slot claims, fire lanes, `ReceiveOrder` | called by the soldiers at any time and by the squad scheduler; pulls status from the Pawns |
| Squad scheduler (`USquadSubsystem`) | squads, cursor, tick credits | `Tick`, `CreateSquad`, member lookup | the engine's frame; calls `TickSquad` |
| StateTree nodes | cached assignment and revision, token task, claim task | evaluator, `EnterState`, `Tick`, `ExitState` | read and call the squad |
| Perception, L2 (`USoldierPerceptionComponent`) | threat memories, primary target | `UpdatePerception`, damage, noise, shared reports, `ForgetTarget` | its scheduler, the squad's reports, the brain |
| Perception scheduler (`USoldierPerceptionSubsystem`) | registered components, cursor, when each is due | `RegisterSoldier`, `UnregisterSoldier`, `Tick` | the engine's frame; `BeginPlay` and `EndPlay` |
| Brain (`USoldierBrainComponent`) | current intent, scoring inputs | `TickComponent`, `SetScoringInput`, `RequestImmediateReevaluation` | reads perception; broadcasts the intent |
| Cover (`USoldierCoverSubsystem`) | cover cache, recent occupancy, query tokens | query tokens, occupancy, scores | soldiers' queries |
| UDP protocol | sockets' buffers, retry counters, drop hooks, statistics | `request`, `send_event`, two server loops, the hooks | UDP between client and server threads |
| HQ stub | report queues, scenario step | `wait_for`, `on_report`, `run_scenario` | NATS |

What is hard in this code:

* **Calls between ticks.**  The soldiers request and release tokens, report contacts, die and
  lose their Pawns between the squad's ticks; the tick reads all of it at once, in a fixed order
  of phases.
* **Copies.**  The token flags of an assignment, the assignment cached by a StateTree, the
  squad's book of known threats, the inputs of a brain and the health in the roster are copies
  that are renewed at their own pace.
* **Turns.**  Tokens, elements, components and squads take turns, under caps, credits and budgets,
  by cursors, ages and bonuses: the question is whether everybody gets one.
* **Order.**  Reports are delayed by the radio, leave their queue out of order, and compete with
  what a soldier saw itself.
* **Answers without identity.**  The UDP envelope has no field that ties an answer to a call,
  on a network that loses and reorders, with retries.
* **Weak pointers.**  The engine clears them at any time: a Pawn, a target or a squad is not there
  any more when a state is left, a report delivered or a target compared.

`PROJECT.json` lists these hazards line by line.

What makes each part correct:

* *Squad*: a token has at most one reason to exist and its holder can use it; the dead hold
  nothing; one leader, unless a death is notified twice; two disjoint elements; the flags tell the truth; caps hold when a token
  is issued; tokens and elements keep changing hands.
* *Reports*: every delivery meets one end; a tick delivers what is due; the squad's book says the
  last thing reported.
* *StateTree nodes*: no token outlives the state that asked for it; a copied assignment is true.
* *Squad scheduler*: a squad in action is ticked again and again, a silent one wakes up.
* *Memory*: hearsay is no certainty, a late report does not move what was seen later, the silent
  are forgotten, listeners know the target; nobody is aimed at in whom the soldier does not believe.
* *Brain*: the best intent is taken up; nobody deals with a target that is gone.
* *Cover*: the dead use nothing up; a place just taken is held against its soldier.
* *UDP*: every call returns; an answer is real and used once; an answer belongs to the call;
  the counters agree with what happened.
* *Perception scheduler*: everybody is updated again and again, in turn; an update integrates
  the time that passed.

## 2. Modules

```
 engine frame
   |--> SquadScheduler ------ ticks -----> SquadTokens  <-- SquadTokens_proofs
   |                            |            | implements TokenLease
   |                            |--------> SquadTasks   <-- SquadTasks_proofs   (StateTree nodes)
   |                            '--------> ContactReports --- reports ---.    <-- ContactReports_proofs
   |--> PerceptionScheduler -- updates --> ThreatMemory <----------------'    <-- ThreatMemory_proofs
   |      ^-- PerceptionScheduler_proofs     | implements ThreatBelief
   |--> Brain  <-- Brain_proofs   (reads the primary target)
   '--> CoverPlaces (cover queries, the squad's soft claims)  <-- CoverPlaces_proofs

 UdpProtocol  <-- UdpProtocol_proofs
```

Each module is checked by itself, and the arrows are assumptions that another module discharges:
the fair ticks of `SquadTokens` are what `SquadScheduler` shows, the reports that arrive in
`ThreatMemory` late and in any order are what `ContactReports` delivers, the updates are what
`PerceptionScheduler` hands out.

`SquadTokens` and `SquadTasks` look at the same squad from its two sides: the first has the caps,
ages, priorities and elements, the second what a soldier's StateTree can tell of them.  They are
not composed: `SquadTasks` has fixed caps, knows of no lost Pawns, and lets any grant be taken back
in any tick, where `SquadTokens` says which.

`MC...` modules extend them with the constants' values for TLC.

Operators named `Bad...` are variants of an operator, each with a plausible mistake.  No action
uses them: they are put in the operator's place, one at a time, to see that a property notices.

Times are ages or countdowns that stop at the largest threshold they are compared with, so the
state space is finite and no comparison changes.

### SquadTokens

The token economy of one squad with the plan cycle that drives it.

| Model | Code (`SquadComponent.cpp`) |
|---|---|
| `health`, `role`, `fallen`, `renotified` | `Members[m].Status.Health`, `.Role`; history: whose death was notified, and whether a dead leader's was notified again.  `"Gone"` is a Pawn whose weak pointer is cleared |
| `request`, `waited` | `RequestedTokenType` and the time since `TokenRequestedAtSeconds` |
| `held[t][m]`, `elementGrant` | `Blackboard.Grants`: the age of a member's own grant, and the one grant of an element |
| `cap`, `flag` | `SuppressionTokens`, `MovementTokens`; the token flags in `Assignments` |
| `plan`, `mask`, `mover`, `boundAge`, `evalAge`, `planPending` | the plan, the elements' masks, `MovementTokenElementId`, and the timers |
| `GrantOnRequest`, `QueueRequest` | the two ways through `RequestToken` |
| `ReleaseToken`, `NotifyMemberDied`, `RequestPlanReevaluation` | the functions of these names; `NotifyMemberDied` with both releases and the succession |
| `PawnDestroyed` | the engine destroys a Pawn (external) |
| `Tick` | one `TickSquad`: `Collected`, then `KeptGrants` and `FlagsAfterRevocation`, `UpdatedCap`, `Served`, then `EvaluatePlan` (select, form elements, assign with handover, prepare) |
| `Elapse` | time passes |

* The order of `Blackboard.Grants` matters in one place: revocation walks the array from its end
  and sets the flags of the losers on the spot.  `elementGrant.behind` remembers which
  suppression grants precede the element's grant; nothing else of the order is visible.
* `Phase_SelectPlan` weighs morale, dispersion and scores.  Any plan may win at any evaluation;
  the minimum duration of a plan is not imposed, so the model has more behaviours than the code.
* A soldier's report of its own health is any of `Reportable`, and `Dead` once its death was
  notified (the implementation of the interface is not in the repository).  A soldier may report
  itself dead before it is notified.
* Weights are in hundredths; `MaxWait` bounds the waiting time that is told apart.
* Nothing stops a second notification of the same death (`NotifyMemberDied` has no test for it, and
  the repository has no caller of it).  The tokens are gone by then, but a fallen leader's `Role`
  is still `Leader`: the repetition promotes another heir, and two living soldiers lead.  `OneLeader`
  therefore has as its premise that no fallen leader was notified again (`renotified`).  The count
  of casualties, which such a repetition raises too, is read by the morale and by a report only and
  is left out.

### TokenLease

What the token economy promises, without ages, requests, priorities and plans: who is `fit` or
`fallen`, how many tokens there are (`limit`), who has one of its own (`lease`) and which element
has its turn.  Between the rounds a soldier gains or loses tokens only by what it does or suffers
itself (`Ask`, `GiveBack`, `Fall`, `Vanish`); a round (`Round`) gives tokens to the fit, within the
limits that hold then, and takes back what it likes; when it gives an element its turn
(`HandOver`), nobody keeps a token to move of its own.  `limit` may fall below what is out: the
code takes no token back because a cap fell.  A soldier out of action keeps its tokens until a
round takes them back, which may be later than the next one (`MinGrantSeconds`).

`SquadTokens!Promise` maps `lease` to the holders of individual grants, `fit` to the living in the
roster, `turn` to the element of the element grant.

### ContactReports

`Accept` is `SubmitContactReport` with the radio's budget per second, the cooldown of a reporter
and target, `Merged` (`MergeIntoKnownThreats`) and `Enqueued` (`EnqueueContactDeliveries` with its
overflow); `RefuseCooling` is the one refusal that changes state.  `Tick` is
`Phase_DeliverPendingReports`, with `Swept` for the walk that removes from the array it walks.
`Addressed` are the recipients of one report, in the order of their indices, each with its own
delay, and `RemoveAtSwap` is what the engine's function leaves of an array.  A place is `here` or
`there`: far enough apart to escape the cooldown.  The radio's delay is any of
`Delay`, for each recipient by itself.  `log`, `heard` and `lost` are history.

### SquadScheduler

`Tick` is a frame of `USquadSubsystem::Tick`: `IdleFrame` when nobody asks for a rate,
`SavingFrame` when the credit does not buy a tick, `TickingFrame` when it does.  One squad is
ticked per frame, the default of the code.  A squad asks for its rate while it *takes* a member to
be alive (`alive`); `fit` says whether one really could act, and a tick is what makes the two
agree.  The cursor counts modulo `Lap`, a multiple of every number of squads, so that
`cursor % Len(squads)` is what it is in the code: `CreateSquad` changes the number of squads in
the middle of a round.  The overflow of the 32-bit cursor after 2^31 ticks is left out.

### SquadTasks

What a soldier's StateTree sees of its squad.  `EvaluatorTick` copies the assignment when its
revision changed; `EnterState`, `WaitingTick`, `RevokedTick` and `ExitState` are the task that
holds a token while a state lasts; `LosePawn` and `TreeStart` take away and restore what
`ResolveSquad` finds.  `SquadTick` grants, queues, revokes (anybody, which abstracts the holding
times of `SquadTokens`), hands over, and assigns tasks.  Only the copies of `Follower` are kept:
nobody reads another soldier's copy.A death may be notified again and
finds nothing to take.  When a bound ends is left open: a handover may come in any evaluation.
`leaked` and `early` are history: the tokens that an exit
without a squad left behind, and the revisions that were pushed before their assignments were
written.

### ThreatMemory and ThreatBelief

`Update` is one `UpdatePerception`: `Saw` for each candidate in sight, `Faded` and `Lasts`
(`DecayMemories`), `Trimmed` (capacity), `Band` (`ApplyAwarenessBands`), the threat levels, and
`Selections` (`SelectPrimaryTarget` with the hold time and the margin for switching).  Between the
updates come `ReportDamageFrom`, `ReportNoise`, `ReceiveSharedThreat` with its three rules,
`ForgetTarget` and `TargetDestroyed`.  Sight rates, threat levels and engagement values are any of
small sets; a place is known by the age of the observation that it comes from.  `own`, `silent`
and `announced` are history.

`ThreatBelief` is the abstract specification: a level of awareness per enemy, who was sensed by
the soldier itself, and the aim.  A soldier aims only at somebody it does not count as `Unaware`
when it makes up its mind, and nobody becomes `Confirmed` by hearsay.  `ThreatMemory!Promise`
states that the detailed memory implements it under the refinement mapping `Belief`.

### Brain

`Tick` is `TickComponent`: `Wait`, or `Decide` with `Gathered` (`GatherInputs`) and `Select`
(`EvaluateAndSelect`, over `ScoreIntent` with its curves and its make-up value).  `Perceive`,
`SetScoringInput`, `RequestImmediateReevaluation` and `SetLODTier` come between frames.  Scores
are integers on the scale `Unit`.  A `Consideration` may have any range, turned around or empty,
and any curve; a profile has at least one intent without considerations that is viable, as the
comment at the end of `EvaluateAndSelect` asks for.  `frame` changes with every frame, so
that fairness can speak of frames in which nothing else changes; `aimless` is history: for how
many frames the soldier has had an intent that deals with a target (`DealsWithTarget`: one that is
vetoed by what `GatherInputs` writes without a target), and no target.  `Absent` is what it writes:
zero for most inputs, `BIG_DISTANCE_CM` for the distance, which vetoes an axis that is turned
around and no other.

### CoverPlaces

The query tokens, the recent occupancy and its score, and the squad's soft claims with the task
that makes and releases them.  No operation reads two soldiers' occupancy, so the module holds
one soldier's, the walker's.  `ExpireClaims` is a tick of the squad (`Phase_UpdateTargetArbitration`).

### UdpProtocol

One client and one server.  A call is `Call`, then `Retry` as often as the retries allow, and ends
with `Receive` of a matching answer or `GiveUp`.  The server's thread for each kind of traffic
goes `ServerReceive`, then `ServerDrop` or `ServerAnswer` and `ServerCount`: the answer leaves
before it is counted, as in the code.  `DropNext` and `DropAll` are the test's hooks.  The
network is a set of datagrams each way: it reorders freely and `Lose` drops any of them.  It does
not duplicate: the mock-up runs on a loopback interface.  A datagram is named by its call and
attempt, which the program cannot see: `Matches` compares the `cmd` alone.

### PerceptionScheduler

`registered`, `cursor` and `due` are `Registered`, `RoundRobinCursor` and `NextUpdateWorldTime`
relative to now.  `Tick(dt)` is a whole frame: `Walk` is the loop with the cursor that it moves,
as a recursive function over its steps, and `Elapsed` is what `UpdatePerception` is given.
`since` and `last` are history: how much time really passed.  `UnregisterSoldier` does what
`RemoveAllSwap` does for one entry.  `SetLODTier` is the assignment from outside.  Components
leave through `EndPlay`, so cleared weak pointers do not stay in the array.

## 3. Runs

| Run | Shows |
|---|---|
| `squad_safety` | the roster, the requests, the grants and the elements stay consistent in every order of calls, with three soldiers, in a base of fire or a flank that may fail; a death may be notified again and again |
| `squad_turns` | with soldiers that go down and recover, in a withdrawal or a base of fire: the flags follow the grants, the element grant follows the mover, the economy implements `TokenLease`, so caps hold when a token is issued, tokens circulate, and the elements of a withdrawal take turns |
| `contact_reports` | every delivery meets one end, a tick delivers what is due and nothing else, the squad's book is fresh |
| `squad_tasks` | no token or request outlives its state, unless the squad could not be found; a copy with the present revision has the present plan; what single soldiers hold stays within the caps |
| `squad_scheduler` | a squad in action is ticked again and again; a silent one notices a recovery while the scheduler runs for another |
| `udp_calls` | calls return; answers are real and used once; without retries no answer is stale; the counters lag by at most one |
| `perception_turns` | with one update per frame the round robin is fair, through registrations and removals; updates integrate real time |
| `threat_memory` | the properties of the memory, and that it implements `ThreatBelief` |
| `brain` | a target that is gone is let go in bounded time; what stays best is taken up and kept |
| `cover_places` | query tokens, recent places and claims do not wear out |
| `squad_bounding` | *violation*: in bounding overwatch the bound never ends, because the entry resets the start that the handover of the same tick has written, so the elements do not alternate |
| `squad_tasks_stale` | *violation*: in a withdrawal a soldier goes on covering the rear after a handover made its element the one that moves, since no revision is pushed for it |

### Further configurations

These files show disagreements between the code and its own comments, documents or tests as well.
TLC reports a violation for each; the findings in `PROJECT.json` quote the lines.

| Configuration | Module | Property | Violated because |
|---|---|---|---|
| `SquadTokens_flank.cfg` | `MCSquadTokens` | `FixersStay` | in a flank the fixing element is the first to get the movement token, which `PLAN.md` (301, 345, 563) gives to the maneuver element for good |
| `SquadTokens_starvation.cfg` | `MCSquadTokens` | `NoStarvation` | a free token goes to whoever asks first, past the queue |
| `ContactReports_overflow.cfg` | `MCContactReports` | `OldestDroppedFirst` | `RemoveAtSwap` moves the newest delivery to the front |
| `ThreatMemory_backwards.cfg` | `MCThreatMemory` | `NeverWalksBack` | damage and noise do not count as first-hand observations |
| `Brain_urgent.cfg` | `MCBrain` | `UrgentIsHeard` | an urgent decision respects the minimum duration |
| `Brain_target.cfg` | `MCBrain` | `TargetRidesAlong` | the early return leaves the old target |
| `UdpProtocol_stale.cfg` | `MCUdpProtocol` | `AnsweredCallIsServed` | a late answer matches the next call |
| `UdpProtocol_counters.cfg` | `MCUdpProtocol` | `AnswerIsCounted` | the answer is sent before it is counted |
| `PerceptionScheduler_budget.cfg` | `MCPerceptionScheduler` | `NobodyStarves` | with two updates per frame the walk skips entries |
| `PerceptionScheduler_delta.cfg` | `MCPerceptionScheduler` | `DeltaIsReal` | the last update is reconstructed with the present tier's interval |

Four more divergences were met while modelling and have no run.  `IsInContact` compares the
confidence of the squad's book, which `SharedConfidenceCap` (0.6) limits, with
`ConfirmedThreatConfidence` (0.7): with the defaults of `SquadTuningData.h` (289, 326) a squad is
never in contact, and the plans that require it are never chosen.  `SoldierThreatAssessment.cpp`
(107) reads `VisibilityRatio` as "he is behind a wall", but it keeps the value of the last sighting
while a target is out of sight; `WorthShooting` models what the code does.  A profile's intents
with equal scores are decided by their order, which `SoldierAIConfig.h` (345) calls irrelevant.
`GetRecencyScore` counts from the arrival at a place, so a place that was held for the whole window
is free again the moment it is left, where the comment in `SoldierCoverSubsystem.cpp` (321) scores
the place just left with zero.

### Bounds

* `squad_safety`: three soldiers are the fewest with a leader, an heir and somebody else to deal
  out to the elements; a second death then meets a succession that already happened.
* `squad_turns`, `squad_bounding`: two soldiers are a holder and a competitor, or one per element.
  A withdrawal beside an individual plan lets the squad enter and leave a per-element plan, and
  their caps differ; the flank that falls back to a base of fire is in `squad_safety`.  In
  `squad_turns` the longest holding time and the bound are one unit, so a grant or a bound is either
  fresh or due.  `ElementsAlternate` fails in bounding overwatch for the reason above, so that plan
  is in `squad_bounding` alone, and it says nothing of a flank, whose elements are not to move in
  turns (`MovesInTurns`).
* `contact_reports`: three members give every report two recipients; two reports for a queue of
  three and a book of one entry make both overflow; two targets compete for the entry.
* `squad_tasks`, `squad_tasks_stale`: two soldiers, one per element, one token of
  each type; two revisions tell a copy that is behind from one that is not.
* `squad_scheduler`: three squads, created at any time, so the number of squads changes under the
  cursor; frames of one and three units earn less than a tick, and more than the cap.
* `threat_memory`: two enemies, room for one, so the trim chooses; awareness has five levels with
  thresholds at two and three; reports are up to two updates late.  With room for one memory two
  targets are never compared for a switch in the same update, so the margin for switching is not
  exercised: none of the properties speaks of it.
* `brain`: three intents, one of them for survival and one without considerations, as the code
  asks for; the visibility of a target vetoes when it is absent, and its distance, turned around,
  when it is the large one that stands for none; two intents score nine and ten, so the bonus of the
  incumbent decides between them; minimum durations of one to three frames against intervals of
  one and two.
* `cover_places`: three soldiers for two tokens; two places and a history of two.
* `udp_calls`: two calls are enough for one to leave answers to the next; one retry is enough for
  a second answer, and requests have none so that a call that fails at once is covered too.
* `perception_turns`: three components are the fewest in which the walk wraps around and skips;
  four changes allow three registrations and a removal or tier change.

The passing runs take up to three minutes each.  `threat_memory` and `contact_reports` use the
symmetry of targets and places; their properties name none of them, and are invariants and step
properties.

### Fairness

`SquadTokens!FairSpec` assumes that time passes and that a squad with somebody alive is ticked
again and again; `SquadScheduler!LiveSquadsTick` shows that the scheduler does that, from the frames
of the engine alone.  A squad with nobody alive asks for rate zero (`GetDesiredTickHz`), so nothing
is assumed of it, and the liveness properties say so with `Scheduled`.  `CoverPlaces!Spec` assumes
that time passes and that the squad's ticks expire claims, until every soldier is gone.
`Brain!Spec`, `SquadScheduler!Spec` and `PerceptionScheduler!FairSpec` assume that frames are drawn.
`UdpProtocol!FairSpec` assumes only that deadlines pass (`time.monotonic`).  Nothing is assumed of
soldiers, targets, the network or the server.

## 4. Proofs

`SquadTokens_proofs` proves, for every number of soldiers, every rule set and every choice of
times allowed by the module's assumptions:

* `TypeCorrect`: `TypeOK`.  Inductive as it stands, given lemmas on the caps, the grants that
  survive a revocation and the masks.
* `NoSoldierWaitsForWhatItHolds`, `TheDeadHoldNothing`, `SuccessionKeepsOneLeader`,
  `ElementsStayDisjoint`, `GrantStaysWithMover`: by one inductive invariant, `IInv`, with
  `FallenAreOut` added to them.  `FallenAreOut` (whoever was notified dead is dead or gone in the
  roster) is what keeps a tick from serving the dead and a succession from electing them; without
  it neither `FallenHoldNothing` nor `OneLeader` is preserved.  `OneLeader` is proved with its
  premise: `NotifyMemberDied` sets `renotified` in the one case in which it makes a second leader.
  `TickEffects` sums up what a tick may do, so that each part of the invariant is shown from that
  summary and not from the whole action.
* `FlagsFollowTokens` (`FlagsCoverTokens`), inductive with the types.  The difficult step is the
  tick: `RevocationCovers` shows that the flags are right after the walk that takes grants back and
  sets flags while the element's grant is still there, and `TickFlags` that the phases after it
  keep them so.
* `IssuesStayWithinCap`: no step issues an individual token beyond the cap in force, or to anybody
  but the living (`IssuedWithinCap`, an action property that follows from the promise below and is
  proved by itself).  `ServedWithinCap` counts who kept a token and who is served.
* `EconomyImplementsLease`: `Promise`, the refinement of `TokenLease`.  `GrantOnRequest` is an
  `Ask`, `ReleaseToken` a `GiveBack`, a death a `Fall` (notified again, a stutter), a lost Pawn
  a `Vanish`; `TickRefines` shows that a squad tick is a `Round` or a `HandOver`; queueing, elapsing and a call for reevaluation are
  stutters.  The steps need `IInv`: that a soldier who is granted a token is not among the fallen
  is `FallenAreOut`.

`UdpProtocol_proofs` proves, for every set of commands, every number of retries and of calls:

* `TypeCorrect`: `TypeOK`;
* `EveryAnswerIsRealAndUsedOnce` and `AnswersAreFreshWithoutRetries`, by `IInv`, which adds where
  a datagram can be (`OnePlace`: under way, in the hands of one thread, or answered, and never
  twice) and that the answers under way are answers nobody has used (`AnswersUnderWay`);
* `CounterLags` (`CounterLagsByOne`), from the part `AnswersCounted` of `IInv`: per kind of
  traffic, no more answers were given than were counted, but for one while the thread is between
  sending and counting.

`SquadTasks_proofs` proves, for every squad, every set of plans, every caps and every bound on the
revision:

* `TypeCorrect`: `TypeOK`, with the count of the tokens that are out.  A grant on request and a
  served queue both compare `GrantCount` with the cap; the lemmas on cardinalities show that what
  single members hold is no more than that.
* `TokensStayInTheirStates`: `NoStrayToken`, inductive once a state that is entered is known to
  name its token.
* `RevisionNamesThePlan`: `PlanIsCurrent`.  It needs `Marked`: all assignments carry the present
  revision, no copy is ahead of it, an assignment under a revision that was not pushed early has
  the plan of the squad, and revision zero means that there was no plan.  Without the third part
  an evaluation that keeps the plan might change what a copied revision stands for; without the
  last a restarted tree's empty copy might pass for a present one.

`ThreatMemory_proofs` proves, for every set of enemies, every capacity and every tuning that the
assumptions allow:

* `TypeCorrect`, `HearsayStaysHearsay` (`HearsayIsNoCertainty`), `SightingsAreNotOverwritten`
  (`PlaceIsFresh`), `ListenersAreTold` (`ListenersKnowPrimary`) and `TheSilentAreForgotten`
  (`SilentIsForgotten`), by `IInv`: every entry is `Sound`, and what is remembered is `Recent`.
  `Hearsay` bounds the awareness of whoever was not sensed below the threshold, since the level
  follows from it only at the next update; `Fading` bounds awareness and silence by their sum, which
  is why a silent target is forgotten in time.  Each stimulus has a lemma about the one entry it
  changes; `UpdateEffects` sums up an update.
* `MemoryImplementsBelief`: `Promise`, the refinement.  `InitRefines` maps the initial states, and
  `StepRefines` every step, to a step of `ThreatBelief` or a stutter: a stimulus to `Witness` or
  nothing, a loss to `LoseTarget`, an update to `Reflect`.

`CoverPlaces_proofs` proves, for any number of soldiers and slots, any depth of the history and any
window:

* `NewestArrivalDecides` (`NewestArrivalCounts`), from `Walked`: the newest visit of a place is as
  many entries behind the front of the history as there were arrivals since.  The lemma
  `RememberedEntries` says what the code's insertion and cut leave of the array.
* `RefusalsAreJustified` (`RefusedOnlyWhenBusy`), an action property, from `Limited`: the set of
  queries never outgrows the limit.

`ContactReports_proofs` proves, for every number of members, depth of the queue, size of the book
and set of delays:

* `TypeCorrect`: `TypeOK`, with the limits of the queue and of the book.
* `EveryDeliveryEndsOnce` (`OneEnd`), from two parts of `IInv`: `Parted` (what was sent is pending,
  heard or lost, and never two of these) and `KeyInjective` (the queue holds no delivery twice).
  `OneEnd` is not inductive without the second: a delivery that is twice in the queue is heard when
  its first copy is taken out, and still pending.
* `BookStaysFresh` (`BookIsFresh`): an entry that is overwritten, evicted, or written again.
* `DeliveredOnTime` (`DeliveredWhenDue`), an action property: `SweptIsSweep` and `SweepEffect` show
  that the walk which removes from the array it walks leaves exactly what is not due, because it
  goes from the end to the front, so that what `RemoveAtSwap` moves was visited already.

`PerceptionScheduler_proofs` proves, for every set of components, every budget and all intervals:

* `TypeCorrect`: `TypeOK`; every component is registered at most once, through `RemoveAllSwap`.
* `UpdatesIntegrateRealTime` (`IntegratesRealTime`), from `Linked`, which ties the time to the next
  update, the time since the last and the interval of the tier together.
* `FirstInTurn` (`FirstInTurnIsServed`), an action property: `WalkGrows` and `FirstDueIsUpdated` say
  what the walk does with the cursor that it moves.

`Brain_proofs` proves, for every profile of intents, with any considerations and curves:

* `TypeCorrect`: `TypeOK`.  `ScoreIsProduct` and `ScoreType` bound what the recursive score computes.
* `AimlessnessEnds` (`AimlessEnds`): a soldier deals with a target that is gone for no longer than
  the intent's minimum duration and the slowest interval.  The invariant `Bounded` says why: either
  the intent has run for as long as it has been aimless, or its minimum duration is over, and the
  next decision comes before the bound is reached.  `Veto` (what `GatherInputs` writes
  without a target is what the score sees, and a zero among the factors leaves no score, whatever
  the make-up value does) and `SomebodyContends` (the intent without considerations)
  make that decision a change.

What recursive functions compute is shown by induction over sets, since the library's induction
theorems cannot be used with the provers at hand: `SetInduction` follows from the well-foundedness
of the numbers, `BoundedInduction` from it, and `WalkExists` gives the values of a recursive
function that walks through `1 .. n`.  `Brain_proofs`, `ContactReports_proofs` and
`PerceptionScheduler_proofs` start with these lemmas.

The assumptions are the named `ASSUME`s of the modules; TLC evaluates them in every run.

Proved are all the invariants and action properties that the runs check, and the refinements.
Only model-checked are the liveness properties, as temporal proofs under fairness are out of the
prover's reach: `TokensCirculate`, `ElementsAlternate`, `LiveSquadsTick`, `RecoveryIsNoticed`,
`CallsReturn`, `NobodyStarves`, `BestWins` and `ClaimsEnd`.  `SquadScheduler` has no other
properties, so it has no proofs.

## 5. Not modelled

* Geometry: lines of sight, gaze, exposure, cover quality, firing positions, the cache of cover
  slots, flank corridors.  Nothing in it depends on an order of events.
* Morale, dispersion and plan scores: the plan is picked freely, so the models contain every choice.
* Fire lanes: nothing in the drafts removes one.  Target arbitration (`FocusTarget`): recomputed
  in full in every tick from the reports of that tick.
* `SoldierOrder.h` is declared and has no source; of the orders that reach the squad, `HoldFire`
  is in `SquadTasks`.
* The responder role of the UDP client class (`serve_request_once`, `serve_event_once`), which the
  mock-up does not use, and the shutdown of the server's threads.
* The HQ stub: a straight line of publications and waits, each cmd waited for once, every wait with
  a timeout after which the script goes on.  The remote-control mock client, the RTSP test client
  and the NATS scripts drive external programs and keep no state worth a model.
* Nothing in the repository calls `RegisterMemberLookup`, so the table from Pawns to squads appears
  only as the set `resolves` of `SquadTasks`.
* The rest of the repository is text.

## 6. What is left

1. Two memories in `ThreatMemory`, for the margin of a switch, once its state space is smaller.
2. The responder role of the UDP client.
3. A safety invariant of `SquadScheduler` (who may be owed how many ticks) that would carry its
   liveness, with its proof.
