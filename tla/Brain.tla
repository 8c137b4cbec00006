--------------------------------- MODULE Brain ---------------------------------
(***************************************************************************)
(* How a soldier decides what to do (USoldierBrainComponent, layer L2).    *)
(*                                                                         *)
(* Every few frames the brain reads the primary target of ThreatMemory and *)
(* its own body, scores every intent of the profile and lets the best one  *)
(* hold the floor.  The squad, the cover layer and the weapon push inputs  *)
(* of their own, which stay until they are pushed again.                   *)
(*                                                                         *)
(* Time passes in frames.  Inputs, curves and scores are integers of which *)
(* Unit stands for 1.0; products are rounded down.                         *)
(***************************************************************************)
EXTENDS Integers, Sequences, SequencesExt, FiniteSetsExt

CONSTANTS
  Intents,       \* Profile->Intents: the intents in the order of the array
  Axes,          \* [intent -> sequence of considerations]
  BaseWeight,    \* [intent -> Nat]
  MinViable,     \* [intent -> Nat]: MinViableScore
  MinDuration,   \* [intent -> Nat]: MinDurationSec
  Survival,      \* intents with the trait Intent.Trait.Survival
  BonusPercent,  \* CurrentIntentBonus
  Unit,          \* 1.0
  Interval,      \* <<frames between decisions, per LOD tier>>: GetDecisionInterval
  TargetInput,   \* inputs about the primary target
  BodyInput,     \* inputs about the soldier itself and its surroundings
  PushedInput,   \* inputs of other layers: SetScoringInput
  Sensed,        \* the values that an input takes
  Absent,        \* [TargetInput -> Sensed]: what GatherInputs writes without a primary target,
                 \* 0, and BIG_DISTANCE_CM for the distance
  Target, NoTarget

Intent == ToSet(Intents)
Input == TargetInput \cup BodyInput \cup PushedInput

NoIntent == "None"
\* FConsideration; the curve is a table.
Consideration ==
  [input : Input, low : Int, high : Int, invert : BOOLEAN, curve : [0 .. Unit -> Int]]

\* Nobody pushes an input about the primary target: those are GatherInputs' own.
ASSUME InputAssumption == TargetInput \cap PushedInput = {}
ASSUME UnitAssumption ==
  Unit \in Nat \ {0} /\ 0 \in Sensed /\ Sensed \subseteq Int
ASSUME AbsentAssumption == Absent \in [TargetInput -> Sensed]
ASSUME IntentAssumption ==
  /\ Intents \in Seq(Intent) /\ IsInjective(Intents) /\ NoIntent \notin Intent
  /\ Survival \subseteq Intent
  /\ MinDuration \in [Intent -> Nat] /\ MinViable \in [Intent -> Nat]
  /\ BonusPercent \in Nat
ASSUME AxesAssumption == Axes \in [Intent -> Seq(Consideration)]
ASSUME WeightAssumption == BaseWeight \in [Intent -> Nat]
ASSUME IntervalAssumption == Interval \in Seq(Nat \ {0}) /\ Interval # <<>>
ASSUME TargetAssumption == NoTarget \notin Target

\* The comment at the end of EvaluateAndSelect asks for an intent without considerations.
ASSUME IdleAssumption ==
  \E i \in Intent : Axes[i] = <<>> /\ BaseWeight[i] > 0 /\ BaseWeight[i] >= MinViable[i]

VARIABLES
  primary,    \* Perception->GetPrimaryTarget()
  sensed,     \* what perception and the body would tell now
  inputs,     \* ScoringInputs
  intent,     \* CurrentIntent.IntentTag
  target,     \* CurrentIntent.TargetActor
  runningFor, \* frames from CurrentIntent.SelectedWorldTime to the last one, up to the longest duration
  untilNext,  \* TimeUntilNextDecision
  urgent,     \* bImmediateReevaluationRequested
  tier,       \* LODTier, from 1
  \* History, read by the fairness and the properties alone:
  frame,      \* changes with every frame
  aimless     \* frames for which the intent has had a target to deal with, and there was none

worldVars == <<primary, sensed, tier>>
intentVars == <<intent, target, runningFor>>
vars == <<worldVars, inputs, intentVars, untilNext, urgent, frame, aimless>>

Longest == Max({MinDuration[i] : i \in Intent})
Slowest == Max(ToSet(Interval))

Between(low, x, high) == IF x < low THEN low ELSE IF x > high THEN high ELSE x

----------------------------------------------------------------------------
(* Scoring.                                                                *)

\* FConsideration::Evaluate: the input is mapped from its range onto 0 .. Unit, runs through
\* the curve (a table here), and may be mirrored; the result is clamped.
Factor(axis, x) ==
  LET span == axis.high - axis.low
      at   == IF span = 0 THEN 0
              ELSE Between(0, IF span > 0 THEN ((x - axis.low) * Unit) \div span
                              ELSE ((axis.low - x) * Unit) \div (-span), Unit)
      y    == IF axis.invert THEN Unit - axis.curve[at] ELSE axis.curve[at]
  IN  Between(0, y, Unit)

\* The make-up value for n axes, without which more axes would always mean a lower score.
MadeUp(score, n) == score + ((Unit - score) * (n - 1) * score) \div (n * Unit)

\* ScoreIntent: one axis at zero is a veto.
ScoreIntent ==
  [i \in Intent |-> [in \in [Input -> Sensed] |->
     LET product[k \in 0 .. Len(Axes[i])] ==
           IF k = 0 THEN BaseWeight[i]
           ELSE (product[k - 1] * Factor(Axes[i][k], in[Axes[i][k].input])) \div Unit
     IN  IF Axes[i] = <<>> THEN BaseWeight[i]
         ELSE MadeUp(product[Len(Axes[i])], Len(Axes[i]))]]

\* Hysteresis: the incumbent's score counts for more.  In hundredths of a unit.
Standing(i, in) ==
  ScoreIntent[i][in] * (IF i = intent THEN 100 + BonusPercent ELSE 100)

Locked == intent # NoIntent /\ runningFor + 1 < MinDuration[intent]

\* Who may take the floor: for its minimum duration the running intent yields to survival only.
Contenders(in) ==
  {i \in Intent : /\ Locked => (i = intent \/ i \in Survival)
                  /\ Standing(i, in) >= 100 * MinViable[i]
                  /\ Standing(i, in) > 0}

\* Of equals the first one in the profile wins.
Winner(in) ==
  LET best == {i \in Contenders(in) : \A j \in Contenders(in) : Standing(j, in) <= Standing(i, in)}
  IN  Intents[Min({k \in 1 .. Len(Intents) : Intents[k] \in best})]

----------------------------------------------------------------------------
(* A decision.                                                             *)

\* Variants of an operator, named Bad..., hold the mistakes that the properties must tell
\* from the code; no action uses them.
\* Without a target, what was known of the last one is kept.
BadGathered ==
  [x \in Input |-> IF x \in PushedInput \/ (x \in TargetInput /\ primary = NoTarget)
                   THEN inputs[x] ELSE sensed[x]]

\* GatherInputs: when there is no primary target, nothing stays of the last one.
Gathered ==
  [x \in Input |-> IF x \in PushedInput THEN inputs[x]
                   ELSE IF x \in TargetInput /\ primary = NoTarget THEN Absent[x]
                   ELSE sensed[x]]

\* Every selection restarts the clock.
BadClock(winner) == 0

\* An intent that is selected again goes on running.
Clock(winner) == IF winner = intent THEN Min({runningFor + 1, Longest}) ELSE 0

\* EvaluateAndSelect; with no contender everything stays, the target included.
Select(in) ==
  IF Contenders(in) = {}
    THEN /\ runningFor' = Min({runningFor + 1, Longest})
         /\ UNCHANGED <<intent, target>>
    ELSE \E winner \in {Winner(in)} :
         /\ intent' = winner
         /\ runningFor' = Clock(winner)
         /\ target' = primary

Decide ==
  /\ untilNext - 1 <= 0 \/ urgent
  /\ urgent' = FALSE
  /\ untilNext' = Interval[tier]
  /\ \E in \in {Gathered} : inputs' = in /\ Select(in)

\* Only a request ends the wait.
BadWait ==
  /\ ~urgent
  /\ untilNext' = untilNext - 1
  /\ runningFor' = Min({runningFor + 1, Longest})
  /\ UNCHANGED <<urgent, inputs, intent, target>>

\* The next decision is counted down to.
Wait ==
  /\ untilNext - 1 > 0 /\ ~urgent
  /\ untilNext' = untilNext - 1
  /\ runningFor' = Min({runningFor + 1, Longest})
  /\ UNCHANGED <<urgent, inputs, intent, target>>

\* What GatherInputs writes without a target vetoes intent i: it is one for a soldier that
\* has a target.
DealsWithTarget(i) ==
  i # NoIntent /\ \E k \in DOMAIN Axes[i] :
                    /\ Axes[i][k].input \in TargetInput
                    /\ Factor(Axes[i][k], Absent[Axes[i][k].input]) = 0

\* TickComponent.
Tick ==
  /\ Wait \/ Decide
  /\ frame' = ~frame
  /\ aimless' = IF primary = NoTarget /\ DealsWithTarget(intent')
                THEN Min({aimless + 1, Longest + Slowest + 1}) ELSE 0
  /\ UNCHANGED worldVars

----------------------------------------------------------------------------
(* Between frames.                                                         *)

\* UpdatePerception changes the primary target; its view, the body and the surroundings change.
Perceive(t, in) ==
  /\ <<t, in>> # <<primary, sensed>>
  /\ primary' = t
  /\ sensed' = in
  /\ UNCHANGED <<tier, inputs, intentVars, untilNext, urgent, frame, aimless>>

SetScoringInput(x, value) ==
  /\ inputs[x] # value
  /\ inputs' = [inputs EXCEPT ![x] = value]
  /\ UNCHANGED <<worldVars, intentVars, untilNext, urgent, frame, aimless>>

RequestImmediateReevaluation ==
  /\ ~urgent
  /\ urgent' = TRUE
  /\ UNCHANGED <<worldVars, inputs, intentVars, untilNext, frame, aimless>>

SetLODTier(n) ==
  /\ n # tier
  /\ tier' = n
  /\ UNCHANGED <<primary, sensed, inputs, intentVars, untilNext, urgent, frame, aimless>>

\* BeginPlay; the first decision is staggered.
Init ==
  /\ primary = NoTarget
  /\ sensed = [x \in TargetInput \cup BodyInput |-> 0]
  /\ inputs = [x \in Input |-> 0]
  /\ intent = NoIntent
  /\ target = NoTarget
  /\ runningFor = 0
  /\ urgent = FALSE
  /\ tier = 1
  /\ untilNext \in 0 .. Interval[1]
  /\ frame = FALSE
  /\ aimless = 0

Next ==
  \/ Tick
  \/ \E t \in Target \cup {NoTarget}, in \in [TargetInput \cup BodyInput -> Sensed] :
       Perceive(t, in)
  \/ \E x \in PushedInput, value \in Sensed : SetScoringInput(x, value)
  \/ RequestImmediateReevaluation
  \/ \E n \in DOMAIN Interval : SetLODTier(n)

\* The engine ticks the component in every frame, and frames do not end.
Spec == Init /\ [][Next]_vars /\ WF_frame(frame' = ~frame)

----------------------------------------------------------------------------
(* Properties.                                                             *)

\* Every variable has its type.
TypeOK ==
  /\ primary \in Target \cup {NoTarget} /\ target \in Target \cup {NoTarget}
  /\ sensed \in [TargetInput \cup BodyInput -> Sensed]
  /\ inputs \in [Input -> Sensed]
  /\ intent \in Intent \cup {NoIntent}
  /\ runningFor \in 0 .. Longest
  /\ untilNext \in 0 .. Slowest
  /\ urgent \in BOOLEAN /\ tier \in DOMAIN Interval /\ frame \in BOOLEAN
  /\ aimless \in 0 .. Longest + Slowest + 1

\* A soldier whose target is gone stops dealing with it once the intent's minimum duration
\* and one decision interval are over, whatever it knew of the target and whatever other
\* layers go on pushing ("a soldier keep scoring AimedFire highly against someone who is no
\* longer there", GatherInputs).
AimlessEnds ==
  aimless > 0 => aimless < MinDuration[intent] + Slowest

\* An intent that beats every other one, their bonus as incumbents included.
Dominates(i) ==
  \E in \in {Gathered} :
    /\ ScoreIntent[i][in] >= MinViable[i]
    /\ \A j \in Intent \ {i} :
         100 * ScoreIntent[i][in] > (100 + BonusPercent) * ScoreIntent[j][in]

\* The intent that is best and stays best is taken up in the end and kept: neither the
\* minimum duration nor the bonus holds it off for ever.
BestWins ==
  \A i \in Intent : <>[]Dominates(i) => <>[](intent = i)

\* An urgent request makes the soldier do what is best at once, "ignoring the remaining
\* minimum duration" (RequestImmediateReevaluation).
UrgentIsHeard ==
  [][\A i \in Intent : (urgent /\ Dominates(i) /\ ~urgent') => intent' = i]_vars

\* After a decision the selection's target is the primary target it was made for: "the
\* target rides along with the selection".
TargetRidesAlong ==
  [][Decide => target' = primary]_vars
=============================================================================
