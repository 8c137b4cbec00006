----------------------------- MODULE ThreatMemory -----------------------------
(***************************************************************************)
(* What one soldier remembers of its enemies (USoldierPerceptionComponent  *)
(* and USoldierThreatAssessment, layer L2).                                *)
(*                                                                         *)
(* Sight is integrated in UpdatePerception, which the scheduler of         *)
(* PerceptionScheduler calls.  Damage, noise and the reports of comrades   *)
(* (the deliveries of ContactReports) come in between.  Every update fades *)
(* what is out of sight, forgets, cuts the memory to its capacity, reads   *)
(* awareness into bands, scores the threats and chooses a primary target.  *)
(*                                                                         *)
(* Time passes in updates; times are kept as ages, in updates.  Awareness  *)
(* and confidence are integers on one scale.  A place is known by the age  *)
(* of the observation that it comes from.                                  *)
(***************************************************************************)
EXTENDS Integers, FiniteSets, FiniteSetsExt, Functions

CONSTANTS
  Target,           \* the enemies
  None,             \* no target
  MaxTrackedThreats,
  Full,             \* awareness and confidence 1.0
  SuspiciousThreshold, ConfirmedThreshold, AwarenessBandHysteresis,
  AwarenessDecay, ConfidenceDecay,            \* per update
  SquadSharedConfidence, SquadSharedAwareness,
  Reported,         \* the confidences that reports carry; 0 stands for none
  DamageConfidence, NoiseConfidence,          \* 0.8 and 0.3
  Rate,             \* what one update of sight adds to awareness
  Impulse,          \* what one noise adds to awareness
  MemoryLifetime,   \* MemoryLifetimeSec
  Old,              \* an age beyond every report's: "never" is Old, too
  Danger,           \* the threat levels
  Value,            \* the engagement values of a target that can be shot at
  MinConfidenceToEngage,
  MinTargetHold     \* MinTargetHoldSec

ASSUME NoneAssumption == None \notin Target
ASSUME ScaleAssumption ==
  /\ Full \in Nat \ {0}
  /\ {SuspiciousThreshold, ConfirmedThreshold, AwarenessBandHysteresis, AwarenessDecay,
      ConfidenceDecay, SquadSharedConfidence, SquadSharedAwareness, DamageConfidence,
      NoiseConfidence, MinConfidenceToEngage} \subseteq 0 .. Full
  /\ SquadSharedAwareness < ConfirmedThreshold
  /\ SuspiciousThreshold <= ConfirmedThreshold - AwarenessBandHysteresis
  /\ Reported \subseteq 0 .. Full
  /\ Rate \subseteq Nat \ {0} /\ Impulse \subseteq Nat
ASSUME TimeAssumption ==
  {MaxTrackedThreats, MemoryLifetime, Old, MinTargetHold} \subseteq Nat
ASSUME ScoreAssumption == Danger \subseteq Nat /\ 0 \in Danger /\ Value \subseteq Nat

VARIABLES
  remembered,  \* the targets of Memories
  memory,      \* their entries; Blank for the others
  gone,        \* targets that were destroyed: weak pointers to them are null
  primary,     \* PrimaryTarget, None when its pointer is null
  held,        \* time since PrimaryTargetSelectedWorldTime, up to MinTargetHold
  \* History, read by the properties alone:
  announced    \* what OnPrimaryTargetChanged said last

focusVars == <<primary, held, announced>>
vars == <<remembered, memory, gone, focusVars>>

Level == {"Unaware", "Suspicious", "Confirmed"}
Memory == [visible : BOOLEAN, inView : BOOLEAN,
           awareness : 0 .. Full, confidence : 0 .. Full, level : Level,
           unseen : 0 .. MemoryLifetime + 1,
           seen : 0 .. Old, shared : 0 .. Old, place : 0 .. Old,
           danger : Danger, own : BOOLEAN, silent : 0 .. Full + MemoryLifetime]

\* A new FThreatMemory.  inView: VisibilityRatio is at least MinVisibilityToEngage.
\* unseen: TimeSinceLastSeen.  seen, shared: the ages of LastSeenWorldTime and of
\* LastSharedReportObservedTime.  own, silent (history): the soldier sensed
\* the target itself; updates since it last sensed it or was told of it.
Blank == [visible |-> FALSE, inView |-> FALSE, awareness |-> 0, confidence |-> 0,
          level |-> "Unaware", unseen |-> 0, seen |-> Old, shared |-> Old, place |-> Old,
          danger |-> 0, own |-> FALSE, silent |-> 0]

UpTo(limit, x) == IF x < limit THEN x ELSE limit
AtLeast(limit, x) == IF x > limit THEN x ELSE limit

\* The targets that can still be sensed or reported.
Present == Target \ gone

----------------------------------------------------------------------------
(* What a stimulus makes of a memory.                                      *)

\* UpdatePerception, for a candidate whose sight rate is positive.
Saw(m, rate, inView) ==
  LET awareness == UpTo(Full, m.awareness + rate)
  IN  [m EXCEPT !.awareness = awareness, !.visible = TRUE, !.inView = inView,
                !.place = 0, !.seen = 0, !.unseen = 0,
                !.confidence = AtLeast(awareness, @), !.own = TRUE, !.silent = 0]

\* ReportDamageFrom: certain of the presence, not of the place.
Hurt(m) == [m EXCEPT !.awareness = Full, !.confidence = AtLeast(DamageConfidence, @),
                     !.place = 0, !.unseen = 0, !.own = TRUE]

\* Variants of an operator, named Bad..., hold the mistakes that the properties must tell
\* from the code; no action uses them.
\* Noises add up without a limit.
BadHeard(m, impulse) == [m EXCEPT !.awareness = @ + impulse, !.own = TRUE]

\* ReportNoise: a heard contact does not overwrite a seen one.
Heard(m, impulse) ==
  LET louder == [m EXCEPT !.awareness = UpTo(Full, @ + impulse), !.own = TRUE]
  IN  IF m.visible THEN louder
      ELSE [louder EXCEPT !.place = 0, !.confidence = AtLeast(NoiseConfidence, @)]

\* Out of sight, reports are compared with reports alone.
BadOutdated(m, age) == m.visible \/ m.shared <= age

\* Rules R1 and R2 of ReceiveSharedThreat.
Outdated(m, age) == \/ m.visible \/ m.seen <= age
                    \/ m.shared <= age

\* A report is trusted as much as its sender trusted it.
BadTrust(reported) == reported

\* Rule R3: hearsay is trusted up to a cap.
Trust(reported) ==
  UpTo(SquadSharedConfidence, IF reported > 0 THEN reported ELSE SquadSharedConfidence)

\* ReceiveSharedThreat, for a report that is not outdated.
Told(m, age, reported) == [m EXCEPT !.awareness = AtLeast(SquadSharedAwareness, @),
                                    !.confidence = AtLeast(Trust(reported), @),
                                    !.shared = age, !.place = age]

\* FindOrAddMemory, and then the change.
Learn(t, m) ==
  /\ t \in Present
  /\ remembered' = remembered \cup {t}
  /\ memory' = [memory EXCEPT ![t] = [m EXCEPT !.silent = 0]]
  /\ UNCHANGED <<gone, focusVars>>

ReportDamageFrom(t) == Learn(t, Hurt(memory[t]))

ReportNoise(t, impulse) == Learn(t, Heard(memory[t], impulse))

\* An outdated report changes nothing, but a target that was forgotten is remembered again.
ReceiveSharedThreat(t, age, reported) ==
  Learn(t, IF Outdated(memory[t], age) THEN memory[t] ELSE Told(memory[t], age, reported))

\* The primary target is let go only when its memory fades.
BadAfterForgetting(t) == primary

AfterForgetting(t) == IF primary = t THEN None ELSE primary

\* ForgetTarget.
ForgetTarget(t) ==
  /\ t \in Present
  /\ remembered' = remembered \ {t}
  /\ memory' = [memory EXCEPT ![t] = Blank]
  /\ primary' = AfterForgetting(t)
  /\ announced' = IF primary = t THEN None ELSE announced
  /\ UNCHANGED <<gone, held>>

\* A target leaves the world: its memory stays, the pointer to it reads as null.
TargetDestroyed(t) ==
  /\ t \in Present
  /\ gone' = gone \cup {t}
  /\ primary' = IF primary = t THEN None ELSE primary
  /\ UNCHANGED <<remembered, memory, held, announced>>

----------------------------------------------------------------------------
(* UpdatePerception.                                                       *)

\* Time passes: what is known gets older, and everything counts as unseen first.
Aged(m) == [m EXCEPT !.visible = FALSE, !.seen = UpTo(Old, @ + 1),
                     !.shared = UpTo(Old, @ + 1), !.place = UpTo(Old, @ + 1)]

\* DecayMemories, for one entry.
Faded(m) ==
  IF m.visible THEN m
  ELSE [m EXCEPT !.unseen = UpTo(MemoryLifetime + 1, @ + 1),
                 !.awareness = AtLeast(0, @ - AwarenessDecay),
                 !.confidence = AtLeast(0, @ - ConfidenceDecay),
                 !.silent = UpTo(Full + MemoryLifetime, @ + 1)]

\* What is out of sight stays for ever.
BadLasts(t, m) == t \notin gone

Lasts(t, m) ==
  t \notin gone /\ (m.visible \/ m.unseen <= MemoryLifetime \/ m.awareness > 0)

\* The capacity trim: the sort is by the threat levels of the last update, and not stable.
Trimmed(R, mem) ==
  IF Cardinality(R) <= MaxTrackedThreats THEN {R}
  ELSE {K \in SUBSET R : /\ Cardinality(K) = MaxTrackedThreats
                         /\ \A k \in K, r \in R \ K : mem[k].danger >= mem[r].danger}

\* ApplyAwarenessBands, for one entry.
Band(m) ==
  LET a == m.awareness
      risen == IF a >= ConfirmedThreshold THEN "Confirmed"
               ELSE IF a >= SuspiciousThreshold THEN "Suspicious" ELSE m.level
  IN  CASE m.level = "Unaware"    -> risen
        [] m.level = "Suspicious" ->
             IF a >= ConfirmedThreshold THEN "Confirmed"
             ELSE IF a < SuspiciousThreshold - AwarenessBandHysteresis THEN "Unaware"
             ELSE "Suspicious"
        [] m.level = "Confirmed"  ->
             IF a < SuspiciousThreshold - AwarenessBandHysteresis THEN "Unaware"
             ELSE IF a < ConfirmedThreshold - AwarenessBandHysteresis THEN "Suspicious"
             ELSE "Confirmed"

\* The gates of ScoreEngagementValue.  VisibilityRatio is that of the last sighting.
WorthShooting(m) == m.confidence >= MinConfidenceToEngage /\ m.inView

\* ScoreTargetPriority with the default bias, doubled.
Priority(m, value) == m.danger + IF WorthShooting(m) THEN value ELSE 0

\* Everything that is remembered may be aimed at.
BadCandidates(K, mem) == K

\* The targets SelectPrimaryTarget considers.
Candidates(K, mem) == {t \in K : mem[t].level # "Unaware"}

\* SelectPrimaryTarget: the incumbent is kept for a while, and then until it is clearly
\* beaten; a target that scores nothing is never chosen.
Selections(K, mem, value, heldFor) ==
  LET C     == Candidates(K, mem)
      score == [t \in C |-> Priority(mem[t], value[t])]
      best  == {t \in C : score[t] > 0 /\ \A u \in C : score[u] <= score[t]}
      beats == {t \in best \ {primary} : 10 * score[t] > 12 * score[primary]}
  IN  IF primary \notin C THEN IF best = {} THEN {None} ELSE best
      ELSE IF heldFor < MinTargetHold \/ beats = {} THEN {primary}
      ELSE beats

\* sight: who is seen, how well, and whether enough of it is in view to shoot at.
UpdatePerception(seen, rate, inView) ==
  LET after == [t \in Target |->
                  IF t \in seen THEN Saw(Aged(memory[t]), rate[t], inView[t])
                  ELSE IF t \in remembered THEN Faded(Aged(memory[t])) ELSE Blank]
      left  == {t \in remembered \cup seen : Lasts(t, after[t])}
      heldFor == UpTo(MinTargetHold, held + 1)
  IN  /\ \E K \in Trimmed(left, after) : \E danger \in [K -> Danger], value \in [K -> Value] :
           /\ remembered' = K
           /\ memory' = [t \in Target |->
                IF t \in K THEN [after[t] EXCEPT !.level = Band(after[t]), !.danger = danger[t]]
                ELSE Blank]
           /\ \E selected \in Selections(K, memory', value, heldFor) :
                /\ primary' = selected
                /\ held' = IF selected # primary THEN 0 ELSE heldFor
                /\ announced' = IF selected # primary THEN selected ELSE announced
      /\ UNCHANGED gone

Update ==
  \E seen \in SUBSET Present :
    \E rate \in [seen -> Rate], inView \in [seen -> BOOLEAN] :
      UpdatePerception(seen, rate, inView)

Init ==
  /\ remembered = {}
  /\ memory = [t \in Target |-> Blank]
  /\ gone = {}
  /\ primary = None
  /\ held = 0
  /\ announced = None

Next ==
  \/ \E t \in Target : ReportDamageFrom(t)
  \/ \E t \in Target, impulse \in Impulse : ReportNoise(t, impulse)
  \/ \E t \in Target, age \in 0 .. Old - 1, reported \in Reported :
       ReceiveSharedThreat(t, age, reported)
  \/ \E t \in Target : ForgetTarget(t)
  \/ \E t \in Target : TargetDestroyed(t)
  \/ Update

Spec == Init /\ [][Next]_vars

----------------------------------------------------------------------------
(* Properties.                                                             *)

\* Every variable has its type; what is not remembered has no traces.
TypeOK ==
  /\ remembered \subseteq Target
  /\ memory \in [Target -> Memory]
  /\ \A t \in Target \ remembered : memory[t] = Blank
  /\ gone \subseteq Target
  /\ primary \in Target \cup {None} /\ announced \in Target \cup {None}
  /\ held \in 0 .. MinTargetHold

\* Hearsay does not become certainty by being repeated: whom the soldier never sensed
\* itself is not confirmed, and trusted no more than a report may be (rule R3 of
\* ReceiveSharedThreat).
HearsayIsNoCertainty ==
  \A t \in Target : ~memory[t].own =>
    /\ memory[t].level # "Confirmed"
    /\ memory[t].confidence <= SquadSharedConfidence

\* No report, however late it comes, moves a contact back behind the last time that the
\* soldier saw it (rules R1 and R2).
PlaceIsFresh ==
  \A t \in Target : memory[t].place <= memory[t].seen

\* Whoever listens to OnPrimaryTargetChanged knows the primary target, unless the one it
\* knows of was destroyed: then nobody is told that there is none any more.
ListenersKnowPrimary ==
  announced = primary \/ (primary = None /\ announced \in gone)

\* No report moves a contact back to an older observation than the one it is known by,
\* the soldier's own ones included: the comments of R1 and R2 in ReceiveSharedThreat.
NeverWalksBack ==
  [][\A t \in Target, age \in 0 .. Old - 1, reported \in Reported :
       ReceiveSharedThreat(t, age, reported) => memory'[t].place <= memory[t].place]_vars

\* A target that gives nothing away any more is forgotten, however often it was seen, heard
\* or reported before: after as many updates as full awareness takes to fade, or the
\* lifetime of a memory, if that is longer (DecayMemories).
SilentIsForgotten ==
  AwarenessDecay > 0 =>
    \A t \in remembered : memory[t].silent < Max({Full, MemoryLifetime + 1})

\* The detailed memory implements what it promises (module ThreatBelief).
Belief == INSTANCE ThreatBelief WITH
            level <- [t \in Target |-> memory[t].level],
            witnessed <- {t \in Target : memory[t].own},
            aim <- primary
Promise == Belief!BeliefSpec
=============================================================================
