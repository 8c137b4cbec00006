---------------------------- MODULE SquadScheduler ----------------------------
(***************************************************************************)
(* The scheduler of the squads (USquadSubsystem): it hands out the squad   *)
(* ticks of SquadTokens and ContactReports.                                *)
(*                                                                         *)
(* Every frame earns credit at the sum of the rates that the squads ask    *)
(* for, and spends at most one credit, on the squad under the cursor.  A   *)
(* squad asks for its rate while it takes a member to be alive, and learns *)
(* how its members are only in its own tick.                               *)
(***************************************************************************)
EXTENDS Integers, Sequences, SequencesExt, FiniteSetsExt

CONSTANTS
  Squad,            \* the squads' ids
  SquadTickHz,      \* credit that a squad with somebody alive earns per time unit
  Credit,           \* how much of it buys a tick (1.0)
  FrameTime,        \* the lengths of a frame
  Lap               \* a common multiple of 1 .. Cardinality(Squad)

ASSUME RateAssumption == SquadTickHz \in Nat \ {0} /\ Credit \in Nat \ {0}
ASSUME FrameAssumption == FrameTime \subseteq Nat \ {0}
ASSUME LapAssumption == \A n \in 1 .. Cardinality(Squad) : Lap % n = 0

VARIABLES
  squads,       \* Squads, in the order of their creation
  cursor,       \* Cursor, modulo Lap: enough to know Cursor % Squads.Num()
  accumulator,  \* Accumulator
  alive,        \* squads for which GetAliveCount is positive
  fit           \* squads with a member that could really act

schedulerVars == <<squads, cursor, accumulator>>
vars == <<schedulerVars, alive, fit>>

Created == ToSet(squads)

MinOf(a, b) == IF a < b THEN a ELSE b

----------------------------------------------------------------------------
(* The squads change between frames.                                       *)

\* CreateSquad; an id that is taken returns the squad that has it.
CreateSquad(s) ==
  /\ s \notin Created
  /\ squads' = Append(squads, s)
  /\ UNCHANGED <<cursor, accumulator, alive, fit>>

\* RegisterMember: a new member counts as healthy.
RegisterMember(s) ==
  /\ s \in Created
  /\ alive' = alive \cup {s}
  /\ fit' = fit \cup {s}
  /\ UNCHANGED schedulerVars

\* The last member that could act goes down or dies; a death that is notified, and a Pawn
\* that is lost, count at once.
LastMemberFalls(s) ==
  /\ s \in fit
  /\ fit' = fit \ {s}
  /\ alive' \in {alive, alive \ {s}}
  /\ UNCHANGED schedulerVars

\* A downed member is on its feet again.
MemberRecovers(s) ==
  /\ s \in Created \ fit
  /\ fit' = fit \cup {s}
  /\ UNCHANGED <<schedulerVars, alive>>

----------------------------------------------------------------------------
(* Tick.                                                                   *)

AggregateHz == SquadTickHz * Cardinality(alive)

\* Variants of an operator, named Bad..., hold the mistakes that the properties must tell
\* from the code; no action uses them.
\* The cursor starts again one squad too early.
BadNextCursor == IF cursor + 1 >= Len(squads) - 1 THEN 0 ELSE cursor + 1

NextCursor == (cursor + 1) % Lap

Turn == squads[(cursor % Len(squads)) + 1]

\* TickSquad, as the scheduler sees it: a squad without anybody alive is passed over.
BadTicked(s) == IF s \in alive /\ s \notin fit THEN alive \ {s} ELSE alive

\* TickSquad, as the scheduler sees it: Phase_CollectMemberStatus asks every member.
Ticked(s) == IF s \in fit THEN alive \cup {s} ELSE alive \ {s}

\* Backlog is dropped: never more than two credits before the frame's tick.
Earned(time) == MinOf(accumulator + time * AggregateHz, 2 * Credit)

\* Nobody asks for ticks: the credit is lost.
IdleFrame ==
  /\ squads # <<>>
  /\ AggregateHz = 0
  /\ accumulator' = 0
  /\ UNCHANGED <<squads, cursor, alive, fit>>

\* The frame's credit does not yet buy a tick.
SavingFrame(time) ==
  /\ squads # <<>>
  /\ AggregateHz > 0
  /\ Earned(time) < Credit
  /\ accumulator' = MinOf(Earned(time), Credit)
  /\ UNCHANGED <<squads, cursor, alive, fit>>

\* One squad is ticked (FallbackMaxSquadsPerFrame), and at most one credit is left over.
TickingFrame(time) ==
  /\ squads # <<>>
  /\ AggregateHz > 0
  /\ Earned(time) >= Credit
  /\ accumulator' = MinOf(Earned(time) - Credit, Credit)
  /\ cursor' = NextCursor
  /\ alive' = Ticked(Turn)
  /\ UNCHANGED <<squads, fit>>

Tick == IdleFrame \/ \E time \in FrameTime : SavingFrame(time) \/ TickingFrame(time)

Init ==
  /\ squads = <<>>
  /\ cursor = 0
  /\ accumulator = 0
  /\ alive = {}
  /\ fit = {}

Next ==
  \/ \E s \in Squad : CreateSquad(s)
  \/ \E s \in Squad : RegisterMember(s)
  \/ \E s \in Squad : LastMemberFalls(s)
  \/ \E s \in Squad : MemberRecovers(s)
  \/ Tick

\* The engine runs frame after frame.
Spec == Init /\ [][Next]_vars /\ WF_vars(Tick)

----------------------------------------------------------------------------
(* Properties.                                                             *)

\* A squad with somebody alive goes on being ticked: the fairness of TickSquad that the
\* liveness properties of SquadTokens take for granted.
LiveSquadsTick ==
  \A s \in Squad : <>[](s \in alive) => []<><<cursor' # cursor /\ Turn = s>>_vars

\* A squad that had nobody left notices that a member is on its feet again, as long as
\* the scheduler runs for the sake of another squad.
RecoveryIsNoticed ==
  \A s \in Squad : <>[](alive \ {s} # {}) => (s \in fit ~> (s \in alive \/ s \notin fit))
=============================================================================
