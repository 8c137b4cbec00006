--------------------------- MODULE ContactReports ---------------------------
(***************************************************************************)
(* The radio of one squad (USquadComponent, layer L1).                     *)
(*                                                                         *)
(* A soldier that sees an enemy reports it (SubmitContactReport).  A       *)
(* report that passes the gate - the reporter lives, the radio is not      *)
(* busy, the target was not reported by the same soldier a moment ago -    *)
(* goes at once into the squad's book (MergeIntoKnownThreats) and, after a *)
(* delay of its own for every comrade (EnqueueContactDeliveries), into the *)
(* comrades' memories (Phase_DeliverPendingReports).                       *)
(*                                                                         *)
(* Times are countdowns in time units.  Reports are numbered in the order  *)
(* they are accepted, which is the order of ObservedAtSeconds.             *)
(***************************************************************************)
EXTENDS Integers, Sequences, FiniteSets, SequencesExt

CONSTANTS
  N,              \* Members.Num()
  Target,         \* the enemies
  Place,          \* where a target may be seen; two places are far apart
  Seen,           \* the ObserverConfidence values, in tenths
  Threat,         \* the ThreatLevel values
  SharedCap,      \* SharedConfidenceCap, in tenths
  MaxKnown,       \* MaxKnownThreats
  MaxDepth,       \* MaxReportQueueDepth
  Delay,          \* the radio delays, after the clamp to RadioDelayClampSec
  Cooldown,       \* ReportCooldownSec
  Second,         \* the width of the budget's window, one second
  MaxPerSecond,   \* MaxReportsPerSecond
  MaxReports      \* bound on the number of reports accepted

Member == 0 .. N - 1

ASSUME SizeAssumption ==
  /\ N \in Nat \ {0}
  /\ {MaxKnown, MaxDepth} \subseteq Nat \ {0}
  /\ MaxReports \in Nat
ASSUME RadioAssumption ==
  /\ Delay \subseteq Nat \ {0} /\ Delay # {} /\ IsFiniteSet(Delay)
  /\ {Cooldown, Second, MaxPerSecond} \subseteq Nat
ASSUME DataAssumption ==
  /\ Seen \subseteq Nat /\ Threat \subseteq Nat
  /\ SharedCap \in Nat
  /\ Place # {}

VARIABLES
  alive,        \* members for which IsAlive holds
  gone,         \* targets that were destroyed: every weak pointer to them is null
  cooling,      \* [member, target]: what is left of the cooldown since LastReportTimeByTarget
  window,       \* what is left of the second that began at ReportBudgetWindowStart
  inWindow,     \* ReportsThisWindow
  known,        \* Blackboard.KnownThreats
  queue,        \* Blackboard.ReportQueue
  log,          \* the reports accepted so far: their target, and their recipients
  \* History, read by the properties alone:
  heard,        \* deliveries that reached a memory, as <<report, member>>
  lost          \* deliveries that overflow threw away, or that nobody was there to hear

radioVars == <<cooling, window, inWindow>>
historyVars == <<heard, lost>>
vars == <<alive, gone, radioVars, known, queue, log, historyVars>>

MinOf(a, b) == IF a < b THEN a ELSE b
Slowest == CHOOSE d \in Delay : \A e \in Delay : e <= d

KnownThreat == [target : Target, place : Place, threat : Threat,
                confidence : Nat, report : 1 .. MaxReports]
Delivery == [report : 1 .. MaxReports, target : Target, to : Member, left : 0 .. Slowest]

DeliveriesOf(deliveries) == {<<d.report, d.to>> : d \in deliveries}
Pending == DeliveriesOf(ToSet(queue))

----------------------------------------------------------------------------
(* The squad's book: MergeIntoKnownThreats.                                *)

\* A known threat still names its target: Known.Target.Get() is not null.
Entries(t) == {i \in 1 .. Len(known) : known[i].target = t /\ t \notin gone}

Score(entry) == entry.threat * entry.confidence

\* The entry with the lowest score, the first of them.
Worst == CHOOSE i \in 1 .. Len(known) :
  \A j \in 1 .. Len(known) :
     \/ Score(known[i]) < Score(known[j])
     \/ Score(known[i]) = Score(known[j]) /\ i <= j

\* Variants of an operator, named Bad..., hold the mistakes that the properties must tell
\* from the code; no action uses them.
\* The slot of the weakest entry is taken without asking whether the target has one.
BadMerged(entry) ==
  IF Len(known) < MaxKnown THEN Append(known, entry)
  ELSE IF Score(entry) > Score(known[Worst]) THEN [known EXCEPT ![Worst] = entry]
  ELSE known

\* A report replaces the entry of its target, takes a free one, or evicts the weakest that
\* it beats.  (Reports come in the order they were observed, so the entry it finds is never
\* the newer one.)
Merged(entry) ==
  IF Entries(entry.target) # {} THEN
    [i \in 1 .. Len(known) |-> IF i \in Entries(entry.target) THEN entry ELSE known[i]]
  ELSE IF Len(known) < MaxKnown THEN Append(known, entry)
  ELSE IF Score(entry) > Score(known[Worst]) THEN [known EXCEPT ![Worst] = entry]
  ELSE known

----------------------------------------------------------------------------
(* SubmitContactReport.                                                    *)

\* The window of the radio's budget as this call sees it: a new one after a second.
WindowOver == window = 0
ReportsInWindow == IF WindowOver THEN 0 ELSE inWindow

MovedFar(t, p) == \E i \in Entries(t) : known[i].place # p

Cooling(m, t) == cooling[m][t] > 0

\* Everybody who can hear, but the one who reports.
Recipients(m) == alive \ {m}

\* The members in the order in which the loop of EnqueueContactDeliveries meets them.
InOrder(S) == CHOOSE order \in [1 .. Cardinality(S) -> S] :
  \A i, j \in 1 .. Cardinality(S) : i < j => order[i] < order[j]

\* What that loop adds to the queue, one delivery for each who can hear.
Addressed(report, t, S, delay) ==
  LET order == InOrder(S)
  IN  [i \in 1 .. Cardinality(S) |->
         [report |-> report, target |-> t, to |-> order[i], left |-> delay[order[i]]]]

\* The queue is only ever appended to.
BadEnqueued(deliveries) == [kept |-> queue \o deliveries, out |-> {}]

\* The deliveries are added one by one; before each of them the first of a full queue goes,
\* which may be one that was added a moment ago.
Enqueued(deliveries) ==
  LET both == queue \o deliveries
      out  == IF Len(both) > MaxDepth THEN Len(both) - MaxDepth ELSE 0
  IN  [kept |-> SubSeq(both, out + 1, Len(both)),
       out  |-> ToSet(SubSeq(both, 1, out))]

Confidence(seen) == MinOf(seen, SharedCap)

\* SubmitContactReport, accepted.
Accept(m, t, p, seen, threat) ==
  /\ m \in alive
  /\ t \notin gone
  /\ Len(log) < MaxReports
  /\ ReportsInWindow < MaxPerSecond
  /\ ~Cooling(m, t) \/ MovedFar(t, p)
  /\ window' = IF WindowOver THEN Second ELSE window
  /\ inWindow' = ReportsInWindow + 1
  /\ cooling' = [cooling EXCEPT ![m][t] = Cooldown]
  /\ log' = Append(log, [target |-> t, to |-> Recipients(m)])
  /\ known' = Merged([target |-> t, place |-> p, threat |-> threat,
                      confidence |-> Confidence(seen), report |-> Len(log')])
  /\ \E delay \in [Recipients(m) -> Delay] :
       LET added == Addressed(Len(log'), t, Recipients(m), delay)
       IN  /\ queue' = Enqueued(added).kept
           /\ lost' = lost \cup DeliveriesOf(Enqueued(added).out)
  /\ UNCHANGED <<alive, gone, heard>>

\* SubmitContactReport, refused because of the cooldown, after it renewed the window.
RefuseCooling(m, t, p) ==
  /\ m \in alive
  /\ t \notin gone
  /\ ReportsInWindow < MaxPerSecond
  /\ Cooling(m, t) /\ ~MovedFar(t, p)
  /\ WindowOver
  /\ window' = Second
  /\ inWindow' = 0
  /\ UNCHANGED <<alive, gone, cooling, known, queue, log, historyVars>>

----------------------------------------------------------------------------
(* Phase_DeliverPendingReports, in a squad tick.                           *)

Due(d) == d.left = 0

\* The last delivery takes the place of the one that is removed.
RemoveAtSwap(q, i) == [j \in 1 .. Len(q) - 1 |-> IF j = i THEN q[Len(q)] ELSE q[j]]

\* The walk runs from the front and skips the delivery that RemoveAtSwap moves under it.
BadSwept ==
  LET after[k \in 0 .. Len(queue)] ==
        IF k = 0 THEN queue
        ELSE IF k <= Len(after[k - 1]) /\ Due(after[k - 1][k]) THEN RemoveAtSwap(after[k - 1], k)
        ELSE after[k - 1]
  IN  after[Len(queue)]

\* What the walk from the end to the front leaves in the queue; its step k is at the k-th
\* delivery from the end.
Swept ==
  LET after[k \in 0 .. Len(queue)] ==
        LET i == Len(queue) + 1 - k
        IN  IF k = 0 THEN queue
            ELSE IF Due(after[k - 1][i]) THEN RemoveAtSwap(after[k - 1], i)
            ELSE after[k - 1]
  IN  after[Len(queue)]

\* The recipient is there to hear it, and the report still has a subject.
Delivers(d, hears) == d.to \in hears /\ d.target \notin gone

\* A squad tick collects who can hear and then delivers what is due.
Tick(hears) ==
  LET due == {d \in ToSet(queue) : Due(d)}
      got == {d \in due : Delivers(d, hears)}
  IN  /\ alive' = hears
      /\ queue' = Swept
      /\ heard' = heard \cup DeliveriesOf(got)
      /\ lost' = lost \cup DeliveriesOf(due \ got)
      /\ UNCHANGED <<gone, radioVars, known, log>>

SquadTick == \E hears \in SUBSET Member : Tick(hears)

\* A member loses its Pawn, or its death is notified, between two ticks.
MemberFalls(m) ==
  /\ m \in alive
  /\ alive' = alive \ {m}
  /\ UNCHANGED <<gone, radioVars, known, queue, log, historyVars>>

\* A target leaves the world: the entries and the deliveries about it stay.
TargetDestroyed(t) ==
  /\ t \notin gone
  /\ gone' = gone \cup {t}
  /\ UNCHANGED <<alive, radioVars, known, queue, log, historyVars>>

\* One time unit passes.
Lapsed(left) == IF left = 0 THEN 0 ELSE left - 1

Elapse ==
  /\ cooling' = [m \in Member |-> [t \in Target |-> Lapsed(cooling[m][t])]]
  /\ window' = Lapsed(window)
  /\ queue' = [i \in 1 .. Len(queue) |-> [queue[i] EXCEPT !.left = Lapsed(@)]]
  /\ UNCHANGED <<alive, gone, inWindow, known, log, historyVars>>

Init ==
  /\ alive = Member
  /\ gone = {}
  /\ cooling = [m \in Member |-> [t \in Target |-> 0]]
  /\ window = 0
  /\ inWindow = 0
  /\ known = <<>>
  /\ queue = <<>>
  /\ log = <<>>
  /\ heard = {}
  /\ lost = {}

Next ==
  \/ \E m \in Member, t \in Target, p \in Place, seen \in Seen, threat \in Threat :
       Accept(m, t, p, seen, threat)
  \/ \E m \in Member, t \in Target, p \in Place : RefuseCooling(m, t, p)
  \/ SquadTick
  \/ \E m \in Member : MemberFalls(m)
  \/ \E t \in Target : TargetDestroyed(t)
  \/ Elapse

Spec == Init /\ [][Next]_vars

----------------------------------------------------------------------------
(* Properties.                                                             *)

\* Every variable has its type; the queue and the book stay within their limits.
TypeOK ==
  /\ alive \subseteq Member
  /\ gone \subseteq Target
  /\ cooling \in [Member -> [Target -> 0 .. Cooldown]]
  /\ window \in 0 .. Second
  /\ inWindow \in 0 .. MaxPerSecond
  /\ known \in Seq(KnownThreat) /\ Len(known) <= MaxKnown
  /\ queue \in Seq(Delivery) /\ Len(queue) <= MaxDepth
  /\ log \in Seq([target : Target, to : SUBSET Member]) /\ Len(log) <= MaxReports
  /\ {heard, lost} \subseteq SUBSET ((1 .. MaxReports) \X Member)

\* The deliveries that were ever queued: a report goes to everybody who was alive but the
\* one who made it.
Sent == UNION {{r} \X log[r].to : r \in 1 .. Len(log)}

\* Every delivery meets one end: whatever was sent is on its way, was heard, or is lost,
\* and never two of these; the queue holds nothing twice (Phase_DeliverPendingReports
\* removes from the array it walks, EnqueueContactDeliveries drops from the array it fills).
OneEnd ==
  /\ Sent = Pending \cup heard \cup lost
  /\ Cardinality(Sent) = Len(queue) + Cardinality(heard) + Cardinality(lost)

\* A squad tick leaves nothing in the queue that is due, and takes nothing that is not
\* (RemoveAtSwap reorders the array under the walk of Phase_DeliverPendingReports).
DeliveredWhenDue ==
  [][(\E hears \in SUBSET Member : Tick(hears)) =>
       ToSet(queue') = {d \in ToSet(queue) : d.left > 0}]_vars

\* What the squad's book says of an enemy is the last thing that was reported of it, and it
\* says it once, whatever was evicted and reported again in between (MergeIntoKnownThreats).
BookIsFresh ==
  \A i, j \in 1 .. Len(known) : known[i].target \notin gone =>
    /\ i # j => known[i].target # known[j].target
    /\ \A r \in 1 .. Len(log) : log[r].target = known[i].target => r <= known[i].report

\* Overflow throws away the oldest report of the queue: what the comment in
\* EnqueueContactDeliveries says.
OldestDroppedFirst ==
  [][Len(log') > Len(log) =>
       \A x \in lost' \ lost, y \in Pending' : x[1] <= y[1]]_vars
=============================================================================
