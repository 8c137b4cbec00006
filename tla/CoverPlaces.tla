------------------------------ MODULE CoverPlaces ------------------------------
(***************************************************************************)
(* How soldiers keep out of each other's way and of their own last place   *)
(* when they look for cover: the query tokens and the recent occupancy of  *)
(* USoldierCoverSubsystem, and the soft claims of a squad                  *)
(* (USquadComponent, set and released by FSTT_ReportSlotClaim).            *)
(*                                                                         *)
(* The place itself is reserved by the engine's SmartObjects, which are    *)
(* not modelled.  No operation reads the occupancy of two soldiers, so     *)
(* the module holds that of one, who is called the walker.                 *)
(***************************************************************************)
EXTENDS Integers, Sequences, FiniteSets, FiniteSetsExt

CONSTANTS
  Soldier, Slot,
  MaxConcurrentQueries,
  RecencyWindow,     \* RecencyWindowSeconds
  RecencyDepth,      \* RecencyHistoryDepth
  ClaimLifetime      \* SlotSoftClaimLifetimeSec

ASSUME LimitAssumption == MaxConcurrentQueries \in Nat \ {0} /\ RecencyDepth \in Nat \ {0}
ASSUME TimeAssumption == RecencyWindow \in Nat \ {0} /\ ClaimLifetime \in Nat \ {0}

NoClaim == [slot |-> "None", left |-> 0]

VARIABLES
  gone,      \* soldiers whose actor the engine has destroyed
  inFlight,  \* InFlightQueries
  history,   \* RecentOccupancy[walker], newest first: the slot and the time since
  claims,    \* Blackboard.SlotClaims: [soldier -> slot and time left, or NoClaim]
  \* History, read by the properties alone:
  refused,   \* soldiers whose last TryAcquireQueryToken was refused
  since,     \* [slot -> time since the walker last arrived there, up to RecencyWindow]
  later      \* [slot -> arrivals of the walker since then, up to RecencyDepth]

queryVars == <<inFlight, refused>>
walkVars == <<history, since, later>>
vars == <<gone, queryVars, walkVars, claims>>

----------------------------------------------------------------------------
(* The query tokens.                                                       *)

\* Variants of an operator, named Bad..., hold the mistakes that the properties must tell
\* from the code; no action uses them.
\* Dead references are counted.
BadCleaned == inFlight

\* Dead references are cleaned up first.
Cleaned == inFlight \ gone

\* TryAcquireQueryToken; who already holds a token is told so.
TryAcquireQueryToken(s) ==
  /\ s \notin gone
  /\ IF s \in Cleaned \/ Cardinality(Cleaned) < MaxConcurrentQueries
       THEN inFlight' = Cleaned \cup {s} /\ refused' = refused \ {s}
       ELSE inFlight' = Cleaned /\ refused' = refused \cup {s}
  /\ UNCHANGED <<gone, walkVars, claims>>

ReleaseQueryToken(s) ==
  /\ s \in inFlight \ gone
  /\ inFlight' = inFlight \ {s}
  /\ UNCHANGED <<gone, refused, walkVars, claims>>

----------------------------------------------------------------------------
(* Recent occupancy.                                                       *)

\* The history is cut at the wrong end.
BadRemembered(slot) ==
  LET all == <<[slot |-> slot, age |-> 0]>> \o history
  IN  IF Len(history) < RecencyDepth THEN all ELSE history

\* The newest entry in front, RecencyDepth of them at most.
Remembered(slot) ==
  LET all == <<[slot |-> slot, age |-> 0]>> \o history
  IN  SubSeq(all, 1, Min({Len(all), RecencyDepth}))

NotifySlotOccupied(slot) ==
  /\ history' = Remembered(slot)
  /\ since' = [since EXCEPT ![slot] = 0]
  /\ later' = [x \in Slot |-> IF x = slot THEN 0 ELSE Min({later[x] + 1, RecencyDepth})]
  /\ UNCHANGED <<gone, queryVars, claims>>

\* GetRecencyScore, of which RecencyWindow stands for 1: the first entry of the slot counts.
RecencyScore(slot) ==
  LET at == {k \in DOMAIN history : history[k].slot = slot}
  IN  IF at = {} THEN RecencyWindow ELSE Min({history[Min(at)].age, RecencyWindow})

----------------------------------------------------------------------------
(* Soft claims.                                                            *)

\* RegisterSlotClaim, called when FSTT_ReportSlotClaim is entered and the squad resolves:
\* the newest claim of a member replaces its last one.
RegisterSlotClaim(m, slot) ==
  /\ m \notin gone
  /\ claims' = [claims EXCEPT ![m] = [slot |-> slot, left |-> ClaimLifetime]]
  /\ UNCHANGED <<gone, queryVars, walkVars>>

\* ReleaseSlotClaim, called when the state is left, if the squad still resolves.
ReleaseSlotClaim(m) ==
  /\ m \notin gone /\ claims[m] # NoClaim
  /\ claims' = [claims EXCEPT ![m] = NoClaim]
  /\ UNCHANGED <<gone, queryVars, walkVars>>

\* Claims run out only while their owner lives.
BadExpired(m) == claims[m].left = 0 /\ m \notin gone

Expired(m) == claims[m].left = 0

\* The end of Phase_UpdateTargetArbitration, in every tick of a squad that has anybody left;
\* until then GetSlotContentionMultiplier counts the old claim.
ExpireClaims ==
  /\ gone # Soldier
  /\ claims' = [m \in Soldier |-> IF Expired(m) THEN NoClaim ELSE claims[m]]
  /\ UNCHANGED <<gone, queryVars, walkVars>>

----------------------------------------------------------------------------
(* The world and the specification.                                        *)

\* The engine destroys a soldier's actor: weak pointers to it no longer resolve.
ActorDestroyed(s) ==
  /\ s \notin gone
  /\ gone' = gone \cup {s}
  /\ UNCHANGED <<queryVars, walkVars, claims>>

\* One time unit; ages stop at the window.
Elapse ==
  /\ history' = [k \in DOMAIN history |->
                   [history[k] EXCEPT !.age = Min({@ + 1, RecencyWindow})]]
  /\ since' = [x \in Slot |-> Min({since[x] + 1, RecencyWindow})]
  /\ claims' = [m \in Soldier |-> [claims[m] EXCEPT !.left = Max({@ - 1, 0})]]
  /\ UNCHANGED <<gone, queryVars, later>>

Init ==
  /\ gone = {} /\ inFlight = {} /\ refused = {}
  /\ history = <<>>
  /\ since = [x \in Slot |-> RecencyWindow]
  /\ later = [x \in Slot |-> RecencyDepth]
  /\ claims = [m \in Soldier |-> NoClaim]

Next ==
  \/ \E s \in Soldier : TryAcquireQueryToken(s) \/ ReleaseQueryToken(s) \/ ActorDestroyed(s)
  \/ \E slot \in Slot : NotifySlotOccupied(slot)
  \/ \E m \in Soldier, slot \in Slot : RegisterSlotClaim(m, slot)
  \/ \E m \in Soldier : ReleaseSlotClaim(m)
  \/ ExpireClaims
  \/ Elapse

\* Time passes and the squad, while it has a living member, is ticked (SquadScheduler).
Spec == Init /\ [][Next]_vars /\ WF_vars(Elapse) /\ WF_vars(ExpireClaims)

----------------------------------------------------------------------------
(* Properties.                                                             *)

\* A soldier is refused a query only while as many living soldiers as may be have one under
\* way: soldiers that die during theirs do not use the tokens up.
RefusedOnlyWhenBusy ==
  [][\A s \in refused' \ refused : Cardinality(inFlight' \ gone) = MaxConcurrentQueries]_vars

\* The score of a place comes from the walker's newest arrival there, and is lowered for the
\* whole window unless RecencyDepth arrivals have followed: neither an older entry of the
\* same place nor the cut of the history lets the walker swing back early.
NewestArrivalCounts ==
  \A x \in Slot : RecencyScore(x) = IF later[x] < RecencyDepth THEN since[x] ELSE RecencyWindow

\* "A dead or stuck member does not seal a slot for ever" (PLAN.md, section 6.1): once a
\* soldier is gone, its claim stops lowering the place's score for the living.
ClaimsEnd ==
  \A m \in Soldier :
    (m \in gone /\ claims[m] # NoClaim) ~> (claims[m] = NoClaim \/ gone = Soldier)
=============================================================================
