----------------------------- MODULE ThreatBelief -----------------------------
(***************************************************************************)
(* What the threat memory of a soldier promises to the layers above it,    *)
(* without ages, scores and places: whom the soldier knows of, how sure it *)
(* is of each of them, and whom it has in its sights.                      *)
(*                                                                         *)
(* A soldier never aims at somebody it does not believe in, and hearsay    *)
(* never becomes certainty.                                                *)
(***************************************************************************)
EXTENDS Integers

CONSTANTS
  Target,     \* the enemies
  None        \* no target; not one of Target

VARIABLES
  level,      \* [Target -> level of awareness]
  witnessed,  \* targets that the soldier has sensed itself
  aim         \* the primary target, or None

Level == {"Unaware", "Suspicious", "Confirmed"}
beliefVars == <<level, witnessed, aim>>

BeliefInit ==
  /\ level = [t \in Target |-> "Unaware"]
  /\ witnessed = {}
  /\ aim = None

\* The soldier sees, hears or is hit by somebody.
Witness(t) ==
  /\ witnessed' = witnessed \cup {t}
  /\ UNCHANGED <<level, aim>>

\* Somebody is forgotten or is destroyed.
LoseTarget(t) ==
  /\ level' \in {level, [level EXCEPT ![t] = "Unaware"]}
  /\ witnessed' \in {witnessed, witnessed \ {t}}
  /\ aim' = IF aim = t THEN None ELSE aim

\* The soldier makes up its mind: some enemies come into view, others fade, and then it
\* chooses whom to aim at.
Reflect ==
  /\ level' \in [Target -> Level]
  /\ witnessed' \in SUBSET Target
  /\ \A t \in Target : level'[t] = "Confirmed" => t \in witnessed'
  /\ aim' \in {None} \cup {t \in Target : level'[t] # "Unaware"}

BeliefNext ==
  \/ \E t \in Target : Witness(t) \/ LoseTarget(t)
  \/ Reflect

BeliefSpec == BeliefInit /\ [][BeliefNext]_beliefVars
=============================================================================
