--------------------------- MODULE MCSquadTokens ---------------------------
(* Small squads for the model checker. *)
EXTENDS SquadTokens

MCRoles == [m \in Member |-> CASE m = 0 -> "Leader" [] m = 1 -> "AutomaticRifleman" [] OTHER -> "Rifleman"]
MCSuccession == [m \in Member |-> 10 - m]

PlanRule(perElement, sup, supOff, mov, movOff) ==
  [perElement |-> perElement,
   ratio |-> [t \in Type |-> IF t = "Suppression" THEN sup ELSE mov],
   offset |-> [t \in Type |-> IF t = "Suppression" THEN supOff ELSE movOff]]

MCRule ==
  [p \in {"BaseOfFire", "BoundingOverwatch", "Flank", "Withdraw"} |->
     CASE p = "BaseOfFire"        -> PlanRule(FALSE, 50, -1, 20, 0)
       [] p = "BoundingOverwatch" -> PlanRule(TRUE, 50, 0, 20, 1)
       [] p = "Flank"             -> PlanRule(TRUE, 50, 0, 20, 0)
       [] p = "Withdraw"          -> PlanRule(TRUE, 34, 0, 20, 0)]

MCMaxHold == [t \in Type |-> 1]
=============================================================================
