--------------------------- MODULE MCSquadScheduler ---------------------------
(* Three squads for the model checker. *)
EXTENDS SquadScheduler

Times == {1, 3}
=============================================================================
