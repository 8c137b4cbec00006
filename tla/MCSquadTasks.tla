----------------------------- MODULE MCSquadTasks -----------------------------
(* One token of each type for the model checker. *)
EXTENDS SquadTasks

Caps == [t \in Type |-> 1]
=============================================================================
