---------------------------- MODULE MCThreatMemory ----------------------------
(* Small memories for the model checker. *)
EXTENDS ThreatMemory, TLC

MCRate == {1, 2}
MCReported == {0, Full}
MCImpulse == {0, 1}
MCDanger == {0, 5}
MCValue == {0, 3}
Alike == Permutations(Target)
=============================================================================
