----------------------- MODULE MCPerceptionScheduler -----------------------
(* Two LOD tiers for the model checker. *)
EXTENDS PerceptionScheduler

MCInterval == [t \in Tier |-> t + 1]
=============================================================================
