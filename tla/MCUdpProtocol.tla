--------------------------- MODULE MCUdpProtocol ---------------------------
(* A few calls with one retry each for the model checker. *)
EXTENDS UdpProtocol

MCRetries == [k \in Kind |-> IF k = "event" THEN 1 ELSE 0]
=============================================================================
