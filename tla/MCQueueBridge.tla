--------------------------- MODULE MCQueueBridge ---------------------------
(***************************************************************************)
(* Instances of QueueBridge for TLC.                                       *)
(***************************************************************************)
EXTENDS QueueBridge

NoCalls == {}
=============================================================================
