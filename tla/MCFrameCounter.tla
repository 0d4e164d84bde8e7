---------------------------- MODULE MCFrameCounter ----------------------------
(***************************************************************************)
(* FrameCounter with a packet of zigpy's and an APS acknowledgement, which *)
(* is tried once; two attempts stand for five.                             *)
(***************************************************************************)
EXTENDS FrameCounter
CONSTANTS packet, ack
MCFrames == {packet, ack}
MCAttempts == [f \in MCFrames |-> IF f = ack THEN 1 ELSE 2]
===============================================================================
