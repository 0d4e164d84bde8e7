---------------------------- MODULE MCSpinelTools ----------------------------
(***************************************************************************)
(* SpinelTools with three processes, so that the third can meet what two   *)
(* left behind, and fewer TIDs than a startup has requests.                *)
(***************************************************************************)
EXTENDS SpinelTools, TLC

CONSTANT stream

MCWatched == [c \in Consumers |-> stream]
MCFirstTid == [capture |-> 1, sender |-> 3]
===============================================================================
