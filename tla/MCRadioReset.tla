----------------------------- MODULE MCRadioReset -----------------------------
(***************************************************************************)
(* RadioReset with concurrent resets and a radio that starts by itself.    *)
(***************************************************************************)
EXTENDS RadioReset

CONSTANTS c1, c2
===============================================================================
