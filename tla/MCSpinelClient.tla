--------------------------- MODULE MCSpinelClient ---------------------------
(***************************************************************************)
(* SpinelClient on small instances.  The cycle of TIDs has 2 values and    *)
(* there are more calls than that, so that TIDs are reused while a request *)
(* is pending, while it is being cancelled and after its answer is late.   *)
(***************************************************************************)
EXTENDS SpinelClient
=============================================================================
