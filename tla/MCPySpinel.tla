----------------------------- MODULE MCPySpinel -----------------------------
(***************************************************************************)
(* PySpinel on a small instance: a cycle of two TIDs and one call more     *)
(* than that, one retry, and a notification that data_received may choke   *)
(* on.                                                                     *)
(***************************************************************************)
EXTENDS PySpinel

CONSTANTS c1, c2, c3
MCCalls == {c1, c2, c3}

\* Calls differ in nothing but their name, so they may as well start in this order.
\* Nobody is bound by fairness to start one: liveness is not touched by it.
InOrder == issued' > issued => /\ order'[c1] = 0 => order'[c2] = 0
                               /\ order'[c2] = 0 => order'[c3] = 0

\* Bound: the notification comes before the last call, if at all.
NoticeEarly == notices' > notices => order'[c3] = 0
=============================================================================
