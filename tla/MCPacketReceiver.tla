--------------------------- MODULE MCPacketReceiver ---------------------------
(***************************************************************************)
(* PacketReceiver with one frame of each fate: handed up with and without  *)
(* an acknowledgement, replied to, dropped before and after decryption,    *)
(* and the two that raise.                                                 *)
(***************************************************************************)
EXTENDS PacketReceiver

CONSTANTS plain, acked, routeRequest, foreign, apsAck, forged, lastHop

Packet == [type |-> "Data", pan |-> "ours", dest |-> "us", readable |-> TRUE,
           nwk |-> "Data", aps |-> "Data", ack |-> FALSE, radius |-> 30]

MCHeader ==
    [f \in {plain, acked, routeRequest, foreign, apsAck, forged, lastHop} |->
        CASE f = plain -> [Packet EXCEPT !.dest = "broadcast"]
          [] f = acked -> [Packet EXCEPT !.ack = TRUE, !.radius = 1]
          [] f = routeRequest -> [Packet EXCEPT !.nwk = "routeRequest", !.dest = "broadcast"]
          [] f = foreign -> [Packet EXCEPT !.dest = "elsewhere", !.readable = FALSE]
          [] f = apsAck -> [Packet EXCEPT !.aps = "other"]
          [] f = forged -> [Packet EXCEPT !.readable = FALSE]
          [] f = lastHop -> [Packet EXCEPT !.ack = TRUE, !.radius = 0]]

AllFrames == DOMAIN MCHeader

CONSTANTS s1, s2
===============================================================================
