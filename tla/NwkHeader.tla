------------------------------ MODULE NwkHeader ------------------------------
(***************************************************************************)
(* The octets of Zigbee network and auxiliary headers: NwkHeader,          *)
(* NwkSourceRoute and NwkAuxHeader of zigbee_nwk.rs, ZigbeeNwkHeader and   *)
(* ZigbeeNwkAuxHeader of zigbee_types.py.  A reader either fails, with an  *)
(* error or by reading beyond the end, or gives a header and its length.   *)
(***************************************************************************)
EXTENDS ZigbeeTypes

EuiLength == 8

NwkControls ==
    [type : 0 .. 3, version : 0 .. 15, route : 0 .. 3, multicast : 0 .. 1, security : 0 .. 1,
     sourceRoute : 0 .. 1, destination : 0 .. 1, extended : 0 .. 1, initiator : 0 .. 1, reserved : 0 .. 3]

\* The fields that may be absent are present where the control says so.
IsNwk(h) ==
    /\ h \in [control : NwkControls, destination : U16, source : U16, radius : Octet, sequence : Octet,
              destinationIeee : Seq(Octet), sourceIeee : Seq(Octet), multicastControl : Seq(Octet),
              sourceRoute : Seq([index : Octet, relays : Seq(U16)])]
    /\ Len(h.destinationIeee) = EuiLength * h.control.destination
    /\ Len(h.sourceIeee) = EuiLength * h.control.extended
    /\ Len(h.multicastControl) = h.control.multicast
    /\ Len(h.sourceRoute) = h.control.sourceRoute
    /\ IsPresent(h.sourceRoute) => Len(h.sourceRoute[1].relays) \in Octet

AuxControls ==
    [level : 0 .. 7, keyId : 0 .. 3, extended : 0 .. 1, verified : 0 .. 1, reserved : 0 .. 1]

IsAux(a) ==
    /\ a \in [control : AuxControls, counter : Seq(Octet), extendedSource : Seq(Octet), keySequence : Octet]
    /\ Len(a.counter) = 4
    /\ Len(a.extendedSource) = EuiLength * a.control.extended

\* NwkFrameControl
ReadNwkControl(s) ==
    [type |-> Bits(s[1], 0, 2), version |-> Bits(s[1], 2, 4), route |-> Bits(s[1], 6, 2),
     multicast |-> Bits(s[2], 0, 1), security |-> Bits(s[2], 1, 1), sourceRoute |-> Bits(s[2], 2, 1),
     destination |-> Bits(s[2], 3, 1), extended |-> Bits(s[2], 4, 1), initiator |-> Bits(s[2], 5, 1),
     reserved |-> Bits(s[2], 6, 2)]

WriteNwkControl(c) ==
    <<c.type + 4 * c.version + 64 * c.route,
      c.multicast + 2 * c.security + 4 * c.sourceRoute + 8 * c.destination + 16 * c.extended
        + 32 * c.initiator + 64 * c.reserved>>

\* Rust has no type 2 and no route discovery 3; Python takes what its enumerations lack.
NwkKnown(l, c) == l = "rust" => c.type # 2 /\ c.route # 3

\* Where the fields that may be absent end: IEEE addresses, multicast control, source route.
EndOfIeee(c) == 8 + EuiLength * (c.destination + c.extended)
EndOfMulticast(c) == EndOfIeee(c) + c.multicast
NwkLength(s) ==
    LET c == ReadNwkControl(s)
        n == EndOfMulticast(c)
    IN  IF c.sourceRoute = 0 THEN n ELSE n + 2 + (IF Len(s) > n THEN 2 * s[n + 1] ELSE 0)

\* Rust indexes the multicast control without a look.
NwkOutcome(l, s) ==
    CASE Len(s) < 8 -> "error"
      [] Len(s) >= 8 /\ (~NwkKnown(l, ReadNwkControl(s)) \/ Len(s) < EndOfIeee(ReadNwkControl(s))) -> "error"
      [] OTHER ->
           IF l = "rust" /\ Len(s) < EndOfMulticast(ReadNwkControl(s)) THEN "panic"
           ELSE IF Len(s) < NwkLength(s) THEN "error" ELSE "read"

\* NwkHeader::deserialize of octets that are enough.
ReadNwk(s) ==
    LET c == ReadNwkControl(s)
        Eui(present, n) == IF present = 1 THEN SubSeq(s, n + 1, n + EuiLength) ELSE Absent
        m == EndOfMulticast(c)
    IN  [control |-> c, destination |-> Nwk(SubSeq(s, 3, 4)), source |-> Nwk(SubSeq(s, 5, 6)),
         radius |-> s[7], sequence |-> s[8],
         destinationIeee |-> Eui(c.destination, 8),
         sourceIeee |-> Eui(c.extended, 8 + EuiLength * c.destination),
         multicastControl |-> SubSeq(s, EndOfIeee(c) + 1, m),
         sourceRoute |->
           IF c.sourceRoute = 0 THEN Absent
           ELSE <<[index |-> s[m + 2],
                   relays |-> [i \in 1 .. s[m + 1] |-> Nwk(SubSeq(s, m + 1 + 2 * i, m + 2 + 2 * i))]]>>]

\* The octets of relays, two for each.
RelayOctets(relays) == [i \in 1 .. 2 * Len(relays) |-> NwkOctets(relays[(i + 1) \div 2])[2 - (i % 2)]]

\* Mutant: the relays from the last to the first.
WriteRouteBackwards(r) == <<Len(r.relays), r.index>> \o RelayOctets(Reverse(r.relays))
\* NwkSourceRoute::to_bytes: the count is that of the relays.
WriteRoute(r) == <<Len(r.relays), r.index>> \o RelayOctets(r.relays)

\* NwkHeader::to_bytes: what is present is written, whatever the control says.
WriteNwk(h) ==
    WriteNwkControl(h.control) \o NwkOctets(h.destination) \o NwkOctets(h.source) \o <<h.radius, h.sequence>>
        \o h.destinationIeee \o h.sourceIeee \o h.multicastControl
        \o (IF IsPresent(h.sourceRoute) THEN WriteRoute(h.sourceRoute[1]) ELSE <<>>)
-------------------------------------------------------------------------------
(* The auxiliary header *)

\* NwkSecurityHeaderControlField; Python has the last two bits in one field.
ReadAuxControl(o) ==
    [level |-> Bits(o, 0, 3), keyId |-> Bits(o, 3, 2), extended |-> Bits(o, 5, 1),
     verified |-> Bits(o, 6, 1), reserved |-> Bits(o, 7, 1)]

WriteAuxControl(c) == c.level + 8 * c.keyId + 32 * c.extended + 64 * c.verified + 128 * c.reserved

AuxLength(s) == 6 + EuiLength * ReadAuxControl(s[1]).extended

\* Rust looks at the length before the counter and before the source, and indexes the key's
\* sequence number.
AuxOutcome(l, s) ==
    CASE Len(s) < 6 -> "error"
      [] Len(s) >= 6 /\ Len(s) >= AuxLength(s) -> "read"
      [] OTHER -> IF l = "rust" /\ Len(s) = AuxLength(s) - 1 THEN "panic" ELSE "error"

\* NwkAuxHeader::deserialize; the counter keeps its octets.
ReadAux(s) ==
    [control |-> ReadAuxControl(s[1]), counter |-> SubSeq(s, 2, 5),
     extendedSource |-> SubSeq(s, 6, AuxLength(s) - 1), keySequence |-> s[AuxLength(s)]]

WriteAux(a) == <<WriteAuxControl(a.control)>> \o a.counter \o a.extendedSource \o <<a.keySequence>>
===============================================================================
