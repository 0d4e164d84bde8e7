------------------------------- MODULE ApsFrame -------------------------------
(***************************************************************************)
(* The two codecs of APS frames: ApsFrame of zigbee_aps.rs and             *)
(* ZigbeeApsFrame of zigbee_types.py.  Both read numbers low octet first;  *)
(* Python writes them so, Rust high octet first.                           *)
(***************************************************************************)
EXTENDS ZigbeeTypes

ApsHeaderLength == 8

IsAps(f) ==
    f \in [control : [type : 0 .. 3, mode : 0 .. 3, reserved : 0 .. 1, security : 0 .. 1, ack : 0 .. 1, extended : 0 .. 1],
           destination : Octet, cluster : U16, profile : U16, source : Octet, counter : Octet, asdu : Seq(Octet)]

ReadApsControl(o) ==
    [type |-> Bits(o, 0, 2), mode |-> Bits(o, 2, 2), reserved |-> Bits(o, 4, 1),
     security |-> Bits(o, 5, 1), ack |-> Bits(o, 6, 1), extended |-> Bits(o, 7, 1)]

WriteApsControl(c) ==
    c.type + 4 * c.mode + 16 * c.reserved + 32 * c.security + 64 * c.ack + 128 * c.extended

\* Rust has no type 1 and no mode 1; Python takes what its enumerations lack.
ApsKnown(l, c) == l = "rust" => c.type # 1 /\ c.mode # 1

ApsNumber(l, n) == IF l = "rust" THEN HighFirst(n, 2) ELSE LowFirst(n, 2)

\* to_bytes, serialize
WriteAps(l, f) ==
    <<WriteApsControl(f.control), f.destination>> \o ApsNumber(l, f.cluster) \o ApsNumber(l, f.profile)
        \o <<f.source, f.counter>> \o f.asdu

\* Mutant: the first octet of the ASDU is taken for the end of the header.
ReadApsLate(l, s) ==
    IF Len(s) < ApsHeaderLength \/ ~ApsKnown(l, ReadApsControl(s[1])) THEN Absent
    ELSE <<[control |-> ReadApsControl(s[1]), destination |-> s[2],
            cluster |-> Number(SubSeq(s, 3, 4)), profile |-> Number(SubSeq(s, 5, 6)),
            source |-> s[7], counter |-> s[8], asdu |-> SubSeq(s, 10, Len(s))]>>

\* from_bytes: the frame, or nothing where it fails.
ReadAps(l, s) ==
    IF Len(s) < ApsHeaderLength \/ ~ApsKnown(l, ReadApsControl(s[1])) THEN Absent
    ELSE <<[control |-> ReadApsControl(s[1]), destination |-> s[2],
            cluster |-> Number(SubSeq(s, 3, 4)), profile |-> Number(SubSeq(s, 5, 6)),
            source |-> s[7], counter |-> s[8], asdu |-> SubSeq(s, 9, Len(s))]>>
===============================================================================
