------------------------------- MODULE MacFrame -------------------------------
(***************************************************************************)
(* The two codecs of IEEE 802.15.4 frames: Ieee802154Frame of              *)
(* ieee_802154.rs and IEEE802154Frame of zigbee_types.py.  One of them, or *)
(* a device of somebody else, puts a frame on the air, which may damage a  *)
(* burst of octets; both read it.  A field is the sequence of its octets,  *)
(* low octet first, and an absent field is empty.                          *)
(*                                                                         *)
(* The codecs differ in the source PAN, which Rust looks for in data       *)
(* frames and Python in commands too, and in the FCS: Rust checks it and   *)
(* takes it off, Python does not check it and lets the header extend into  *)
(* it.                                                                     *)
(***************************************************************************)
EXTENDS ZigbeeTypes, FiniteSetsExt

CONSTANTS Built,      \* the frames the writers are asked for
          Foreign,    \* the octets of frames of other devices, without FCS
          Noise,      \* what the air may add to an octet, modulo 2^8
          MaxDamaged  \* bound: neighbouring octets changed

Languages == {"rust", "python"}

\* Frame types
Beacon == 0
Data == 1
Ack == 2
Command == 3

\* Addressing modes
None == 0
Reserved == 1
Short == 2
Long == 3

BeaconRequest == <<7>>

\* Addresses as wide as their modes, PANs with addresses.
Width(mode) == CASE mode = Short -> 2 [] mode = Long -> 8 [] OTHER -> 0
Controls ==
    [type : 0 .. 7, security : 0 .. 1, pending : 0 .. 1, ack : 0 .. 1, compression : 0 .. 1, reserved : 0 .. 1,
     suppression : 0 .. 1, elements : 0 .. 1, dest : 0 .. 3, version : 0 .. 3, src : 0 .. 3]
IsFrame(f) ==
    /\ f \in [control : Controls, seq : Seq(Octet), destPan : Seq(Octet), dest : Seq(Octet),
              srcPan : Seq(Octet), src : Seq(Octet), payload : Seq(Octet)]
    /\ Len(f.seq) = 1 - f.control.suppression
    /\ Len(f.destPan) = IF Width(f.control.dest) > 0 THEN 2 ELSE 0
    /\ Len(f.dest) = Width(f.control.dest)
    /\ Len(f.srcPan) \in {0, 2}
    /\ Len(f.src) = Width(f.control.src)

ASSUME MacFrameAssumption ==
    /\ \A f \in Built : IsFrame(f)
    /\ \A data \in Foreign : data \in Seq(Octet)
    /\ \A n \in Noise : n \in 1 .. 255
    /\ MaxDamaged \in 0 .. 2

VARIABLES written,    \* the frame the octets were made from, as a sequence of one or none
          writer,     \* the codec that made them, or "foreign"
          air,        \* the octets
          damaged,    \* the positions of the octets changed
          outcome,    \* of each reader: "unread", "frame", "error" or "panic"
          frame       \* what each has read, as a sequence of one or none

macVars == <<written, writer, air, damaged, outcome, frame>>
-------------------------------------------------------------------------------
(* The frame check sequence.  A number is the set of the places of its bits, an *)
(* octet the number that the places below 8 make.                              *)

Places(o, n) == {i \in 0 .. n - 1 : (o \div 2^i) % 2 = 1}
OctetOf(bits) ==
    LET Of(i) == IF i \in bits THEN 2^i ELSE 0
    IN  Of(0) + Of(1) + Of(2) + Of(3) + Of(4) + Of(5) + Of(6) + Of(7)
Low(bits, n) == {i \in bits : i < n}
ShiftRight(bits, n) == {i - n : i \in bits \ 0 .. n - 1}

\* One step for four bits.  q * 0x1081 has no carries: 0x1081 has the bits 0, 7 and 12.
Nibble(crc, n) ==
    LET q == SymDiff(Low(crc, 4), n)
    IN  SymDiff(ShiftRight(crc, 4), q \cup {i + 7 : i \in q} \cup {i + 12 : i \in q})

\* Mutant: the high-order four bits first.
HighFourFirst(crc, c) == Nibble(Nibble(crc, Places(c \div 16, 4)), Places(c, 4))
\* One step of the loop: the low-order four bits of an octet, then the high.
LowFourFirst(crc, c) == Nibble(Nibble(crc, Places(c, 4)), Places(c \div 16, 4))

\* compute_fcs
ComputeFcs(data) == FoldLeft(LowFourFirst, {}, data)

WithFcs(data) ==
    LET fcs == ComputeFcs(data) IN data \o <<OctetOf(Low(fcs, 8)), OctetOf(ShiftRight(fcs, 8))>>

\* The CRC of IEEE 802.15.4 by its definition: division by x^16 + x^12 + x^5 + 1, bit by
\* bit from the lowest.  The remainder for one octet more:
DivideBit(r, b) == IF (0 \in r) <=> b THEN ShiftRight(r, 1) ELSE SymDiff(ShiftRight(r, 1), {15, 10, 3})
DivideFour(r, n) == DivideBit(DivideBit(DivideBit(DivideBit(r, 0 \in n), 1 \in n), 2 \in n), 3 \in n)
Divided(crc, c) == DivideFour(DivideFour(crc, Places(c, 4)), Places(c \div 16, 4))
-------------------------------------------------------------------------------
(* Frame control *)

Bit(o, i) == (o \div 2^i) % 2

ReadControl(o) ==
    [type |-> o[1] % 8, security |-> Bit(o[1], 3), pending |-> Bit(o[1], 4),
     ack |-> Bit(o[1], 5), compression |-> Bit(o[1], 6), reserved |-> Bit(o[1], 7),
     suppression |-> Bit(o[2], 0), elements |-> Bit(o[2], 1),
     dest |-> (o[2] \div 4) % 4, version |-> (o[2] \div 16) % 4, src |-> o[2] \div 64]

WriteControl(c) ==
    <<c.type + 8 * c.security + 16 * c.pending + 32 * c.ack + 64 * c.compression + 128 * c.reserved,
      c.suppression + 2 * c.elements + 4 * c.dest + 16 * c.version + 64 * c.src>>

\* Rust knows four frame types and three addressing modes; Python takes any.
KnownControl(l, c) ==
    l = "rust" => c.type \in {Beacon, Data, Ack, Command} /\ Reserved \notin {c.dest, c.src}
-------------------------------------------------------------------------------
(* Readers *)

\* The types whose frames have a source PAN of their own.
WithSourcePan(l) == IF l = "rust" THEN {Data} ELSE {Data, Command}

\* Where frame control, sequence number, destination PAN and address, source PAN and
\* address end.
Layout(l, c) ==
    LET seq == 3 - c.suppression
        destPan == seq + (IF Width(c.dest) > 0 THEN 2 ELSE 0)
        dest == destPan + Width(c.dest)
        srcPan == dest + (IF c.compression = 0 /\ c.type \in WithSourcePan(l) THEN 2 ELSE 0)
    IN  <<2, seq, destPan, dest, srcPan, srcPan + Width(c.src)>>

HeaderLength(l, c) == Layout(l, c)[6]

\* The fields of data; Python's data ends in the FCS.
Fields(l, data) ==
    LET c == ReadControl(data)
        Field(i) == SubSeq(data, Layout(l, c)[i] + 1, Layout(l, c)[i + 1])
        rest == SubSeq(data, HeaderLength(l, c) + 1, Len(data))
    IN  [control |-> c, seq |-> Field(1), destPan |-> Field(2), dest |-> Field(3),
         srcPan |-> IF c.compression = 1 THEN Field(2) ELSE Field(4),
         src |-> Field(5),
         payload |-> IF l = "rust" THEN rest ELSE SubSeq(rest, 1, Len(rest) - 2)]

\* What l takes for the frame's header and payload.
Body(l, octets) == IF l = "rust" THEN SubSeq(octets, 1, Len(octets) - 2) ELSE octets

\* Mutant: the FCS is taken off and not compared.
AcceptsAnyFcs(l, octets) == Len(octets) >= 4

\* The checks ahead of the fields: Rust's alone.
Accepts(l, octets) ==
    l = "rust" => Len(octets) >= 4 /\ octets = WithFcs(Body(l, octets))

\* from_bytes.  Rust indexes the octet of the sequence number without a look.
Outcome(l, octets) ==
    LET data == Body(l, octets)
        c == ReadControl(data)
    IN  CASE ~Accepts(l, octets) \/ Len(data) < 2 -> "error"
          [] OTHER ->
               CASE ~KnownControl(l, c) -> "error"
                 [] KnownControl(l, c) /\ l = "rust" /\ Len(data) = 2 /\ c.suppression = 0 -> "panic"
                 [] KnownControl(l, c) /\ HeaderLength(l, c) <= Len(data) -> "frame"
                 [] OTHER -> "error"
-------------------------------------------------------------------------------
(* Writers *)

\* Python leaves out the source PAN of a beacon request.
SkipsSourcePan(f) == f.control.type = Command /\ f.payload = BeaconRequest

\* Mutant: the source PAN is written whatever the flag says.
SourcePanAlways(l, f) == f.srcPan

SourcePan(l, f) ==
    CASE f.control.compression = 1 -> <<>>
      [] f.control.compression = 0 /\ l = "rust" -> f.srcPan
      [] OTHER -> IF f.control.type \in WithSourcePan(l) /\ ~SkipsSourcePan(f) THEN f.srcPan ELSE <<>>

\* Python raises where it has no source PAN to write.
CanWrite(l, f) ==
    /\ KnownControl(l, f.control)
    /\ \/ l = "rust" \/ f.srcPan # <<>> \/ f.control.compression = 1
       \/ f.control.type \notin WithSourcePan(l) \/ SkipsSourcePan(f)

\* to_bytes, serialize
Octets(l, f) ==
    WithFcs(WriteControl(f.control) \o f.seq \o f.destPan \o f.dest \o SourcePan(l, f) \o f.src \o f.payload)
-------------------------------------------------------------------------------
\* What may be on the air: the frames the writers can write, and those of others.
Packets ==
         {[written |-> <<s[2]>>, writer |-> s[1], air |-> Octets(s[1], s[2])] :
            s \in {s \in Languages \X Built : CanWrite(s[1], s[2])}}
    \cup {[written |-> <<>>, writer |-> "foreign", air |-> WithFcs(data)] : data \in Foreign}

MacInit == /\ \E p \in Packets : written = p.written /\ writer = p.writer /\ air = p.air
           /\ damaged = {}
           /\ outcome = [l \in Languages |-> "unread"]
           /\ frame = [l \in Languages |-> <<>>]

\* The air changes an octet next to those it has changed.
Damage(i, n) ==
    /\ \A l \in Languages : outcome[l] = "unread"
    /\ i \notin damaged
    /\ damaged \subseteq (i - MaxDamaged + 1) .. (i + MaxDamaged - 1)
    /\ damaged' = damaged \cup {i}
    /\ air' = [air EXCEPT ![i] = (@ + n) % 256]
    /\ UNCHANGED <<written, writer, outcome, frame>>

Read(l) ==
    /\ outcome[l] = "unread"
    /\ outcome' = [outcome EXCEPT ![l] = Outcome(l, air)]
    /\ frame' = [frame EXCEPT ![l] = IF Outcome(l, air) = "frame" THEN <<Fields(l, Body(l, air))>> ELSE <<>>]
    /\ UNCHANGED <<written, writer, air, damaged>>

MacNext == \/ \E i \in DOMAIN air, n \in Noise : Damage(i, n)
           \/ \E l \in Languages : Read(l)
-------------------------------------------------------------------------------
(* Properties *)

\* The table-free algorithm of compute_fcs, which both languages share, is the
\* CRC that radios compute (ieee_802154.rs:299-311, zigbee_types.py:182-192).
FcsIsCrc16 ==
    (\A l \in Languages : outcome[l] = "unread") =>
        \A k \in 1 .. Len(air) :
            ComputeFcs(SubSeq(air, 1, k)) = Divided(ComputeFcs(SubSeq(air, 1, k - 1)), air[k])

\* Rust takes no frame that was damaged in up to two neighbouring octets, of
\* the data, of the FCS or of both (ieee_802154.rs:164-169).
DamageIsCaught == (damaged # {} /\ outcome["rust"] # "unread") => outcome["rust"] = "error"

\* What l has read and writes again has the octets it came from.
RewrittenAsRead(l) == outcome[l] = "frame" => Octets(l, frame[l][1]) = air

\* The script of zigbee_types.py asserts of every packet of a capture what it needs
\* to trust its reader: "assert ieee_frame.serialize() == packet" (line 659).  It fails
\* on frames that are neither damaged nor foreign: the reader of a beacon request takes
\* its payload and half of the FCS for a source PAN.
SerializesAsCaptured == (damaged = {} /\ written # <<>>) => RewrittenAsRead("python")

\* The source PAN is on the air and the reader does not look for it, or the
\* reader looks for it and it is not there.
SourcePanMismatch(l, f) ==
    /\ f.control.compression = 0
    /\ (SourcePan(writer, f) = <<>>) <=> (f.control.type \in WithSourcePan(l))

\* The source PAN that the octets tell of.
ToldSourcePan(l, f) == IF f.control.compression = 1 THEN f.destPan ELSE SourcePan(l, f)

\* What Rust reads and writes again has the octets it came from, as its tests expect
\* of the frames they try (ieee_802154.rs:385, 437).  And each language reads from an
\* undamaged frame the fields that either has written, exactly if it knows the type and
\* the modes, both agree on whether there is a source PAN, and the writer did not leave
\* out the one it was given, or that one is the destination's.
FieldsSurvive ==
    \A l \in Languages : (damaged = {} /\ outcome[l] # "unread") =>
        /\ l = "rust" => RewrittenAsRead(l)
        /\ written # <<>> =>
             ((outcome[l] = "frame" /\ frame[l] = written) <=>
                /\ KnownControl(l, written[1].control)
                /\ ~SourcePanMismatch(l, written[1])
                /\ ToldSourcePan(writer, written[1]) = written[1].srcPan)
===============================================================================
