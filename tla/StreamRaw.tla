------------------------------- MODULE StreamRaw -------------------------------
(***************************************************************************)
(* The values of the property STREAM_RAW, behind its packed number: what   *)
(* SpinelTxFrame of spinel_client.rs and _send_spinel_frame of             *)
(* application.py ask the radio to send, and what SpinelRxFrame and        *)
(* _async_spinel_packet_callback make of what it has received.             *)
(*                                                                         *)
(* A value begins with the length of the 802.15.4 frame in two octets.     *)
(* Behind the frame, the octets that are named here are the metadata; Rust *)
(* wants all of them, Python looks at none.                                *)
(***************************************************************************)
EXTENDS PackedUint21, FiniteSetsExt

CONSTANTS Psdus,       \* 802.15.4 frames
          TxMetadata,  \* settings of a frame to send
          RxMetadata   \* octets the radio puts behind a frame it has received

ASSUME PsdusAssumption == Psdus \subseteq Seq(Octet) /\ \A psdu \in Psdus : Len(psdu) < 256 * 256
\* The settings packet_sender chooses are those of _send_spinel_frame.
ASSUME TxMetadataAssumption ==
    \A m \in TxMetadata :
        /\ m.channel \in Octet /\ m.rxChannelAfterTx \in Octet
        /\ m.maxCsmaBackoffs = 1 /\ m.maxFrameRetries = 4
        /\ m.enableCsmaCa /\ m.isHeaderUpdated /\ ~m.isARetransmit /\ m.isSecurityProcessed
        /\ m.txDelay \in Nat /\ m.txDelayBaseTime \in Nat /\ m.txPower \in Int

STREAM_RAW == 113      \* PropertyID
PROP_VALUE_SET == 3    \* CommandID

Flag(b) == IF b THEN 1 ELSE 0

\* SpinelTxFrame::to_bytes
RustTx(psdu, m) ==
    LowFirst(Len(psdu), 2) \o psdu
      \o <<m.channel, m.maxCsmaBackoffs, m.maxFrameRetries, Flag(m.enableCsmaCa), Flag(m.isHeaderUpdated),
           Flag(m.isARetransmit), Flag(m.isSecurityProcessed)>>
      \o LowFirst(m.txDelay, 4) \o LowFirst(m.txDelayBaseTime, 4)
      \o <<m.rxChannelAfterTx, m.txPower % 256>>

\* _send_spinel_frame: settings of its own, delays of one octet, and no power.
PyTx(psdu, m) ==
    LowFirst(Len(psdu), 2) \o psdu \o <<m.channel, 1, 4, 1, 1, 0, 1, 0, 0, m.channel>>

\* SpinelHeader::to_bytes, SpinelFrame::to_bytes of prepare_request: flag 0b10, link 0.
Request(tid, command, payload) == <<2 * 64 + 0 * 16 + tid, command>> \o payload
\* SpinelFrame::from_bytes, SpinelHeader::from_bytes; three octets are the least.
ReadsFrame(o) ==
    IF Len(o) < 3 \/ Bits(o[1], 6, 2) # 2 THEN Refused
    ELSE {[tid |-> Bits(o[1], 0, 4), link |-> Bits(o[1], 4, 2), command |-> o[2], payload |-> SubSeq(o, 3, Len(o))]}

\* Where rssi, noise_floor, flags, channel, lqi, timestamp_us and receive_error begin
\* behind the frame, and where they all end.
RxStarts == <<0, 1, 2, 6, 7, 8, 16, 17>>
RxLength == RxStarts[8]

ASSUME RxMetadataAssumption ==
    RxMetadata \subseteq Seq(Octet) /\ \A m \in RxMetadata : Len(m) >= RxLength

\* Mutant: the receive error is forgotten in the length.
NeedsNoError(value) == 2 + Number(SubSeq(value, 1, 2)) + RxLength - 1
\* The length check of SpinelRxFrame::from_bytes.
Needs(value) == 2 + Number(SubSeq(value, 1, 2)) + RxLength

Signed(o) == IF o < 128 THEN o ELSE o - 256      \* as i8

\* SpinelRxFrame::from_bytes.  It indexes the length without a look, and the rest
\* after the check.
RustRx(value) ==
    LET n == Number(SubSeq(value, 1, 2))
        Start(i) == 2 + n + RxStarts[i]
        Field(i) == SubSeq(value, Start(i) + 1, Start(i + 1))
    IN  CASE Len(value) < 2 -> [outcome |-> "panic"]
          [] Len(value) >= 2 /\ Needs(value) > Len(value) -> [outcome |-> "error"]
          [] Len(value) >= 2 /\ Needs(value) <= Len(value) /\ Start(8) > Len(value) -> [outcome |-> "panic"]
          [] OTHER ->
               [outcome |-> "frame", psdu |-> SubSeq(value, 3, 2 + n), rssi |-> Signed(Field(1)[1]),
                noiseFloor |-> Signed(Field(2)[1]), flags |-> Field(3), channel |-> Field(4)[1],
                lqi |-> Field(5)[1], timestampUs |-> Field(6), receiveError |-> Field(7)[1],
                manufacturerSpecific |-> SubSeq(value, Start(8) + 1, Len(value))]

\* _async_spinel_packet_callback: as many octets as there are.
PyRx(value) ==
    IF Len(value) < 2 THEN [outcome |-> "error"]
    ELSE [outcome |-> "frame",
          psdu |-> SubSeq(value, 3, Min({Len(value), 2 + Number(SubSeq(value, 1, 2))}))]

Rx(lang, value) == IF lang = "rust" THEN RustRx(value) ELSE PyRx(value)

\* What the radio tells of a frame it has received.
Received(psdu, m) == LowFirst(Len(psdu), 2) \o psdu \o m
-------------------------------------------------------------------------------
(* Properties *)

\* The value that a reader has found behind the number of the property.
Behind(lang) == LET r == CHOOSE r \in read[lang] : TRUE IN SubSeq(wire, r.used + 1, Len(wire))

\* A frame the radio has received comes out of its value in either language.  Where the
\* value was cut short, Rust refuses it, and panics if not even the length is there;
\* Python goes on with what is left of the frame.
ReceivedSurvives(lang, value) ==
    \A psdu \in Psdus, m \in RxMetadata :
        LET whole == Received(psdu, m)
            n == Len(value)
            r == Rx(lang, value)
        IN  IsPrefix(value, whole) =>
                /\ r.outcome = "panic" <=> lang = "rust" /\ n < 2
                /\ r.outcome = "frame" <=> n >= 2 + (IF lang = "rust" THEN Len(psdu) + RxLength ELSE 0)
                /\ r.outcome = "frame" /\ n >= 2 + Len(psdu) => r.psdu = psdu
                /\ r.outcome = "frame" /\ lang = "rust" =>
                     r.receiveError = m[RxLength] /\ r.channel = m[7] /\ r.manufacturerSpecific = SubSeq(value, 3 + Len(psdu) + RxLength, n)

\* What is sent begins as what is received does, and the two languages ask for
\* the same transmission up to the delays.
SentSurvives(lang, value) ==
    \A psdu \in Psdus, m \in TxMetadata :
        value \in {RustTx(psdu, m), PyTx(psdu, m)} =>
            /\ PyRx(value).psdu = psdu
            /\ SubSeq(value, 3 + Len(psdu), 9 + Len(psdu)) = <<m.channel, 1, 4, 1, 1, 0, 1>>

\* A request with the value is a frame again to the one who gets it, for every
\* transaction; and so is the value to the one who reads the property
\* (spinel.rs:412-448, spinel_client.rs:29-129, application.py:231-250, 284-287).
StreamRawSurvives ==
    \A lang \in Languages \ unread :
        (writer # "noise" /\ number = STREAM_RAW) =>
            /\ ReceivedSurvives(lang, Behind(lang))
            /\ SentSurvives(lang, Behind(lang))
            /\ \A tid \in 0 .. 15 :
                 ReadsFrame(Request(tid, PROP_VALUE_SET, wire)) =
                   {[tid |-> tid, link |-> 0, command |-> PROP_VALUE_SET, payload |-> wire]}
===============================================================================
