----------------------------- MODULE PackedUint21 -----------------------------
(***************************************************************************)
(* The variable-length integers Spinel numbers its commands and its        *)
(* properties with: seven bits per octet, least significant first, the     *)
(* high bit set on every octet but the last.  The Rust front-end has the   *)
(* pair packed_uint21_to_bytes / packed_uint21_deserialize, the Python one *)
(* the class PackedUInt21; both ends of a link must read the same octets   *)
(* as the same number, and the octets after it as the same payload.        *)
(*                                                                         *)
(* A writer turns a number into octets or refuses it.  A reader returns    *)
(* the number and how many octets it used: what it leaves is the rest of   *)
(* the frame.  The behaviour of this module is a sequence of independent   *)
(* trials: octets appear on the wire, from a writer or from elsewhere, and *)
(* each reader reads them.                                                 *)
(***************************************************************************)
EXTENDS ZigbeeTypes

CONSTANTS
    Numbers,    \* the numbers a caller of the writers may pass
    Tails,      \* what may follow the number in the frame
    Noise       \* octet strings no writer of this repository made


ASSUME NumbersAssumption == Numbers \subseteq Nat
ASSUME TailsAssumption == Tails \subseteq Seq(Octet)
ASSUME NoiseAssumption == Noise \subseteq Seq(Octet)

VARIABLES
    writer,     \* who put the octets on the wire: "rust", "python", "noise"
    number,     \* the number written, 0 for noise
    wire,       \* the octets
    unread,     \* the languages that have not read them yet
    read        \* what each language's reader made of them

packedVars == <<writer, number, wire, unread, read>>

Languages == {"rust", "python"}

\* A writer or a reader that panics, raises or returns Err has no result; one
\* that works has exactly one.
Refused == {}
-------------------------------------------------------------------------------
(* Writing *)

U21_MAX == 128 * 128 * 128     \* 1 << 21

\* 128^i, for the at most four septets of an accepted number.
Weight(i) == CASE i = 0 -> 1 [] i = 1 -> 128 [] i = 2 -> 128 * 128 [] i = 3 -> 128 * 128 * 128

\* How many times the loop shifts before nothing is left.
SeptetCount(n) == IF n = 0 THEN 0
                  ELSE IF n < 128 THEN 1
                  ELSE IF n < 128 * 128 THEN 2
                  ELSE IF n < 128 * 128 * 128 THEN 3
                  ELSE 4

Septets(n) ==
    [i \in 1 .. SeptetCount(n) |->
        ((n \div Weight(i - 1)) % 128) + (IF i < SeptetCount(n) THEN 128 ELSE 0)]

\* Zero is one empty septet, and only what exceeds U21_MAX is too big.
RustWrite(n) == IF n = 0 THEN {<<0>>}
                ELSE IF n > U21_MAX THEN Refused
                ELSE {Septets(n)}

\* The type holds 21 bits, and chunks[-1] of no chunks is an error.
PyWrite(n) == IF n = 0 \/ n >= U21_MAX THEN Refused ELSE {Septets(n)}
-------------------------------------------------------------------------------
(* Reading *)

\* The positions, among the first three, of octets with the high bit clear.
Ends(o) == {i \in 1 .. 3 : i <= Len(o) /\ o[i] < 128}

FirstEnd(o) == CHOOSE i \in Ends(o) : \A j \in Ends(o) : i <= j

\* The septets taken most significant first.
ValueBigEndian(o, k) == (IF k >= 1 THEN o[k] % 128 ELSE 0)
                        + (IF k >= 2 THEN 128 * (o[k - 1] % 128) ELSE 0)
                        + (IF k >= 3 THEN 128 * 128 * (o[k - 2] % 128) ELSE 0)

Value(o, k) == (IF k >= 1 THEN o[1] % 128 ELSE 0)
               + (IF k >= 2 THEN 128 * (o[2] % 128) ELSE 0)
               + (IF k >= 3 THEN 128 * 128 * (o[3] % 128) ELSE 0)

\* The third octet must be the last one; octets that run out do not terminate.
RustRead(o) == IF Ends(o) = {} THEN Refused
               ELSE {[value |-> Value(o, FirstEnd(o)), used |-> FirstEnd(o)]}

\* One octet too many accepted.
PyReadFour(o) == IF Ends(o) # {}
                 THEN {[value |-> Value(o, FirstEnd(o)), used |-> FirstEnd(o)]}
                 ELSE IF Len(o) > 4 THEN Refused
                 ELSE {[value |-> Value(o, Len(o)), used |-> Len(o)]}

\* Only a fourth octet is an error: octets that run out are taken as they are,
\* no octets at all as zero.
PyRead(o) == IF Ends(o) # {}
             THEN {[value |-> Value(o, FirstEnd(o)), used |-> FirstEnd(o)]}
             ELSE IF Len(o) > 3 THEN Refused
             ELSE {[value |-> Value(o, Len(o)), used |-> Len(o)]}

-------------------------------------------------------------------------------
PackedInit == /\ writer = "noise"
              /\ number = 0
              /\ wire = <<>>
              /\ unread = {}
              /\ read = [lang \in Languages |-> Refused]

\* The next number appears when both have read the one before.
Appear(who, n, octets) ==
    /\ unread = {}
    /\ writer' = who
    /\ number' = n
    /\ wire' = octets
    /\ unread' = Languages
    /\ read' = [lang \in Languages |-> Refused]

RustWrites(n, tail) ==
    \E octets \in RustWrite(n) : Appear("rust", n, octets \o tail)

PyWrites(n, tail) ==
    \E octets \in PyWrite(n) : Appear("python", n, octets \o tail)

NoiseAppears(octets) == Appear("noise", 0, octets)

Reads(lang, result) ==
    /\ lang \in unread
    /\ unread' = unread \ {lang}
    /\ read' = [read EXCEPT ![lang] = result]
    /\ UNCHANGED <<writer, number, wire>>

RustReads == Reads("rust", RustRead(wire))

PyReads == Reads("python", PyRead(wire))

PackedNext == \/ \E n \in Numbers, tail \in Tails :
                    RustWrites(n, tail) \/ PyWrites(n, tail)
              \/ \E octets \in Noise : NoiseAppears(octets)
              \/ RustReads
              \/ PyReads

PackedSpec == PackedInit /\ [][PackedNext]_packedVars
-------------------------------------------------------------------------------
(* Properties *)

\* A 21-bit number that either language put on the wire is read back by both,
\* and the rest of the frame starts where the tail does: the boundaries where a
\* number takes one octet more, and zero, are the cases of spinel.rs:221-262
\* and spinel_types.py:11-46.
NumbersSurvive ==
    (writer # "noise" /\ number < U21_MAX) =>
        \A lang \in Languages \ unread :
            \E tail \in Tails :
                /\ Len(tail) <= Len(wire)
                /\ tail = SubSeq(wire, Len(wire) - Len(tail) + 1, Len(wire))
                /\ read[lang] = {[value |-> number, used |-> Len(wire) - Len(tail)]}

\* Whatever is on the wire, the two languages read the same number and leave
\* the same rest, or both give up: except that Python takes an integer whose
\* octets run out for a complete one.
ReadersAgree ==
    unread = {} =>
        \/ read["rust"] = read["python"]
        \/ /\ read["rust"] = Refused
           /\ Len(wire) <= 3
           /\ \A i \in 1 .. Len(wire) : wire[i] >= 128
===============================================================================
