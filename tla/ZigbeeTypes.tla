----------------------------- MODULE ZigbeeTypes -----------------------------
(***************************************************************************)
(* Numbers and addresses as octets: types.rs, and the types of zigpy that  *)
(* zigbee_types.py builds on.  An octet is a number below 256.             *)
(***************************************************************************)
EXTENDS Integers, Sequences, SequencesExt

Octet == 0 .. 255
U16 == 0 .. 256 * 256 - 1

\* Bits i .. i + n - 1 of an octet.
Bits(o, i, n) == (o \div 2^i) % 2^n

\* A number in w octets, and the number that octets make.
LowFirst(n, w) == [i \in 1 .. w |-> (n \div 256^(i - 1)) % 256]
HighFirst(n, w) == Reverse(LowFirst(n, w))
Number(octets) == FoldRight(LAMBDA o, n : o + 256 * n, octets, 0)

\* A field that may be absent is a sequence of one or none.
Absent == <<>>
IsPresent(field) == field # Absent

\* Nwk::deserialize, PanId::deserialize: 16 bits, low octet first.
Nwk(octets) == Number(SubSeq(octets, 1, 2))
NwkOctets(n) == LowFirst(n, 2)

\* Eui64::from_hex: text has the high octet first, memory and air have the low one.
Eui64(text) == Reverse(text)
===============================================================================
