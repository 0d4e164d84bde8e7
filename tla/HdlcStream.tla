----------------------------- MODULE HdlcStream -----------------------------
(***************************************************************************)
(* The byte stream between host and RCP: HDLC-Lite framing and the parsing *)
(* loops of both stacks (HdlcLiteFrame and parse_frames_from_bytes_into in *)
(* spinel.rs, HDLCLiteFrame in spinel_types.py and data_received in        *)
(* spinel.py).  The parsers differ in three respects:                      *)
(*   - the shortest Spinel frame has 3 octets in Rust and 1 in Python,     *)
(*     which takes a missing command for NOOP;                             *)
(*   - Rust takes any octet for a command, Python reads a packed integer   *)
(*     and takes those of CommandID;                                       *)
(*   - the handling of a frame can raise out of data_received in Python    *)
(*     (see Raises in PySpinel), and never does in Rust.                   *)
(* The writer uses the same framing as the code under model.  The line may *)
(* change or lose octets, and the host may open it in the middle of a      *)
(* frame.                                                                  *)
(*                                                                         *)
(* The two octets of the CRC are stood for by two numbers above 255 that   *)
(* carry a checksum of the data, which has the one property of CRC-16 that *)
(* matters here: it detects a changed or missing octet.  No octet of the   *)
(* CRC ever needs to be escaped here; the code escapes them as it does data.*)
(***************************************************************************)
EXTENDS Integers, Sequences, SequencesExt

CONSTANTS Payloads,    \* the data of the frames that are written
          Commands,    \* the values of CommandID
          Poison,      \* the frames whose handling raises in Python
          Noise,       \* what an octet may be changed into
          MaxWrites, MaxErrors    \* bounds

ASSUME OctetsAssumption == Payloads \subseteq Seq(0 .. 255) /\ Noise \subseteq 0 .. 255

VARIABLES parser,      \* the language that reads
          sent,        \* history: the data of the frames written
          line,        \* octets written and not yet read
          consumed,    \* history: octets read
          buffer,      \* buffer / _buffer
          frames,      \* the frames handed to the layer above, in order
          errors,      \* octets changed or lost on the line
          partial      \* the line was opened in the middle of a frame

vars == <<parser, sent, line, consumed, buffer, frames, errors, partial>>

Flag == 126
Escape == 125
Special == {Flag, Escape, 17, 19, 248}      \* HdlcSpecial

----------------------------------------------------------------------------
(* Frames and octets. *)

\* octet ^ 0x20
Flip(o) == IF (o \div 32) % 2 = 1 THEN o - 32 ELSE o + 32

Sum(n, o) == (257 * n + o) % 32003
Checksum(data) == FoldLeft(Sum, 1, data)
Crc(data) == <<256 + Checksum(data), 32768 + Checksum(data)>>

Stuff(o) == IF o \in Special THEN <<Escape, Flip(o)>> ELSE <<o>>

Put(out, o) == out \o Stuff(o)
Stuffed(octets) == FoldLeft(Put, <<>>, octets)
Body(data) == Stuffed(data \o Crc(data))

EncodeClosed(data) == Body(data) \o <<Flag>>           \* mutant: one flag per frame
Encode(data) == <<Flag>> \o Body(data) \o <<Flag>>

(***************************************************************************)
(* from_bytes: the loop over the octets between two flags.                 *)
(***************************************************************************)
Take(acc, o) ==
    CASE acc.mode = "escaped" ->
           IF Flip(o) \in Special THEN [data |-> Append(acc.data, Flip(o)), mode |-> "plain"]
                                  ELSE [data |-> acc.data, mode |-> "bad"]
      [] acc.mode = "plain" /\ o = Escape -> [data |-> acc.data, mode |-> "escaped"]
      [] acc.mode = "plain" /\ o \notin {Escape, Flag} -> [data |-> Append(acc.data, o), mode |-> "plain"]
      [] OTHER -> acc

Unstuff(chunk) == FoldLeft(Take, [data |-> <<>>, mode |-> "plain"], chunk)

MinOctets == IF parser = "rust" THEN 3 ELSE 1

\* CommandID.deserialize, of what is behind the header: an integer packed into the
\* octets up to the first without continuation bit, or as far as there are any.
KnowsCommand(data) ==
    LET octets == Tail(data)
        last == SelectInSeq(octets, LAMBDA o : o < 128)
        packed == IF last = 0 THEN octets ELSE SubSeq(octets, 1, last)
    IN  /\ Len(packed) <= 3
        /\ FoldRight(LAMBDA o, n : 128 * n + (o % 128), packed, 0) \in Commands

\* SpinelFrame.from_bytes takes what is long enough, has 0b10 on top and a
\* command it knows.
IsSpinel(data) == /\ Len(data) >= MinOctets
                  /\ data[1] \div 64 = 2
                  /\ parser = "python" => KnowsCommand(data)

\* Mutant: the checksum is stripped, not compared.
DecodeUnchecked(chunk) ==
    LET u == Unstuff(chunk)
        data == SubSeq(u.data, 1, Len(u.data) - 2)
    IN  IF u.mode # "bad" /\ Len(u.data) >= 2 /\ IsSpinel(data) THEN <<data>> ELSE <<>>

\* The frame in chunk as a sequence of one, or none.
Decode(chunk) ==
    LET u == Unstuff(chunk)
        data == SubSeq(u.data, 1, Len(u.data) - 2)
    IN  IF /\ u.mode # "bad"
           /\ Len(u.data) >= 2
           /\ u.data = data \o Crc(data)
           /\ IsSpinel(data)
        THEN <<data>> ELSE <<>>

(***************************************************************************)
(* The loop over the buffer: cut at the first flag, decode what is before  *)
(* it, drop both, until no flag is left or the handling of a frame raises. *)
(* ignoring_until_next_flag of the Rust loop has no effect: the first flag *)
(* clears it without draining what is before the flag.                     *)
(***************************************************************************)
Cut(buf, loop, n) ==
    LET first == Decode(SubSeq(buf, loop.cut + 1, n - 1))
    IN  IF loop.raised \/ buf[n] # Flag THEN loop
        ELSE [frames |-> loop.frames \o first,
              cut |-> n,
              raised |-> parser = "python" /\ ToSet(first) \cap Poison # {}]

Loop(buf) == FoldLeftDomain(LAMBDA loop, n : Cut(buf, loop, n),
                            [frames |-> <<>>, cut |-> 0, raised |-> FALSE], buf)

\* Mutant: one frame for each call.
DrainOnce(buf) ==
    LET i == SelectInSeq(buf, LAMBDA o : o = Flag)
    IN  IF i = 0 THEN [frames |-> <<>>, rest |-> buf]
                 ELSE [frames |-> Decode(SubSeq(buf, 1, i - 1)),
                       rest |-> SubSeq(buf, i + 1, Len(buf))]

\* Mutant: what follows the last flag is dropped with it.
DrainAll(buf) == [frames |-> Loop(buf).frames, rest |-> <<>>]

Drain(buf) == LET loop == Loop(buf)
              IN  [frames |-> loop.frames, rest |-> SubSeq(buf, loop.cut + 1, Len(buf))]

----------------------------------------------------------------------------
\* The host opens a quiet line, or one on which a frame has begun.
Init ==
    /\ parser \in {"rust", "python"}
    /\ \/ sent = <<>> /\ line = <<>> /\ partial = FALSE
       \/ \E d \in Payloads : \E k \in 2 .. Len(Encode(d)) :
            /\ sent = <<d>>
            /\ line = SubSeq(Encode(d), k, Len(Encode(d)))
            /\ partial = TRUE
    /\ consumed = <<>> /\ buffer = <<>> /\ frames = <<>> /\ errors = 0

\* The other side writes a frame.
Write(d) ==
    /\ Len(sent) < MaxWrites
    /\ sent' = Append(sent, d)
    /\ line' = line \o Encode(d)
    /\ Len(line) <= Len(Encode(d))       \* bound: two frames on the line
    /\ UNCHANGED <<consumed, buffer, frames, errors, partial, parser>>

\* An octet is changed or lost.
Disturb(i) ==
    /\ errors < MaxErrors
    /\ errors' = errors + 1
    /\ \/ \E o \in Noise \ {line[i]} : line' = [line EXCEPT ![i] = o]
       \/ line' = RemoveAt(line, i)
    /\ UNCHANGED <<parser, sent, consumed, buffer, frames, partial>>

\* A read returns n octets, in whatever portions the driver likes.
Read(n) ==
    LET drained == Drain(buffer \o SubSeq(line, 1, n))
    IN  /\ line' = SubSeq(line, n + 1, Len(line))
        /\ consumed' = consumed \o SubSeq(line, 1, n)
        /\ buffer' = drained.rest
        /\ frames' = frames \o drained.frames
        /\ UNCHANGED <<parser, sent, errors, partial>>

Next == \/ \E d \in Payloads : Write(d)
        \/ \E i \in DOMAIN line : Disturb(i)
        \/ \E n \in DOMAIN line : Read(n)

Spec == Init /\ [][Next]_vars

----------------------------------------------------------------------------
(* Properties. *)

(***************************************************************************)
(* What has been read, octet by octet, as one pass of an automaton.        *)
(***************************************************************************)
Pass(acc, o) ==
    IF o = Flag THEN [body |-> <<>>, frames |-> acc.frames \o Decode(acc.body)]
                ELSE [body |-> Append(acc.body, o), frames |-> acc.frames]

Reference(s) == FoldLeft(Pass, [body |-> <<>>, frames |-> <<>>], s)

(***************************************************************************)
(* The frames do not depend on how the reads cut the stream: they are      *)
(* those of the whole stream, in its order, up to what the buffer holds.   *)
(***************************************************************************)
ReadsAsOneStream ==
    Reference(consumed).frames = frames \o Reference(buffer).frames

(***************************************************************************)
(* A complete frame stays in the buffer only behind one whose handling     *)
(* raised (never, in Rust).                                                *)
(***************************************************************************)
HeldBackOnlyBehindPoison ==
    Flag \in ToSet(buffer) => /\ parser = "python"
                              /\ frames # <<>> /\ Last(frames) \in Poison

(***************************************************************************)
(* On a line that was opened in time and changes nothing, every frame that *)
(* is written comes out, once and in order, whatever octets are in it and  *)
(* however they are read: those handed up, and those on their way.         *)
(***************************************************************************)
Keep(kept, d) == IF IsSpinel(d) THEN Append(kept, d) ELSE kept
Kept(written) == FoldLeft(Keep, <<>>, written)
Expected == Kept(sent)

CleanLineDelivers ==
    (errors = 0 /\ ~partial) => frames \o Reference(buffer \o line).frames = Expected

(***************************************************************************)
(* Resynchronisation: once everything is read, each error on the line has  *)
(* cost at most one frame, and so has opening it too late: the flags on    *)
(* both sides of a frame keep an error from reaching its neighbour.        *)
(***************************************************************************)
Start == IF partial THEN 1 ELSE 0

OneFramePerError ==
    (line = <<>> /\ Flag \notin ToSet(buffer)) =>
        Len(frames) >= Len(Expected) - errors - Start

(***************************************************************************)
(* No error makes a frame that was not sent, nor a frame twice or out of   *)
(* order.                                                                  *)
(***************************************************************************)
OnlyWhatWasSent ==
    \E f \in [DOMAIN frames -> DOMAIN sent] :
        /\ \A i, j \in DOMAIN frames : i < j => f[i] < f[j]
        /\ \A i \in DOMAIN frames : frames[i] = sent[f[i]]

----------------------------------------------------------------------------
(* The inductive invariant behind the first three. *)

TypeOK == /\ parser \in {"rust", "python"}
          /\ sent \in Seq(Payloads)
          /\ {line, consumed, buffer} \subseteq Seq(Nat)
          /\ frames \in Seq(Seq(Nat))
          /\ errors \in Nat
          /\ partial \in BOOLEAN

\* What has been read is as far into a frame as the buffer.
BufferHoldsRest == Reference(consumed).body = Reference(buffer).body

\* The whole stream, read and on its way, ends where a frame ends.
StreamIsWhole ==
    (errors = 0 /\ ~partial) => Reference(consumed \o line) = [body |-> <<>>, frames |-> Expected]

IInv == /\ TypeOK
        /\ BufferHoldsRest
        /\ ReadsAsOneStream
        /\ HeldBackOnlyBehindPoison
        /\ StreamIsWhole
=============================================================================
