------------------------------ MODULE NwkSecurity ------------------------------
(***************************************************************************)
(* Zigbee network frames from one language to the other.  One language     *)
(* writes and encrypts a frame, the air may change it, and the two scripts *)
(* that decrypt captures take what arrives: dump_pcap.rs, and the main     *)
(* part of zigbee_types.py.  Each has a list of keys, tries one after the  *)
(* other, and moves the key that fits to the front.                        *)
(*                                                                         *)
(* Headers are octets, of NwkHeader.  AES is ideal: a piece of payload,    *)
(* four octets like the MAC tag, is a set of atoms: text, noise, key       *)
(* stream or a MAC; adding two pieces bit by bit is the symmetric          *)
(* difference.  The MAC is the atom of all it is computed from, and the    *)
(* key stream of one piece the atom of key, nonce, block and place.  A     *)
(* payload that begins elsewhere than it was written, because a length     *)
(* in the headers has changed, fits no MAC; what a header that reaches     *)
(* into the payload reads there is not known.                              *)
(***************************************************************************)
EXTENDS ApsFrame, NwkHeader, FiniteSetsExt

CONSTANTS NwkFrames,     \* frames to write: headers, and an APS frame or octets
          Keys,
          KeyList,    \* the keys in the order of the file
          Bursts,     \* the bits of an octet that the air may flip together
          MaxFrames,  \* bound: frames written
          MaxChanges  \* bound: changes on the air, of all frames

Languages == {"rust", "python"}
Level == 5            \* AES_CCM_32, EncMic32
PieceLength == 4

\* Frames have headers whose fields are those their control announces; what is secured
\* has an auxiliary header.
ASSUME SecurityAssumption ==
    /\ \A f \in NwkFrames :
         /\ IsNwk(f.nwk) /\ (f.nwk.control.security = 1 => IsAux(f.aux))
         /\ IF IsPresent(f.aps) THEN IsAps(f.aps[1]) /\ f.aps = <<f.aps[1]>> ELSE f.octets \in Seq(Octet)
    /\ KeyList \in Seq(ToSet(KeyList)) /\ Keys \subseteq ToSet(KeyList)

VARIABLES sent,       \* the frame written, with key and language, as a sequence of one or none
          wire,       \* its octets and pieces as they are on the air now
          changes,    \* changes so far
          count,      \* frames so far
          keys,       \* the list of each script
          result      \* what each script made of the frame

securityVars == <<sent, wire, changes, count, keys, result>>
--------------------------------------------------------------------------------
(* The key stream and the MAC *)

\* get_modified_aux_header
Modified(aux) == [aux EXCEPT !.control.level = Level]

\* Whose address goes into the nonce: the auxiliary header's goes before.
Source(f) == IF IsPresent(f.aux.extendedSource) THEN f.aux.extendedSource ELSE f.nwk.sourceIeee

\* get_nonce
Nonce(f) == Source(f) \o f.aux.counter \o <<WriteAuxControl(Modified(f.aux).control)>>

\* Mutant: the auxiliary header is not authenticated.
MacOfHeader(k, f, text) == {<<"mac", k, WriteNwk(f.nwk), text, Nonce(f)>>}
\* compute_mac, over both headers, written anew, and the text.
Mac(k, f, text) == {<<"mac", k, WriteNwk(f.nwk) \o WriteAux(Modified(f.aux)), text, Nonce(f)>>}

KeyStream(k, f, block, place) == {<<"key stream", k, Nonce(f), block, place>>}

\* encrypt_decrypt: the tag is padded to block 0, the text begins with block 1.
Crypt(k, f, tag, text) ==
    [tag |-> SymDiff(tag, KeyStream(k, f, 0, 0)),
     text |-> [i \in DOMAIN text |->
                 SymDiff(text[i], KeyStream(k, f, 1 + (i - 1) \div 4, (i - 1) % 4))]]

\* Python cannot serialize an auxiliary header without a source, and Rust has no
\* nonce where neither header has one.
CanAuthenticate(l, f) ==
    IsPresent(IF l = "python" THEN f.aux.extendedSource ELSE Source(f))

\* encrypt
Encrypt(k, f, text) ==
    LET c == Crypt(k, f, Mac(k, f, text), text) IN Append(c.text, c.tag)

\* decrypt, with split_mac_tag: the text, or nothing where the tags differ.
Decrypt(k, f) ==
    LET n == Len(f.pieces)
        p == Crypt(k, f, f.pieces[n], SubSeq(f.pieces, 1, n - 1))
    IN  IF n > 0 /\ p.tag = Mac(k, f, p.text) THEN <<p.text>> ELSE Absent
--------------------------------------------------------------------------------
(* NwkFrames and octets *)

\* The payload in pieces, and what is in pieces of text, all but the last of them whole.
Pieces(octets) ==
    [i \in 1 .. (Len(octets) + 3) \div PieceLength |->
       {<<"text", SubSeq(octets, PieceLength * (i - 1) + 1, Min({PieceLength * i, Len(octets)}))>>}]
Text(pieces) ==
    LET Of(i) == (CHOOSE atom \in pieces[i] : TRUE)[2]
        n == Len(pieces)
    IN  [j \in 1 .. (IF n = 0 THEN 0 ELSE PieceLength * (n - 1) + Len(Of(n))) |->
           Of(1 + (j - 1) \div PieceLength)[1 + ((j - 1) % PieceLength)]]

Payload(l, f) == Pieces(IF IsPresent(f.aps) THEN WriteAps(l, f.aps[1]) ELSE f.octets)

IsSecured(f) == f.nwk.control.security = 1

\* What l can write: to_bytes or serialize, of a frame encrypted before if it is secured.
CanWrite(l, f) ==
    /\ NwkKnown(l, f.nwk.control)
    /\ IsSecured(f) => CanAuthenticate(l, f)
    /\ IsPresent(f.aps) => ApsKnown(l, f.aps[1].control)

Write(l, k, f) ==
    [octets |-> WriteNwk(f.nwk) \o (IF IsSecured(f) THEN WriteAux(f.aux) ELSE <<>>),
     pieces |-> IF IsSecured(f) THEN Encrypt(k, f, Payload(l, f)) ELSE Payload(l, f)]
--------------------------------------------------------------------------------
(* The scripts.  A result has the outcome, the list of keys afterwards, and the *)
(* frame and its text if there are any.                                          *)

Result(outcome, list, frame, text) ==
    [outcome |-> outcome, keys |-> list, frame |-> frame, text |-> text]
NoFrame(outcome, list) == Result(outcome, list, Absent, Absent)

\* A failure to read is passed over in Rust if it is an error; it ends the script
\* if it is a panic, or an exception of Python.
Unread(l, failure, list) ==
    {NoFrame(IF l = "rust" /\ failure = "error" THEN "skipped" ELSE "dead", list)}

\* The headers reach into octets that are not known.
UnknownOctets(l, list) ==
    {NoFrame(o, list) : o \in {"failed", "dead"} \cup (IF l = "rust" THEN {"skipped"} ELSE {})}

\* Mutant: the key found takes the first place and nothing takes its own.
KeysOver(l, list, i) == [list EXCEPT ![1] = list[i]]

\* keys.swap(0, index); network_keys = {name: key, **network_keys}
KeysAfter(l, list, i) ==
    IF l = "rust" THEN [list EXCEPT ![1] = list[i], ![i] = list[1]]
    ELSE <<list[i]>> \o RemoveAt(list, i)

\* Python encrypts what it has decrypted again, and reads an APS frame from data.
PythonAsserts(k, f, text) ==
    /\ Encrypt(k, f, text) = f.pieces
    /\ f.nwk.control.type = 0 => IsPresent(ReadAps("python", Text(text)))

\* The loop over the keys.
TryKeys(l, list, f) ==
    LET fits == {i \in DOMAIN list : IsPresent(Decrypt(list[i], f))}
        i == Min(fits)
        text == Decrypt(list[i], f)
    IN  IF fits = {} THEN Result("failed", list, <<f>>, Absent)
        ELSE Result(IF l = "python" /\ ~PythonAsserts(list[i], f, text[1]) THEN "dead" ELSE "opened",
                    KeysAfter(l, list, i), <<f>>, text)

\* The octets of a piece: as many as the text in it has.
PieceOctets(piece) ==
    LET texts == {atom \in piece : atom[1] = "text"}
    IN  IF texts = {} THEN PieceLength ELSE Len((CHOOSE atom \in texts : TRUE)[2])

\* Whether there is enough to split a tag from; of the pieces only the last of a text
\* can be shorter than the tag.
HasTag(left, pieces) ==
    \/ Len(left) >= PieceLength \/ Len(pieces) > 1
    \/ Len(pieces) = 1 /\ Len(left) + PieceOctets(pieces[1]) >= PieceLength

\* A secured frame, with the octets between its headers and its pieces.
Secured(l, list, f, left) ==
    CASE ~CanAuthenticate(l, f) -> NoFrame("dead", list)
      [] CanAuthenticate(l, f) /\ l = "rust" /\ ~HasTag(left, f.pieces) -> NoFrame("dead", list)
      [] CanAuthenticate(l, f) /\ left # <<>> -> Result("failed", list, <<f>>, Absent)
      [] OTHER -> TryKeys(l, list, f)

\* from_bytes and what the script does with the frame.  Rust takes a frame without
\* security as it is, Python raises.
Handle(l, list, w) ==
    LET o == w.octets
        nwk == ReadNwk(o)
        rest == SubSeq(o, NwkLength(o) + 1, Len(o))
        frame == [nwk |-> nwk, aux |-> ReadAux(rest), pieces |-> w.pieces]
        read == NwkOutcome(l, o)
        secured == nwk.control.security = 1
        readAux == AuxOutcome(l, rest)
    IN  CASE read # "read" ->
               IF w.pieces = <<>> \/ ~NwkKnown(l, ReadNwkControl(o)) THEN Unread(l, read, list)
               ELSE UnknownOctets(l, list)
          [] read = "read" /\ ~secured ->
               IF l = "python" THEN {NoFrame("dead", list)}
               ELSE {Result("plain", list, <<[nwk |-> nwk]>>, <<Pieces(rest) \o w.pieces>>)}
          [] read = "read" /\ secured /\ readAux # "read" ->
               IF w.pieces = <<>> THEN Unread(l, readAux, list) ELSE UnknownOctets(l, list)
          [] OTHER -> {Secured(l, list, frame, SubSeq(rest, AuxLength(rest) + 1, Len(rest)))}
--------------------------------------------------------------------------------
Unseen == [l \in Languages |-> NoFrame("unread", KeyList)]

SecurityInit == /\ sent = Absent /\ wire = [octets |-> <<>>, pieces |-> <<>>]
        /\ changes = 0 /\ count = 0
        /\ keys = [l \in Languages |-> KeyList]
        /\ result = Unseen

\* Frame after frame, each when the scripts have taken the last or have ended.
SendFrame(l, k, f) ==
    /\ count < MaxFrames
    /\ \A m \in Languages : sent # Absent => result[m].outcome # "unread"
    /\ CanWrite(l, f)
    /\ count' = count + 1
    /\ sent' = <<[given |-> f, key |-> k, sealer |-> l, wire |-> Write(l, k, f)]>>
    /\ wire' = Write(l, k, f)
    /\ result' = [m \in Languages |-> 
                    NoFrame(IF result[m].outcome \in {"dead", "ended"} THEN "ended" ELSE "unread", keys[m])]
    /\ UNCHANGED <<changes, keys>>

Noise(piece) == SymDiff(piece, {<<"noise">>})
Flip(o, bits) ==
    LET Of(i) == 2^i * (IF i \in bits THEN 1 - Bits(o, i, 1) ELSE Bits(o, i, 1))
    IN  Of(0) + Of(1) + Of(2) + Of(3) + Of(4) + Of(5) + Of(6) + Of(7)

\* What the air may make of a frame: bits flipped, a piece changed or in another's
\* place, the end lost.
Changed(w) ==
         {[w EXCEPT !.octets[i] = Flip(@, b)] : i \in DOMAIN w.octets, b \in Bursts}
    \cup {[w EXCEPT !.pieces[i] = Noise(@)] : i \in DOMAIN w.pieces}
    \cup {[w EXCEPT !.pieces[i] = w.pieces[j], !.pieces[j] = w.pieces[i]] : i, j \in DOMAIN w.pieces}
    \cup {[w EXCEPT !.pieces = SubSeq(@, 1, n)] : n \in 0 .. Len(w.pieces) - 1}
    \cup {[octets |-> SubSeq(w.octets, 1, n), pieces |-> <<>>] : n \in 0 .. Len(w.octets) - 1}

Change ==
    /\ sent # Absent
    /\ \A l \in Languages : result[l].outcome \in {"unread", "ended"}
    /\ changes < MaxChanges
    /\ changes' = changes + 1
    /\ wire' \in Changed(wire) \ {wire}
    /\ UNCHANGED <<sent, count, keys, result>>

\* The script of l takes the next frame of the capture.  The scripts do not know of
\* each other, so that Rust's may go first.
Dump(l) ==
    /\ sent # Absent
    /\ result[l].outcome = "unread"
    /\ l = "python" => result["rust"].outcome # "unread"
    /\ \E r \in Handle(l, keys[l], wire) :
         /\ result' = [result EXCEPT ![l] = r]
         /\ keys' = [keys EXCEPT ![l] = r.keys]
    /\ UNCHANGED <<sent, wire, changes, count>>

SecurityNext == \/ \E l \in Languages, k \in Keys, f \in NwkFrames : SendFrame(l, k, f)
        \/ Change
        \/ \E l \in Languages : Dump(l)

SecuritySpec == SecurityInit /\ [][SecurityNext]_securityVars
--------------------------------------------------------------------------------
(* Properties *)

Taken(l) == sent # Absent /\ result[l].outcome \notin {"unread", "ended"}
Given == sent[1].given
GivenText == Payload(sent[1].sealer, Given)

\* What ends Python's script though it is decrypted: data too short for an APS header.
EndsPython(l) ==
    l = "python" /\ Given.nwk.control.type = 0 /\ Len(Text(GivenText)) < ApsHeaderLength

\* What arrives as it was sent is decrypted with its key, whatever the scripts
\* have decrypted before and however they have moved their keys, to the frame it
\* was, with the level it carried, and encrypts to the same octets again, as the
\* tests of Rust want and Python asserts; only frames without an extended source
\* fail in Python, and those of undefined types in Rust (dump_pcap.rs:123-133,
\* zigbee_types.py:667-686, zigbee_nwk.rs:630-654, 747-751).
OpensWhatWasSealed ==
    \A l \in Languages :
        (Taken(l) /\ wire = sent[1].wire /\ IsSecured(Given)
           /\ NwkKnown(l, Given.nwk.control) /\ CanAuthenticate(l, Given) /\ ~EndsPython(l)) =>
            LET r == result[l]
            IN  /\ r.outcome = "opened"
                /\ r.frame[1].nwk = Given.nwk /\ r.frame[1].aux = Given.aux
                /\ r.text = <<GivenText>>
                /\ Encrypt(sent[1].key, r.frame[1], r.text[1]) = wire.pieces

\* A frame is decrypted only with the key it was encrypted with, and to the
\* payload and the headers it was encrypted with, but for the level, which is
\* not authenticated: XXX of zigbee_types.py:426.
NothingElseOpens ==
    \A l \in Languages :
        (Taken(l) /\ result[l].outcome = "opened") =>
            LET r == result[l]
            IN  /\ r.keys[1] = sent[1].key /\ r.text = <<GivenText>>
                /\ r.frame[1].nwk = Given.nwk
                /\ Modified(r.frame[1].aux) = Modified(Given.aux)

\* The headers that were read, damaged or not, are written again to the octets they were
\* read from: the MAC is computed from what is written, not from what arrived
\* (zigbee_nwk.rs:473-474, zigbee_types.py:457).
HeadersSurvive ==
    \A l \in Languages :
        (Taken(l) /\ IsPresent(result[l].frame)) =>
            LET f == result[l].frame[1]
                octets == WriteNwk(f.nwk) \o (IF IsSecured(f) THEN WriteAux(f.aux) ELSE <<>>)
            IN  IsPrefix(octets, wire.octets)

\* Cluster and profile of a frame that Rust has written come out with their octets
\* swapped (zigbee_aps.rs:125-126, 102-103).
AsWritten(f) ==
    LET Swapped(n) == Number(HighFirst(n, 2))
    IN  IF sent[1].sealer = "python" THEN f
        ELSE [f EXCEPT !.cluster = Swapped(@), !.profile = Swapped(@)]

\* The APS frame in a payload that was decrypted, or came in the clear, is the one
\* that was given, but for the numbers Rust writes in the other order and the types and
\* modes Rust does not know (zigbee_aps.rs:96-118, zigbee_types.py:603-632).
ApsSurvives ==
    \A l \in Languages :
        (Taken(l) /\ IsPresent(Given.aps) /\ wire = sent[1].wire /\ IsPresent(result[l].text)) =>
            ReadAps(l, Text(result[l].text[1])) =
                IF ApsKnown(l, Given.aps[1].control) THEN <<AsWritten(Given.aps[1])>> ELSE Absent
================================================================================
