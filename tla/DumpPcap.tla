------------------------------- MODULE DumpPcap -------------------------------
(***************************************************************************)
(* The capture reader of dump_pcap.rs, up to the frame it hands to         *)
(* NwkFrame: packets from a radio that keeps the FCS in the file or takes  *)
(* it off.  Which of the two it is the reader finds out with the first     *)
(* packet, and believes it for the rest.  A radio that takes the FCS off   *)
(* has checked it.                                                         *)
(***************************************************************************)
EXTENDS MacFrame

VARIABLES inFile,     \* the packets of this file have their FCS
          present,    \* fcs_present: "unknown", "yes" or "no"
          misleading, \* the first packet looks like one of the other kind of file
          dumped,     \* the frame made of the packet, as a sequence of one or none
          dumper      \* "waiting" for the packet, "done" with it, or "dead"

dumpVars == <<inFile, present, misleading, dumped, dumper>>
-------------------------------------------------------------------------------
Packet == IF inFile THEN air ELSE SubSeq(air, 1, Len(air) - 2)

\* from_bytes_without_fcs: the FCS is computed and from_bytes compares it.
Candidate(p, data) == IF p = "yes" THEN data ELSE WithFcs(data)
Reads(p, data) == Outcome("rust", Candidate(p, data))

\* Mutant: decided anew for each packet.
FoundAnew(data) ==
    IF Reads("yes", data) = "frame" THEN "yes"
    ELSE IF Reads("yes", data) = "error" /\ Reads("no", data) = "frame" THEN "no" ELSE "unknown"

\* fcs_present, after the packet: unknown if it has made the reader panic.
Found(data) ==
    IF present # "unknown" THEN present
    ELSE IF Reads("yes", data) = "frame" THEN "yes"
    ELSE IF Reads("yes", data) = "error" /\ Reads("no", data) = "frame" THEN "no" ELSE "unknown"

\* Whether the octets sent are a frame to Rust.
IsReadable == Outcome("rust", air) = "frame"

\* With FCS, the packet was damaged or is one Rust does not read; without, it ends in
\* an FCS of its own, that of the octets ahead of it.
Misleads == IF inFile THEN ~IsReadable ELSE Accepts("rust", Packet)

\* The body of the loop.  Both expects, and the panics of from_bytes, end the program.
\* The readers of MacFrame, which do not touch the packet, go first.
Dump ==
    LET p == Found(Packet)
        ok == p # "unknown" /\ Reads(p, Packet) = "frame"
    IN  /\ dumper = "waiting"
        /\ \A l \in Languages : outcome[l] # "unread"
        /\ inFile \/ damaged = {}
        /\ present' = p
        /\ misleading' = IF present = "unknown" THEN Misleads ELSE misleading
        /\ dumper' = IF ok THEN "done" ELSE "dead"
        /\ dumped' = IF ok THEN <<Fields("rust", Body("rust", Candidate(p, Packet)))>> ELSE <<>>
        /\ UNCHANGED <<macVars, inFile>>

\* Another packet, which comes into being like the first; one that is damaged has not
\* got past a radio that checks the FCS.
NextPacket ==
    /\ dumper = "done" \/ (~inFile /\ damaged # {} /\ \A l \in Languages : outcome[l] # "unread")
    /\ \E p \in Packets : written' = p.written /\ writer' = p.writer /\ air' = p.air
    /\ damaged' = {}
    /\ outcome' = [l \in Languages |-> "unread"]
    /\ frame' = [l \in Languages |-> <<>>]
    /\ dumper' = "waiting" /\ dumped' = <<>>
    /\ UNCHANGED <<inFile, present, misleading>>

DumpInit ==
    /\ MacInit
    /\ inFile \in BOOLEAN
    /\ present = "unknown" /\ misleading = FALSE
    /\ dumped = <<>> /\ dumper = "waiting"

DumpNext == \/ MacNext /\ dumper = "waiting" /\ UNCHANGED dumpVars
            \/ Dump
            \/ NextPacket

DumpSpec == DumpInit /\ [][DumpNext]_<<macVars, dumpVars>>
-------------------------------------------------------------------------------
(* Properties *)

\* The file was taken for one of the other kind.
Misjudged == present # "unknown" /\ (present = "yes") # inFile

\* A packet is dumped with the fields its octets have, a damaged one never, and
\* the program ends early only at a packet that no reader takes, unless fcs_present
\* is wrong, or the first packet misled it; fcs_present is wrong only if that packet
\* was damaged or is no frame to Rust, in a file with FCS, or ends in an FCS of its
\* own, in a file without (dump_pcap.rs:74-92).
DumpedAsCaptured ==
    /\ Misjudged => misleading
    /\ (dumper = "done" /\ ~Misjudged) => damaged = {} /\ dumped = <<Fields("rust", Body("rust", air))>>
    /\ (dumper = "dead" /\ ~Misjudged) => ~IsReadable \/ misleading
===============================================================================
