----------------------------- MODULE SpinelTools -----------------------------
(***************************************************************************)
(* packet_capture.rs and packet_sender.rs, run one after the other on one  *)
(* radio: main of either tool over SpinelClient, its reader task, and the  *)
(* receivers of PropertyUpdates, of which each process registers its own.  *)
(*                                                                         *)
(* A tool makes its requests one at a time and gives up, by a panic, at    *)
(* the first that fails.  The radio outlives it: it goes on answering what *)
(* the process asked, and goes on streaming.  The next process counts its  *)
(* TIDs from the start and cannot tell whom an answer is meant for.        *)
(*                                                                         *)
(* External: the radio carries out requests in order; the line keeps order *)
(* and loses what it likes; reopening the port may discard what the kernel *)
(* holds.                                                                  *)
(***************************************************************************)
EXTENDS PropertyUpdates, FiniteSets

CONSTANTS NumTids,       \* 7 in the code
          FirstTid,      \* of each tool: what next_tid starts with
          MaxRequests    \* bound: the requests of one process

ASSUME ProcessesAssumption ==
    IsFiniteSet(Consumers) /\ Consumers # {} /\ Consumers = 1 .. Cardinality(Consumers)
ASSUME TidsAssumption == NumTids \in Nat \ {0}
ASSUME ToolsAssumption == FirstTid \in [{"capture", "sender"} -> 1 .. NumTids]

VARIABLES
    process,     \* the processes so far; the last is the one that runs, as consumer
    tool,        \* the tool it is
    state,       \* where its main stands
    asked,       \* the requests it has prepared
    answers,     \* those that answered them: answers[n] is what the n-th got
    nextTid,     \* next_tid
    pending,     \* the TID in pending_frames; 0: none
    readerUp,    \* the task of spawn_reader is running
    requests,    \* on the way to the radio
    line,        \* frames on the way to the host, answers and updates
    streaming    \* the radio sends what it receives

clientVars == <<asked, answers, nextTid, pending>>
processVars == <<process, tool, readerUp>>
radioVars == <<requests, line, streaming>>
toolsVars == <<vars, state, clientVars, processVars, radioVars>>

CaptureStartup == <<"NcpVersion", "PhyEnabled", "MacPromiscuousMode", "PhyChan", "MacRawStreamEnabled">>
SenderStartup == <<"NcpVersion", "PhyEnabled", "MacRawStreamEnabled", "PhyChan">>
Startup == [capture |-> CaptureStartup, sender |-> SenderStartup]

\* The first process finds a radio that may be streaming already.
ToolsInit ==
    /\ Init
    /\ process = 1
    /\ tool \in DOMAIN Startup
    /\ state = "calling"
    /\ asked = 0
    /\ answers = <<>>
    /\ nextTid = FirstTid[tool]
    /\ pending = 0
    /\ readerUp = TRUE
    /\ requests = <<>>
    /\ line = <<>>
    /\ streaming \in BOOLEAN
------------------------------------------------------------------------------
(* send_command, called by main and by nobody else *)

IsStarted == asked >= Len(Startup[tool])

\* The next request is one of the startup, or of the sender's loop: a frame for the air.
IsNext == IsStarted => tool = "sender"

\* prepare_request
Prepare ==
    /\ state = "calling"
    /\ IsNext
    /\ asked < MaxRequests
    /\ state' = "prepared"
    /\ asked' = asked + 1
    /\ pending' = nextTid
    /\ nextTid' = 1 + (nextTid % NumTids)
    /\ UNCHANGED <<vars, answers, processVars, radioVars>>

\* The TID of the request prepared last.
LastTid == IF nextTid = 1 THEN NumTids ELSE nextTid - 1

\* port.write takes all of the frame, or as much as fits: the rest is not written.
Write ==
    LET r == [tid |-> LastTid, from |-> <<process, asked>>,
              enables |-> asked <= Len(Startup[tool]) /\ Startup[tool][asked] = "MacRawStreamEnabled"]
    IN  /\ state = "prepared"
        /\ state' = "waiting"
        /\ requests' \in {Append(requests, r), requests}
        /\ UNCHANGED <<vars, clientVars, processVars, line, streaming>>

\* expect, unwrap
WriteFails ==
    /\ state = "prepared"
    /\ state' = "stopped"
    /\ UNCHANGED <<vars, clientVars, processVars, radioVars>>

HasAnswer == Len(answers) = asked

\* prop_value_get and prop_value_set look for a property in the answer and
\* neither at which it is nor at the value.  Without one, main panics.
Return ==
    /\ state = "waiting"
    /\ HasAnswer
    /\ state' \in {"calling", "stopped"}
    /\ UNCHANGED <<vars, clientVars, processVars, radioVars>>

\* Mutant: transmit_frame returns the error, and main goes on.
TimeoutPrinted ==
    /\ state = "waiting"
    /\ ~HasAnswer
    /\ state' = "calling"
    /\ answers' = Append(answers, <<process, asked>>)
    /\ pending' = 0
    /\ UNCHANGED <<vars, asked, nextTid, processVars, radioVars>>

\* Timeout: expect and unwrap panic, those in transmit_frame included.
Timeout ==
    /\ state = "waiting"
    /\ ~HasAnswer
    /\ state' = "stopped"
    /\ pending' = 0
    /\ UNCHANGED <<vars, asked, answers, nextTid, processVars, radioVars>>
------------------------------------------------------------------------------
(* The reader task *)

IsUp == state # "stopped"

\* handle_inbound_frame.  TID 0 is an update.
Deliver ==
    LET f == Head(line)
    IN  /\ IsUp /\ readerUp
        /\ line # <<>>
        /\ line' = Tail(line)
        /\ \/ /\ f.tid = 0
              /\ Update(f.property)
              /\ UNCHANGED clientVars
           \/ /\ f.tid = pending /\ pending # 0
              /\ pending' = 0
              /\ answers' = Append(answers, f.from)
              /\ UNCHANGED <<vars, asked, nextTid>>
           \/ /\ f.tid \notin {0, pending}
              /\ UNCHANGED <<vars, clientVars>>
        /\ UNCHANGED <<state, processVars, requests, streaming>>

ReaderStop ==
    /\ IsUp /\ readerUp
    /\ readerUp' = FALSE
    /\ UNCHANGED <<vars, state, clientVars, process, tool, radioVars>>
------------------------------------------------------------------------------
(* The loop of packet_capture, and the end of a process *)

\* The receiver is registered when the radio is streaming already.
Listen ==
    /\ state = "calling"
    /\ tool = "capture" /\ IsStarted
    /\ Register(process)
    /\ state' = "listening"
    /\ UNCHANGED <<clientVars, processVars, radioVars>>

\* A packet is printed, or skipped; readers of fewer octets than they index panic.
Take ==
    /\ state = "listening"
    /\ Receive(process)
    /\ state' \in {"listening", "stopped"}
    /\ UNCHANGED <<clientVars, processVars, radioVars>>

Interrupt ==
    /\ IsUp
    /\ state' = "stopped"
    /\ UNCHANGED <<vars, clientVars, processVars, radioVars>>

\* The next process: a new client, whose next_tid the sender sets itself.
Restart ==
    /\ ~IsUp
    /\ process + 1 \in Consumers
    /\ process' = process + 1
    /\ tool' \in DOMAIN Startup
    /\ state' = "calling"
    /\ asked' = 0
    /\ answers' = <<>>
    /\ nextTid' = FirstTid[tool']
    /\ pending' = 0
    /\ readerUp' = TRUE
    /\ registered' = [p \in Properties |-> {}]
    /\ channel' = [channel EXCEPT ![process] = <<>>]
    /\ pc' = [pc EXCEPT ![process] = "ended"]
    /\ line' \in {line, <<>>}
    /\ UNCHANGED <<sent, taken, held, requests, streaming>>
------------------------------------------------------------------------------
(* External: the radio and the line *)

Answer ==
    /\ requests # <<>>
    /\ requests' = Tail(requests)
    /\ line' = Append(line, Head(requests))
    /\ streaming' = (streaming \/ Head(requests).enables)
    /\ UNCHANGED <<vars, state, clientVars, processVars>>

UpdatesOnLine == {i \in DOMAIN line : line[i].tid = 0}

Emit(p) ==
    /\ streaming
    /\ Len(sent) + Cardinality(UpdatesOnLine) < MaxUpdates
    /\ line' = Append(line, [tid |-> 0, property |-> p])
    /\ UNCHANGED <<vars, state, clientVars, processVars, requests, streaming>>

LoseRequest ==
    /\ requests # <<>>
    /\ requests' = Tail(requests)
    /\ UNCHANGED <<vars, state, clientVars, processVars, line, streaming>>

LoseFrame ==
    /\ line # <<>>
    /\ line' = Tail(line)
    /\ UNCHANGED <<vars, state, clientVars, processVars, requests, streaming>>
------------------------------------------------------------------------------
ToolsNext ==
    \/ Prepare \/ Write \/ WriteFails \/ Return \/ Timeout
    \/ Deliver \/ ReaderStop
    \/ Listen \/ Take \/ Interrupt \/ Restart
    \/ Answer \/ (\E p \in Properties : Emit(p)) \/ LoseRequest \/ LoseFrame

\* tokio runs the task that is ready, and its timer fires.
ToolsSpec == /\ ToolsInit /\ [][ToolsNext]_toolsVars
             /\ WF_toolsVars(Return) /\ WF_toolsVars(Timeout)
------------------------------------------------------------------------------
(* Properties *)

\* An answer meant for an earlier process can be taken for an answer to one of
\* this, but that heals: each process leaves one request open at most, so the
\* n-th process is deceived about its first n - 1 requests at most, and has the
\* answers to all others (next_tid, handle_inbound_frame, and expect in both
\* tools).  After as many processes as there are TIDs it need not heal: an
\* answer that is late by a whole cycle is like the one in time.
StaleAnswersRunOut ==
    process <= NumTids => \A n \in DOMAIN answers :
        \/ answers[n] = <<process, n>>
        \/ n < process /\ answers[n][1] < process

\* A tool that waits for an answer when its reader has stopped ends: it does
\* not wait for what cannot come, nor go on without it.
LostPortEndsTool ==
    (state = "waiting" /\ ~readerUp /\ ~HasAnswer) ~> ~IsUp
==============================================================================
