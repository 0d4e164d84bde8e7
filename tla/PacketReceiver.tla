---------------------------- MODULE PacketReceiver ----------------------------
(***************************************************************************)
(* How a packet of the air reaches zigpy: start_network and the callback   *)
(* for received frames of zigpy_spinel/zigbee/application.py.              *)
(*                                                                         *)
(* start_network configures the radio, one awaited set_property after the  *)
(* other, sleeps a second and only then registers the callback with the    *)
(* Spinel protocol of the connection.  The callback starts a task for each *)
(* frame it is called with.  A task runs up to its first await: it decodes *)
(* the frame, filters it, and awaits the transmission of a reply to a      *)
(* route request or of an APS acknowledgement.  The packet goes up to      *)
(* zigpy after the acknowledgement.                                        *)
(*                                                                         *)
(* The module is about one connection.  Its numbers, codecs and            *)
(* transactions are those of FrameCounter and PySpinel.                    *)
(***************************************************************************)
EXTENDS Integers, Sequences, FiniteSets

CONSTANTS
    Frames,         \* the frames that may come in
    Header,         \* what each says in the fields the callback looks at
    Starts,         \* the calls of start_network on this connection
    MaxArrivals     \* bound: frames received

Fields == [type : {"Data", "other"},            \* of the 802.15.4 frame
           pan : {"ours", "other"},
           dest : {"us", "elsewhere", "broadcast", "long"},
           readable : BOOLEAN,                  \* secured with the network key
           nwk : {"Data", "routeRequest", "other"},
           aps : {"Data", "other"},
           ack : BOOLEAN,                       \* asks for an APS acknowledgement
           radius : 0 .. 255]

ASSUME HeaderAssumption == Header \in [Frames -> Fields]

VARIABLES
    start,          \* where each start_network stands
    set,            \* how many properties it has set
    radio,          \* the properties of the radio that have been set
    refused,        \* the radio has refused one, and said so
    listeners,      \* registrations of the callback for STREAM_RAW
    connected,      \* the transport is open
    arrived,        \* the frames received from the radio, in order
    tuned,          \* history: whether the radio was configured at each arrival
    tasks,          \* the tasks of the callback, in the order of creation
    handed          \* the calls of packet_received: the arrivals, in order

startVars == <<start, set, radio, refused, listeners>>
vars == <<startVars, connected, arrived, tuned, tasks, handed>>

\* The properties in the order start_network sets them.
Config == <<"PHY_ENABLED", "MAC_15_4_LADDR", "MAC_15_4_SADDR", "MAC_15_4_PANID",
            "MAC_RAW_STREAM_ENABLED", "PHY_CHAN">>

Settings == {Config[i] : i \in DOMAIN Config}

FrameOf(t) == arrived[tasks[t].arrival]

Init == /\ start = [s \in Starts |-> "idle"]
        /\ set = [s \in Starts |-> 0]
        /\ radio = {}
        /\ refused = FALSE
        /\ listeners = 0
        /\ connected = TRUE
        /\ arrived = <<>>
        /\ tuned = <<>>
        /\ tasks = <<>>
        /\ handed = <<>>
-------------------------------------------------------------------------------
(* start_network *)

rest == <<connected, arrived, tuned, tasks, handed>>

Begin(s) == /\ start[s] = "idle"
            /\ start' = [start EXCEPT ![s] = "setting"]
            /\ UNCHANGED <<set, radio, refused, listeners, rest>>

\* The coroutine awaits set_property(NextOf(s)).
Awaiting(s) == start[s] = "setting" /\ set[s] < Len(Config)
NextOf(s) == Config[set[s] + 1]

\* Mutant: the callback is registered as soon as the stream is on.
SetPropertyEarly(s) ==
    /\ Awaiting(s)
    /\ connected
    /\ radio' = radio \cup {NextOf(s)}
    /\ set' = [set EXCEPT ![s] = @ + 1]
    /\ listeners' = IF set[s] = 4 THEN listeners + 1 ELSE listeners
    /\ UNCHANGED <<start, refused, rest>>

\* set_property returns: nobody looks whether the radio said yes.
SetProperty(s) ==
    /\ Awaiting(s)
    /\ connected
    /\ \/ /\ radio' = radio \cup {NextOf(s)}
          /\ UNCHANGED refused
       \/ /\ refused' = TRUE
          /\ UNCHANGED radio
    /\ set' = [set EXCEPT ![s] = @ + 1]
    /\ UNCHANGED <<start, listeners, rest>>

\* It times out, with or without effect, and so ends start_network.
SetPropertyRaises(s) ==
    /\ Awaiting(s)
    /\ radio' \in {radio} \cup (IF connected THEN {radio \cup {NextOf(s)}} ELSE {})
    /\ start' = [start EXCEPT ![s] = "raised"]
    /\ UNCHANGED <<set, refused, listeners, rest>>

\* The sleep is over: the callback joins those that are registered.
Listen(s) ==
    /\ start[s] = "setting"
    /\ set[s] = Len(Config)
    /\ start' = [start EXCEPT ![s] = "done"]
    /\ listeners' = listeners + 1
    /\ UNCHANGED <<set, radio, refused, rest>>
-------------------------------------------------------------------------------
(* The callback *)

\* A frame comes in: a task for each registration, none without.
Arrive(f) ==
    /\ connected
    /\ {"PHY_ENABLED", "MAC_RAW_STREAM_ENABLED"} \subseteq radio
    /\ Len(arrived) < MaxArrivals
    /\ arrived' = Append(arrived, f)
    /\ tuned' = Append(tuned, radio = Settings)
    /\ tasks' = tasks \o [i \in 1 .. listeners |->
                            [arrival |-> Len(arrived) + 1, pc |-> "ready"]]
    /\ UNCHANGED <<startVars, connected, handed>>

Goto(t, pc) == tasks' = [tasks EXCEPT ![t].pc = pc]

HandUp(t) == /\ Goto(t, "handedUp")
             /\ handed' = Append(handed, tasks[t].arrival)

\* The early returns before the frame is decrypted.
NotForUs(h) == \/ h.type # "Data"
               \/ h.pan # "ours"
               \/ h.dest = "elsewhere"

\* Those after it.
NoPacket(h) == h.nwk # "Data" \/ h.aps # "Data"

\* The exceptions: there is nothing to decrypt or it does not decrypt, and
\* uint8_t(radius - 1) of the acknowledgement.
Fails(h) == \/ ~h.readable
            \/ h.nwk = "Data" /\ h.aps = "Data" /\ h.ack /\ h.radius = 0

\* Mutant: any ready task may run first.
FirstAny(t) == tasks[t].pc = "ready"

\* The event loop runs tasks in the order they were created.
First(t) == /\ tasks[t].pc = "ready"
            /\ \A u \in 1 .. t - 1 : tasks[u].pc # "ready"

\* A task from its start to its first await, or to its end.
Run(t) ==
    LET h == Header[FrameOf(t)]
    IN  /\ First(t)
        /\ \/ /\ NotForUs(h)
              /\ Goto(t, "ignored")
              /\ UNCHANGED handed
           \/ /\ ~NotForUs(h) /\ Fails(h)
              /\ Goto(t, "raised")
              /\ UNCHANGED handed
           \/ /\ ~NotForUs(h) /\ ~Fails(h) /\ h.nwk = "routeRequest"
              /\ Goto(t, "replying")
              /\ UNCHANGED handed
           \/ /\ ~NotForUs(h) /\ ~Fails(h) /\ h.nwk # "routeRequest" /\ NoPacket(h)
              /\ Goto(t, "ignored")
              /\ UNCHANGED handed
           \/ /\ ~NotForUs(h) /\ ~Fails(h) /\ ~NoPacket(h) /\ h.ack
              /\ Goto(t, "acking")
              /\ UNCHANGED handed
           \/ /\ ~NotForUs(h) /\ ~Fails(h) /\ ~NoPacket(h) /\ ~h.ack
              /\ HandUp(t)
        /\ UNCHANGED <<startVars, connected, arrived, tuned>>

\* The radio has sent the acknowledgement, whatever became of it.
Acknowledged(t) ==
    /\ tasks[t].pc = "acking"
    /\ connected
    /\ HandUp(t)
    /\ UNCHANGED <<startVars, connected, arrived, tuned>>

\* Mutant: an acknowledgement that was not acknowledged drops the packet.
NotAcknowledgedDrops(t) ==
    /\ tasks[t].pc = "acking"
    /\ connected
    /\ Goto(t, "ignored")
    /\ UNCHANGED <<startVars, connected, arrived, tuned, handed>>

\* NO_ACK: the only attempt has failed, and the task sleeps before it goes on.
NotAcknowledged(t) ==
    /\ tasks[t].pc = "acking"
    /\ connected
    /\ Goto(t, "sleeping")
    /\ UNCHANGED <<startVars, connected, arrived, tuned, handed>>

Awake(t) ==
    /\ tasks[t].pc = "sleeping"
    /\ HandUp(t)
    /\ UNCHANGED <<startVars, connected, arrived, tuned>>

\* The reply to the route request is over, after up to five attempts.
Replied(t) ==
    /\ tasks[t].pc = "replying"
    /\ connected
    /\ Goto(t, "replied")
    /\ UNCHANGED <<startVars, connected, arrived, tuned, handed>>

\* set_property raises out of the task, and the packet is never handed up.
SendRaises(t) ==
    /\ tasks[t].pc \in {"acking", "replying"}
    /\ Goto(t, "raised")
    /\ UNCHANGED <<startVars, connected, arrived, tuned, handed>>

\* disconnect closes the transport; the tasks go on.
Disconnect ==
    /\ connected
    /\ connected' = FALSE
    /\ UNCHANGED <<startVars, arrived, tuned, tasks, handed>>
-------------------------------------------------------------------------------
Continue(t) == \/ Acknowledged(t) \/ NotAcknowledged(t) \/ Awake(t)
               \/ Replied(t) \/ SendRaises(t)

Next == \/ \E s \in Starts : \/ Begin(s) \/ SetProperty(s) \/ SetPropertyRaises(s)
                             \/ Listen(s)
        \/ \E f \in Frames : Arrive(f)
        \/ \E t \in DOMAIN tasks : Run(t) \/ Continue(t)
        \/ Disconnect

Spec == Init /\ [][Next]_vars

MaxTasks == MaxArrivals * Cardinality(Starts)

\* The event loop runs what is ready; set_property returns or times out.
FairSpec ==
    Spec /\ \A t \in 1 .. MaxTasks : /\ WF_vars(t \in DOMAIN tasks /\ Run(t))
                                     /\ WF_vars(t \in DOMAIN tasks /\ Continue(t))
-------------------------------------------------------------------------------
(* Properties *)

\* A packet that reaches zigpy twice was received after start_network had
\* completed twice on one connection: nothing ever removes the callback, and
\* nothing else duplicates a packet (application.py:105-107, 281-282).
TwiceOnlyIfStartedTwice ==
    \A i, j \in DOMAIN handed :
        (i # j /\ handed[i] = handed[j]) =>
            Cardinality({s \in Starts : start[s] = "done"}) > 1

\* Packets that ask for no acknowledgement reach zigpy in the order in which
\* they came in, whatever happens to those that do (application.py:418-530).
UnacknowledgedKeepOrder ==
    \A i, j \in DOMAIN handed :
        (i < j /\ ~Header[arrived[handed[i]]].ack /\ ~Header[arrived[handed[j]]].ack)
            => handed[i] <= handed[j]

\* What reaches zigpy was received by a radio with all its settings, on the
\* network's own channel and behind its address filter, unless the radio
\* refused one and start_network did not look (application.py:87-107).
HandedUpWasTuned ==
    \A i \in DOMAIN handed : tuned[handed[i]] \/ refused

Ended(t, pcs) == t \in DOMAIN tasks /\ tasks[t].pc \in pcs

\* A frame for us that can be read and is a packet reaches zigpy.  Only one that
\* asks for an acknowledgement may fail to: where the radio does not answer to
\* the acknowledgement, which it may have sent, or the radius of the packet is
\* zero and there is none below it (application.py:284-530).
Wanted(h) == h.readable /\ ~NotForUs(h) /\ ~NoPacket(h)

WantedReachesZigpy ==
    \A t \in 1 .. MaxTasks :
        (t \in DOMAIN tasks /\ Wanted(Header[FrameOf(t)])) ~>
            \/ Ended(t, {"handedUp"})
            \/ Ended(t, {"raised"}) /\ Header[FrameOf(t)].ack
-------------------------------------------------------------------------------
(* The inductive invariant of the safety properties *)

Pcs == {"ready", "ignored", "raised", "replying", "replied", "acking", "sleeping",
        "handedUp"}

Tasks == [arrival : Nat, pc : Pcs]

TypeOK ==
    /\ start \in [Starts -> {"idle", "setting", "raised", "done"}]
    /\ set \in [Starts -> 0 .. Len(Config)]
    /\ radio \subseteq Settings
    /\ refused \in BOOLEAN
    /\ listeners \in Nat
    /\ connected \in BOOLEAN
    /\ arrived \in Seq(Frames)
    /\ tuned \in Seq(BOOLEAN)
    /\ tasks \in Seq(Tasks)
    /\ handed \in Seq(Nat)

Completed == {s \in Starts : start[s] = "done"}

\* A registration for each start_network that has completed, and what each has
\* set by now is set unless the radio has refused something.
StartInv ==
    /\ \A s \in Starts : start[s] = "done" => set[s] = Len(Config)
    /\ refused \/ \A s \in Starts : \A i \in 1 .. set[s] : Config[i] \in radio
    /\ IsFiniteSet(Completed)
    /\ listeners = Cardinality(Completed)

\* A task is there because a start_network had completed when its frame came in,
\* and only those with an acknowledgement to send wait for one.
TaskInv ==
    /\ Len(tuned) = Len(arrived)
    /\ \A t \in DOMAIN tasks :
         /\ tasks[t].arrival \in DOMAIN arrived
         /\ tuned[tasks[t].arrival] \/ refused
         /\ tasks[t].pc \in {"acking", "sleeping"} => Header[FrameOf(t)].ack

\* Tasks are in the order of arrivals, those that have run before those that have
\* not, and two are for one arrival only if there are two registrations.
QueueInv ==
    \A t, u \in DOMAIN tasks : t < u =>
        /\ tasks[t].arrival <= tasks[u].arrival
        /\ tasks[t].arrival = tasks[u].arrival => listeners > 1
        /\ tasks[t].pc = "ready" => tasks[u].pc = "ready"

\* Each packet was handed up by a task of its own.
HandedInv ==
    \E by \in [DOMAIN handed -> DOMAIN tasks] :
        /\ \A i, j \in DOMAIN handed : by[i] = by[j] => i = j
        /\ \A i \in DOMAIN handed :
             tasks[by[i]].arrival = handed[i] /\ tasks[by[i]].pc = "handedUp"

IInv == /\ TypeOK    /\ StartInv  /\ TaskInv
        /\ QueueInv  /\ HandedInv /\ UnacknowledgedKeepOrder
===============================================================================
