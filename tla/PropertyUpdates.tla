---------------------------- MODULE PropertyUpdates ----------------------------
(***************************************************************************)
(* Unsolicited property updates of the Rust stack: the receivers of        *)
(* SpinelProtocol in spinel.rs and the loop of packet_capture.rs over one. *)
(* SpinelTools has the processes that register them, one receiver each.    *)
(* The reader task hands an update to the channel registered for its       *)
(* property and never waits: what finds no channel or a full one is        *)
(* dropped.  A registration takes the place of the one before, whose       *)
(* channel closes with its sender, and its consumer ends once it has taken *)
(* what is left in it.                                                     *)
(***************************************************************************)
EXTENDS Integers, Sequences

CONSTANTS Properties, Consumers,
          Watched,       \* the property each consumer registers for
          Capacity,      \* of a channel: 32 in packet_capture
          MaxUpdates     \* bound

ASSUME WatchedAssumption == Watched \in [Consumers -> Properties]
ASSUME CapacityAssumption == Capacity \in Nat \ {0}

VARIABLES
    registered,    \* property_update_receivers: the consumers that hold the channel, none or one
    channel,       \* the updates in each consumer's channel
    pc,            \* of each consumer: "starting", "receiving" or "ended"
    sent,          \* the updates so far: their properties
    taken,         \* history: those each consumer has taken, in order
    held           \* history: who held the channel of each update when it came, with
                   \* how many it had taken by then

vars == <<registered, channel, pc, sent, taken, held>>

Init == /\ registered = [p \in Properties |-> {}]
        /\ channel = [c \in Consumers |-> <<>>]
        /\ pc = [c \in Consumers |-> "starting"]
        /\ sent = <<>>
        /\ taken = [c \in Consumers |-> <<>>]
        /\ held = <<>>
--------------------------------------------------------------------------------
\* set_property_update_receiver
Register(c) ==
    /\ pc[c] = "starting"
    /\ pc' = [pc EXCEPT ![c] = "receiving"]
    /\ registered' = [registered EXCEPT ![Watched[c]] = {c}]
    /\ UNCHANGED <<channel, sent, taken, held>>

\* Mutant: taking an update gives no room back.
PushWithoutReturn(c, u) ==
    IF Len(taken[c] \o channel[c]) < Capacity THEN Append(channel[c], u) ELSE channel[c]
\* try_send
Push(c, u) == IF Len(channel[c]) < Capacity THEN Append(channel[c], u) ELSE channel[c]

\* handle_inbound_frame of an update, which has the transaction ID 0.
Update(p) ==
    LET u == Len(sent) + 1
    IN  /\ Len(sent) < MaxUpdates
        /\ sent' = Append(sent, p)
        /\ held' = Append(held, [c \in registered[p] |-> Len(taken[c])])
        /\ channel' = [c \in Consumers |-> IF c \in registered[p] THEN Push(c, u) ELSE channel[c]]
        /\ UNCHANGED <<registered, pc, taken>>

Receive(c) ==
    /\ pc[c] = "receiving"
    /\ channel[c] # <<>>
    /\ taken' = [taken EXCEPT ![c] = Append(@, Head(channel[c]))]
    /\ channel' = [channel EXCEPT ![c] = Tail(@)]
    /\ UNCHANGED <<registered, pc, sent, held>>

\* recv returns None: the sender was replaced and the channel is empty.
End(c) ==
    /\ pc[c] = "receiving"
    /\ c \notin registered[Watched[c]]
    /\ channel[c] = <<>>
    /\ pc' = [pc EXCEPT ![c] = "ended"]
    /\ UNCHANGED <<registered, channel, sent, taken, held>>

Next == \/ \E c \in Consumers : Register(c) \/ Receive(c) \/ End(c)
        \/ \E p \in Properties : Update(p)

Spec == Init /\ [][Next]_vars
--------------------------------------------------------------------------------
(* Properties *)

\* What consumer c has been given, taken or not.
Seen(c) == taken[c] \o channel[c]

\* The update u came after the i-th that c has seen and before the next, if there is
\* one; behind the last, c is still there to get it.
Between(c, i, u) ==
    /\ i > 0 => Seen(c)[i] < u
    /\ i < Len(Seen(c)) => u < Seen(c)[i + 1]
    /\ i = Len(Seen(c)) => pc[c] # "ended"

\* A consumer gets every update that comes while it holds the channel of its
\* property, in the order they come, but for those that found the channel full: of
\* the i updates it had been given when u came, it had not taken the last Capacity.
\* It is behind, not deregistered, and catches up when it takes what it has
\* (spinel.rs:585).
GapsOnlyWhenFull ==
    \A c \in Consumers :
        /\ \A i \in 1 .. Len(Seen(c)) : sent[Seen(c)[i]] = Watched[c]
        /\ \A i \in 1 .. Len(Seen(c)) - 1 : Seen(c)[i] < Seen(c)[i + 1]
        /\ \A i \in 0 .. Len(Seen(c)), u \in 1 .. Len(held) :
              (c \in DOMAIN held[u] /\ Between(c, i, u)) => i >= held[u][c] + Capacity
--------------------------------------------------------------------------------
(* The inductive invariant *)

\* What an update may have found: the holders of its channel, and what they had taken.
Holdings == UNION {[holders -> Nat] : holders \in SUBSET Consumers}

TypeOK == /\ registered \in [Properties -> SUBSET Consumers]
          /\ channel \in [Consumers -> Seq(Nat)]
          /\ pc \in [Consumers -> {"starting", "receiving", "ended"}]
          /\ sent \in Seq(Properties)
          /\ taken \in [Consumers -> Seq(Nat)]
          /\ held \in Seq(Holdings) /\ Len(held) = Len(sent)

\* The consumer that holds the channel of its property.
Holds(c) == c \in registered[Watched[c]]

Registrations ==
    /\ \A p \in Properties : \A c \in registered[p] : p = Watched[c]
    /\ \A c \in Consumers : pc[c] # "receiving" => ~Holds(c)
    /\ \A c \in Consumers : pc[c] = "starting" => Seen(c) = <<>>

\* What c has seen are updates that came.
SeenCame == \A c \in Consumers : \A i \in 1 .. Len(Seen(c)) : Seen(c)[i] \in 1 .. Len(sent)

IInv == TypeOK /\ Registrations /\ SeenCame /\ GapsOnlyWhenFull
================================================================================
