----------------------------- MODULE FrameCounter -----------------------------
(***************************************************************************)
(* The outgoing frame counter of the Zigbee coordinator in                 *)
(* zigpy_spinel/zigbee/application.py, across connections, restarts and    *)
(* crashes.  Every NWK frame is encrypted under a nonce made of the        *)
(* coordinator's address and tx_counter, so two different frames must      *)
(* never be given the same number.  The counter is kept in memory, written *)
(* to frame_counter.json by disconnect only, and read back, with a margin  *)
(* of 1000 added, by load_network_info; write_network_info puts that of a  *)
(* backup in its place.                                                    *)
(*                                                                         *)
(* A frame is a packet of zigpy's (send_packet), the reply to a route      *)
(* request or an APS acknowledgement; each takes the next number and goes  *)
(* through _send_spinel_frame, which hands the same octets to the radio    *)
(* again after a NO_ACK, up to a number of attempts.                       *)
(*                                                                         *)
(* The environment is zigpy, which may call connect, load_network_info,    *)
(* write_network_info and disconnect in any order (its startup calls       *)
(* disconnect when connecting or loading failed, its backups call          *)
(* load_network_info while the network runs, and write_network_info to     *)
(* restore one), and the machine, which may stop at any moment.            *)
(***************************************************************************)
EXTENDS Integers, FiniteSets

CONSTANTS
    Frames,         \* the frames ever sent, over all runs of the process
    AttemptsOf,     \* how often _send_spinel_frame hands each to the radio
    Margin,         \* what load_network_info adds to the saved number: 1000
    Backups,        \* the numbers in backups of this network: another has a key of its own
    MaxBoots,       \* bound: runs of the process
    MaxNumber       \* bound: the highest number a counter is loaded with

ASSUME AttemptsAssumption == AttemptsOf \in [Frames -> Nat \ {0}]
ASSUME MarginAssumption == Margin \in Nat
ASSUME BackupsAssumption == Backups \subseteq Nat

Unreadable == -1    \* no frame_counter.json, or one cut short

VARIABLES
    running,    \* the process runs
    boots,      \* how often it was started
    file,       \* the number in frame_counter.json, or Unreadable
    counter,    \* self.state.network_info.network_key.tx_counter
    loaded,     \* load_network_info or write_network_info has succeeded in this run
    link,       \* self._spinel: "none", "open" or "closed"
    sending,    \* each frame's _send_spinel_frame coroutine
    air,        \* the frames handed to the radio with their numbers
    dirty,      \* numbers went on the air since the counter was saved or loaded
    lost        \* what made the counter fall, if anything did

vars == <<running, boots, file, counter, loaded, link, sending, air, dirty, lost>>

Unsent == [pc |-> "unsent", number |-> 0, attempt |-> 0]

Init == /\ running = FALSE
        /\ boots = 0
        /\ file \in {Unreadable, 0}
        /\ counter = 0
        /\ loaded = FALSE
        /\ link = "none"
        /\ sending = [f \in Frames |-> Unsent]
        /\ air = {}
        /\ dirty = FALSE
        /\ lost = {}
-------------------------------------------------------------------------------
(* The life of the process *)

\* A new ControllerApplication: zigpy's default state has tx_counter 0.
Boot == /\ ~running
        /\ boots < MaxBoots
        /\ running' = TRUE
        /\ boots' = boots + 1
        /\ counter' = 0
        /\ loaded' = FALSE
        /\ link' = "none"
        /\ dirty' = FALSE
        /\ UNCHANGED <<file, sending, air, lost>>

\* A connect that fails in probe or reset raises and changes nothing here.
Connect == /\ running
           /\ link # "open"
           /\ link' = "open"
           /\ UNCHANGED <<running, boots, file, counter, loaded, sending, air, dirty, lost>>

\* A file that is missing or no number raises.
LoadNetworkInfo ==
    /\ running
    /\ file # Unreadable
    /\ file + Margin <= MaxNumber
    /\ counter' = file + Margin
    /\ loaded' = TRUE
    /\ dirty' = FALSE
    /\ lost' = IF dirty THEN lost \cup {"reload"} ELSE lost
    /\ UNCHANGED <<running, boots, file, link, sending, air>>

\* A backup is restored as it is: neither its number is compared with the counter or
\* the file, nor the margin added.
WriteNetworkInfo(n) ==
    /\ running
    /\ counter' = n
    /\ loaded' = TRUE
    /\ lost' = IF n < file \/ (dirty /\ n < counter) THEN lost \cup {"restored"} ELSE lost
    /\ UNCHANGED <<running, boots, file, link, sending, air, dirty>>

\* Forgets to write the file.
DisconnectUnsaved ==
    /\ running
    /\ link' = IF link = "none" THEN "none" ELSE "closed"
    /\ dirty' = FALSE
    /\ lost' = IF ~loaded /\ file > counter THEN lost \cup {"saved unloaded"} ELSE lost
    /\ UNCHANGED <<running, boots, file, counter, loaded, sending, air>>

\* The counter is saved whether or not it was ever loaded.  The coroutines that
\* are sending are not cancelled.
Disconnect ==
    /\ running
    /\ file' = counter
    /\ link' = IF link = "none" THEN "none" ELSE "closed"
    /\ dirty' = FALSE
    /\ lost' = IF ~loaded /\ file > counter THEN lost \cup {"saved unloaded"} ELSE lost
    /\ UNCHANGED <<running, boots, counter, loaded, sending, air>>

\* Coroutines go with the process.
Killed == [f \in Frames |-> IF sending[f].pc \in {"waiting", "backoff"}
                            THEN [sending[f] EXCEPT !.pc = "killed"]
                            ELSE sending[f]]

\* The process ends after disconnect, or before connect.
Exit == /\ running
        /\ link # "open"
        /\ running' = FALSE
        /\ sending' = Killed
        /\ UNCHANGED <<boots, file, counter, loaded, link, air, dirty, lost>>

\* It ends anywhere else; in the middle of write_text it leaves no number.
Crash == /\ running
         /\ running' = FALSE
         /\ sending' = Killed
         /\ \/ /\ UNCHANGED file
               /\ lost' = IF dirty THEN lost \cup {"crash"} ELSE lost
            \/ /\ file' = Unreadable
               /\ lost' = lost \cup {"crash"}
         /\ UNCHANGED <<boots, counter, loaded, link, air, dirty>>
-------------------------------------------------------------------------------
(* Sending a frame *)

\* The frame gets its number and is encrypted and handed over in one step of
\* the event loop; without a link set_property raises.
Send(f) ==
    /\ running
    /\ loaded
    /\ sending[f].pc = "unsent"
    /\ counter' = counter + 1
    /\ IF link = "open"
       THEN /\ sending' = [sending EXCEPT ![f] =
                             [pc |-> "waiting", number |-> counter + 1, attempt |-> 1]]
            /\ air' = air \cup {<<f, counter + 1>>}
            /\ dirty' = TRUE
       ELSE /\ sending' = [sending EXCEPT ![f] =
                             [pc |-> "raised", number |-> counter + 1, attempt |-> 1]]
            /\ UNCHANGED <<air, dirty>>
    /\ UNCHANGED <<running, boots, file, loaded, link, lost>>

\* LAST_STATUS came back and is not NO_ACK: it is returned, and send_packet
\* returns normally whatever it says.
Answered(f) ==
    /\ sending[f].pc = "waiting"
    /\ sending' = [sending EXCEPT ![f].pc = "answered"]
    /\ UNCHANGED <<running, boots, file, counter, loaded, link, air, dirty, lost>>

\* Every NO_ACK sleeps and tries again.
NotAcknowledgedForever(f) ==
    /\ sending[f].pc = "waiting"
    /\ sending' = [sending EXCEPT ![f].pc = "backoff", ![f].attempt = 0]
    /\ UNCHANGED <<running, boots, file, counter, loaded, link, air, dirty, lost>>

\* NO_ACK: the coroutine sleeps after the last attempt too, then falls off the
\* end of the loop and returns None.
NotAcknowledged(f) ==
    /\ sending[f].pc = "waiting"
    /\ sending' = [sending EXCEPT ![f].pc = "backoff"]
    /\ UNCHANGED <<running, boots, file, counter, loaded, link, air, dirty, lost>>

\* The Spinel request was answered by nothing, four times over, or by another
\* property than LAST_STATUS.
Raises(f) ==
    /\ sending[f].pc = "waiting"
    /\ sending' = [sending EXCEPT ![f].pc = "raised"]
    /\ UNCHANGED <<running, boots, file, counter, loaded, link, air, dirty, lost>>

\* The next attempt, with the frame serialised anew from the same fields.
Retry(f) ==
    /\ sending[f].pc = "backoff"
    /\ sending[f].attempt < AttemptsOf[f]
    /\ IF link = "open"
       THEN /\ sending' = [sending EXCEPT ![f].pc = "waiting", ![f].attempt = @ + 1]
            /\ air' = air \cup {<<f, sending[f].number>>}
       ELSE /\ sending' = [sending EXCEPT ![f].pc = "raised", ![f].attempt = @ + 1]
            /\ UNCHANGED air
    /\ UNCHANGED <<running, boots, file, counter, loaded, link, dirty, lost>>

GiveUp(f) ==
    /\ sending[f].pc = "backoff"
    /\ sending[f].attempt = AttemptsOf[f]
    /\ sending' = [sending EXCEPT ![f].pc = "gave up"]
    /\ UNCHANGED <<running, boots, file, counter, loaded, link, air, dirty, lost>>
-------------------------------------------------------------------------------
Progress(f) == Answered(f) \/ NotAcknowledged(f) \/ Raises(f) \/ Retry(f) \/ GiveUp(f)

Next == \/ Boot \/ Connect \/ LoadNetworkInfo \/ Disconnect \/ Exit \/ Crash
        \/ \E n \in Backups : WriteNetworkInfo(n)
        \/ \E f \in Frames : Send(f) \/ Progress(f)

Spec == Init /\ [][Next]_vars

\* set_property answers or times out, and a sleep ends: the event loop runs.
FairSpec == Spec /\ \A f \in Frames : WF_vars(Progress(f))
-------------------------------------------------------------------------------
(* Properties *)

Coroutine == [pc : {"unsent", "waiting", "backoff", "answered", "gave up",
                    "raised", "killed"},
              number : Nat, attempt : Nat]

TypeOK ==
    /\ running \in BOOLEAN
    /\ boots \in Nat
    /\ file \in Nat \cup {Unreadable}
    /\ counter \in Nat
    /\ loaded \in BOOLEAN
    /\ link \in {"none", "open", "closed"}
    /\ sending \in [Frames -> Coroutine]
    /\ \A f \in Frames : sending[f].attempt <= AttemptsOf[f]
    /\ air \subseteq (Frames \X Nat)
    /\ dirty \in BOOLEAN
    /\ lost \subseteq {"crash", "reload", "saved unloaded", "restored"}

\* Two different frames are never encrypted under the same number, over all
\* runs of the process, unless the counter was lost in one of four ways: the
\* process stopped with numbers it had not saved (or in the middle of saving),
\* load_network_info ran again over such numbers, disconnect saved the default
\* counter of a run that had loaded none, or a backup was restored that is older
\* than the file or than such numbers.  The frames are numbered at
\* application.py:130, 328 and 420, the counter is saved at 50 and set at 562 and 566.
NumbersAreUsedOnce ==
    lost = {} => \A a, b \in air : a[2] = b[2] => a[1] = b[1]

\* A frame that is being sent, whatever the radio answers and even if the link
\* is closed under it, comes to an end of _send_spinel_frame.
SendsEnd ==
    \A f \in Frames : (sending[f].pc \in {"waiting", "backoff"}) ~>
                      (sending[f].pc \in {"answered", "gave up", "raised", "killed"})
-------------------------------------------------------------------------------
(* The invariant behind NumbersAreUsedOnce *)

\* No number on the air exceeds n.
Covered(n) == \A a \in air : a[2] <= n

Saved == IF file = Unreadable THEN 0 ELSE file

\* A frame keeps the number it went on the air with.  As long as nothing was
\* lost, the memory of a run that has loaded the counter covers the air, and so
\* does the file unless this run has sent frames since it was written.
IInv ==
    /\ TypeOK
    /\ \A f \in Frames : sending[f].pc = "unsent" => \A a \in air : a[1] # f
    /\ \A f \in Frames : sending[f].pc \in {"waiting", "backoff"} =>
                            <<f, sending[f].number>> \in air
    /\ dirty /\ lost = {} => running /\ loaded /\ link = "open"
    /\ lost = {} => /\ running /\ loaded => Covered(counter)
                    /\ ~dirty => Covered(Saved)
                    /\ \A a, b \in air : a[2] = b[2] => a[1] = b[1]
===============================================================================
