-------------------------- MODULE Application_proofs --------------------------
(***************************************************************************)
(* Two parts of the controller application of zigpy that share no state:   *)
(* the joining window and the packets that come in.                        *)
(*                                                                         *)
(* Joining window, for any durations and any number of calls: the window   *)
(* that is open has a timer of its own, and one that is cut short has seen *)
(* permit_ncp(0) on an open window before.  The argument is that, until    *)
(* then, the handle names the only timer there is.                         *)
(*                                                                         *)
(* Packets, for any calls of start_network, any frames and any schedule of *)
(* the tasks: a packet reaches zigpy twice only behind two registrations,  *)
(* only acknowledgements reorder packets, and the radio was set up for     *)
(* each.  The argument follows a packet back to the task that handed it up *)
(* (HandedInv), and the task to the registrations at its arrival.          *)
(***************************************************************************)
EXTENDS PermitJoin, PacketReceiver, FiniteSetTheorems, SequenceTheorems, TLAPS

-------------------------------------------------------------------------------
(* The joining window. *)

\* Numbers of calls are never the number that stands for no timer.
LEMMA CallsFacts == /\ NoTimer \notin Calls
                    /\ \A c \in Calls : c \in Nat /\ c <= MaxCalls
                    /\ MaxCalls \in Nat
                    /\ \A t \in Durations : t \in Nat /\ t > 0
  BY DurationsAssumption, MaxCallsAssumption DEF Calls, NoTimer

LEMMA PermitInitInv == PermitInit => PermitIInv
  <1> SUFFICES ASSUME PermitInit PROVE PermitIInv
    OBVIOUS
  <1>1. /\ permitting = FALSE /\ handle = NoTimer /\ timers = {} /\ calls = 0
        /\ window = 0 /\ closedOpen = FALSE /\ left = [c \in Calls |-> 0]
    BY DEF PermitInit
  <1>2. calls \in 0 .. MaxCalls /\ left \in [Calls -> Nat]
    BY <1>1, CallsFacts
  <1>3. PermitTypeOK
    BY <1>1, <1>2 DEF PermitTypeOK
  <1>4. OpenHasItsTimer
    BY <1>1 DEF OpenHasItsTimer
  <1>5. ~(window > 0)
    BY <1>1
  <1> QED BY <1>1, <1>3, <1>4, <1>5 DEF PermitIInv

\* The new timer replaces the one behind the handle.
LEMMA PermitInv == ASSUME PermitIInv, NEW time \in Durations, Permit(time) PROVE PermitIInv'
  <1> DEFINE c == calls + 1
  <1>1. /\ c \in Calls /\ calls' = c /\ permitting' = TRUE /\ handle' = c
        /\ timers' = Cancelled \cup {c} /\ window' = time /\ closedOpen' = closedOpen
        /\ left' = [left EXCEPT ![c] = time]
    BY DEF Permit
  <1>2. PermitTypeOK /\ calls \in Nat /\ calls <= MaxCalls
    BY CallsFacts DEF PermitIInv, PermitTypeOK
  <1>3. time \in Nat /\ time > 0
    BY CallsFacts
  <1>4. calls' \in 0 .. MaxCalls
    BY <1>1, <1>2, CallsFacts
  <1>5. PermitTypeOK'
    BY <1>1, <1>2, <1>3, <1>4 DEF PermitTypeOK, Cancelled
  <1>6. OpenHasItsTimer'
    BY <1>1, <1>2 DEF OpenHasItsTimer, PermitTypeOK
  <1>7. \A d \in timers' : d <= calls'
    <2>1. \A d \in timers : d \in Nat /\ d <= calls
      BY CallsFacts DEF PermitIInv, PermitTypeOK
    <2> QED BY <1>1, <1>2, <2>1 DEF Cancelled
  <1>8. ~closedOpen' => timers' \subseteq {handle'}
    BY <1>1 DEF PermitIInv, Cancelled
  <1> QED BY <1>1, <1>5, <1>6, <1>7, <1>8 DEF PermitIInv

\* Only here does a timer lose its handle, if the window was open.
LEMMA ForbidInv == ASSUME PermitIInv, Forbid PROVE PermitIInv'
  <1>1. PermitTypeOK'
    BY CallsFacts DEF PermitIInv, Forbid, Reset, PermitTypeOK
  <1>2. OpenHasItsTimer' /\ (handle' # NoTimer => permitting')
    BY DEF Forbid, Reset, OpenHasItsTimer
  <1>3. ASSUME ~closedOpen' PROVE timers' \subseteq {handle'}
    <2>1. ~closedOpen /\ ~permitting /\ timers' = timers /\ handle' = NoTimer
      BY <1>3 DEF Forbid, Reset
    <2> QED BY <2>1, CallsFacts DEF PermitIInv, PermitTypeOK
  <1>4. ~(window' > 0)
    BY DEF Forbid
  <1> QED BY <1>1, <1>2, <1>3, <1>4 DEF PermitIInv, Forbid

\* A timer that is due closes the window, its own unless it is a leftover.
LEMMA FireInv == ASSUME PermitIInv, NEW c \in Calls, Fire(c) PROVE PermitIInv'
  <1>1. PermitTypeOK'
    BY CallsFacts DEF PermitIInv, Fire, Reset, PermitTypeOK
  <1>2. OpenHasItsTimer' /\ (handle' # NoTimer => permitting')
    BY DEF Fire, Reset, OpenHasItsTimer
  <1>3. ASSUME ~closedOpen' PROVE timers' = {} /\ window' = 0
    <2>1. /\ ~closedOpen /\ c \in timers /\ timers' = timers \ {c}
          /\ left[c] = 0 /\ window' = window
      BY <1>3 DEF Fire
    <2>2. timers = {c} /\ handle = c
      BY <2>1 DEF PermitIInv
    <2>3. permitting
      BY <2>2, CallsFacts DEF PermitIInv
    <2>4. left[c] = window
      BY <2>2, <2>3 DEF PermitIInv, OpenHasItsTimer
    <2> QED BY <2>1, <2>2, <2>4
  <1>4. ~closedOpen' => ~(window' > 0)
    BY <1>3
  <1> QED BY <1>1, <1>2, <1>3, <1>4 DEF PermitIInv, Fire

\* A second is taken off the window and off its timer alike.
LEMMA TickInv == ASSUME PermitIInv, Tick PROVE PermitIInv'
  <1>1. PermitTypeOK /\ UNCHANGED <<permitting, handle, timers, calls, closedOpen>>
    BY DEF PermitIInv, Tick
  <1>2. /\ left' = [c \in Calls |-> IF c \in timers THEN left[c] - 1 ELSE left[c]]
        /\ window' = IF window > 0 THEN window - 1 ELSE 0
        /\ \A c \in timers : left[c] > 0
    BY DEF Tick
  <1>3. window \in Nat /\ \A c \in Calls : left[c] \in Nat
    BY <1>1 DEF PermitTypeOK
  <1>4. window' \in Nat
    BY <1>2, <1>3
  <1>5. left' \in [Calls -> Nat]
    <2>1. ASSUME NEW c \in Calls
          PROVE  (IF c \in timers THEN left[c] - 1 ELSE left[c]) \in Nat
      BY <1>2, <1>3
    <2> QED BY <1>2, <2>1
  <1>6. PermitTypeOK'
    BY <1>1, <1>4, <1>5 DEF PermitTypeOK
  <1>7. OpenHasItsTimer'
    <2> SUFFICES ASSUME permitting' PROVE handle' \in timers' /\ left'[handle'] = window'
      BY DEF OpenHasItsTimer
    <2>1. handle \in timers /\ handle \in Calls /\ left[handle] = window
      BY <1>1 DEF PermitIInv, OpenHasItsTimer, PermitTypeOK
    <2>2. left[handle] > 0
      BY <1>2, <2>1
    <2> QED BY <1>1, <1>2, <2>1, <2>2
  <1>8. window' > 0 => window > 0
    BY <1>2
  <1> QED BY <1>1, <1>6, <1>7, <1>8 DEF PermitIInv

\* The invariant of the window.
THEOREM PermitBookkeeping == PermitSpec => []PermitIInv
  <1>1. PermitInit => PermitIInv
    BY PermitInitInv
  <1>2. PermitIInv /\ [PermitNext]_permitVars => PermitIInv'
    <2> SUFFICES ASSUME PermitIInv, [PermitNext]_permitVars PROVE PermitIInv'
      OBVIOUS
    <2>1. ASSUME NEW time \in Durations, Permit(time) PROVE PermitIInv'
      BY <2>1, PermitInv
    <2>2. CASE Forbid
      BY <2>2, ForbidInv
    <2>3. ASSUME NEW c \in Calls, Fire(c) PROVE PermitIInv'
      BY <2>3, FireInv
    <2>4. CASE Tick
      BY <2>4, TickInv
    <2>5. CASE UNCHANGED permitVars
      BY <2>5 DEF permitVars, PermitIInv, PermitTypeOK, OpenHasItsTimer
    <2> QED BY <2>1, <2>2, <2>3, <2>4, <2>5 DEF PermitNext
  <1> QED BY <1>1, <1>2, PTL DEF PermitSpec

\* An open window is closed on time by a timer of its own.
THEOREM OnTime == PermitSpec => []OpenHasItsTimer
  <1>1. PermitIInv => OpenHasItsTimer
    BY DEF PermitIInv
  <1> QED BY <1>1, PermitBookkeeping, PTL

\* Only a timer that permit_ncp(0) left behind closes a window too early.
THEOREM NotTooEarly == PermitSpec => []CutShortOnlyByLeftover
  <1>1. PermitIInv => CutShortOnlyByLeftover
    BY DEF PermitIInv, CutShortOnlyByLeftover
  <1> QED BY <1>1, PermitBookkeeping, PTL

-------------------------------------------------------------------------------
(* Incoming packets. *)

LEMMA ConfigFacts == /\ Len(Config) = 6 /\ DOMAIN Config = 1 .. 6
                     /\ Settings = {Config[i] : i \in 1 .. 6}
  BY DEF Config, Settings

LEMMA InitInv == Init => IInv
<1> SUFFICES ASSUME Init PROVE IInv
  OBVIOUS
<1>1. TypeOK
  <2>1. set \in [Starts -> 0 .. Len(Config)] /\ start \in [Starts -> {"idle", "setting", "raised", "done"}]
    BY ConfigFacts DEF Init
  <2>2. /\ arrived = <<>> /\ tuned = <<>> /\ tasks = <<>> /\ handed = <<>> /\ radio = {}
        /\ listeners = 0 /\ refused = FALSE /\ connected = TRUE
    BY DEF Init
  <2>3. refused \in BOOLEAN /\ connected \in BOOLEAN
    BY <2>2
  <2>4. /\ arrived \in Seq(Frames) /\ tuned \in Seq(BOOLEAN)
        /\ tasks \in Seq(Tasks) /\ handed \in Seq(Nat)
    BY <2>2
  <2> QED BY <2>1, <2>2, <2>3, <2>4 DEF TypeOK
<1>2. Completed = {}
  BY DEF Init, Completed
<1>3. StartInv
  BY <1>2, FS_EmptySet DEF Init, StartInv
<1>4. TaskInv /\ QueueInv /\ UnacknowledgedKeepOrder
  BY DEF Init, TaskInv, QueueInv, UnacknowledgedKeepOrder
<1>5. HandedInv
  <2>1. DOMAIN handed = {} /\ DOMAIN tasks = {}
    BY DEF Init
  <2> DEFINE by == [i \in {} |-> 0]
  <2>2. by \in [DOMAIN handed -> DOMAIN tasks]
    BY <2>1
  <2> QED BY <2>1, <2>2 DEF HandedInv
<1> QED BY <1>1, <1>3, <1>4, <1>5 DEF IInv
-------------------------------------------------------------------------------
(* start_network: what it changes, and that it leaves the callback alone.  *)

LEMMA CallbackKept ==
  ASSUME IInv, UNCHANGED rest, refused => refused',
         listeners \in Nat, listeners' \in Nat, listeners' >= listeners
  PROVE  TaskInv' /\ QueueInv' /\ HandedInv' /\ UnacknowledgedKeepOrder'
<1>1. UNCHANGED <<arrived, tuned, tasks, handed>>
  BY DEF rest
<1>2. TaskInv'
  BY <1>1 DEF IInv, TaskInv, FrameOf
<1>3. QueueInv'
  BY <1>1 DEF IInv, QueueInv
<1>4. HandedInv'
  BY <1>1 DEF IInv, HandedInv
<1>5. UnacknowledgedKeepOrder'
  BY <1>1 DEF IInv, UnacknowledgedKeepOrder
<1> QED BY <1>2, <1>3, <1>4, <1>5

LEMMA StartStep ==
  ASSUME IInv, NEW s \in Starts,
         Begin(s) \/ SetProperty(s) \/ SetPropertyRaises(s) \/ Listen(s)
  PROVE  IInv'
<1> USE DEF IInv
<1>1. /\ start \in [Starts -> {"idle", "setting", "raised", "done"}] /\ set \in [Starts -> 0 .. 6]
      /\ radio \subseteq Settings /\ refused \in BOOLEAN /\ listeners \in Nat
  BY ConfigFacts DEF TypeOK
<1>2. /\ UNCHANGED rest
      /\ start[s] # "done"
      /\ radio \subseteq radio'
      /\ refused => refused'
  BY DEF Begin, SetProperty, SetPropertyRaises, Listen, Awaiting
<1>3. CASE Begin(s) \/ SetPropertyRaises(s)
  <2>1. /\ UNCHANGED <<set, refused, listeners>>
        /\ \E x \in {"setting", "raised"} : start' = [start EXCEPT ![s] = x]
        /\ radio' \subseteq Settings
    BY <1>1, <1>3, ConfigFacts DEF Begin, SetPropertyRaises, Awaiting, NextOf
  <2>2. TypeOK'
    BY <1>1, <1>2, <2>1, ConfigFacts DEF TypeOK, rest
  <2>3. Completed' = Completed
    BY <1>1, <1>2, <2>1 DEF Completed
  <2>4. StartInv'
    BY <1>1, <1>2, <2>1, <2>3 DEF StartInv
  <2> QED BY <1>1, <1>2, <2>1, <2>2, <2>4, CallbackKept
<1>4. CASE SetProperty(s)
  <2>1. /\ UNCHANGED <<start, listeners>>
        /\ set[s] < 6 /\ set' = [set EXCEPT ![s] = @ + 1]
        /\ refused' \in BOOLEAN
        /\ refused' \/ (NextOf(s) \in radio' /\ refused' = refused)
        /\ radio' \subseteq Settings
    <3>1. /\ UNCHANGED <<start, listeners>>
          /\ set[s] < 6 /\ set' = [set EXCEPT ![s] = @ + 1]
          /\ \/ radio' = radio \cup {NextOf(s)} /\ refused' = refused
             \/ refused' = TRUE /\ radio' = radio
      BY <1>4, ConfigFacts DEF SetProperty, Awaiting
    <3>2. NextOf(s) \in Settings
      BY <1>1, <3>1, ConfigFacts DEF NextOf
    <3> QED BY <1>1, <3>1, <3>2
  <2>2. set' \in [Starts -> 0 .. 6]
    BY <1>1, <2>1
  <2>3. TypeOK'
    BY <1>1, <1>2, <2>1, <2>2, ConfigFacts DEF TypeOK, rest
  <2>4. Completed' = Completed
    BY <2>1 DEF Completed
  <2>5. refused' \/ \A r \in Starts : \A i \in 1 .. set'[r] : Config[i] \in radio'
    <3> SUFFICES ASSUME ~refused', NEW r \in Starts, NEW i \in 1 .. set'[r]
                 PROVE  Config[i] \in radio'
      OBVIOUS
    <3>1. CASE i \in 1 .. set[r]
      BY <1>2, <2>1, <3>1 DEF StartInv
    <3>2. CASE i \notin 1 .. set[r]
      <4>1. r = s /\ i = set[s] + 1
        BY <1>1, <2>1, <3>2
      <4> QED BY <2>1, <4>1 DEF NextOf
    <3> QED BY <3>1, <3>2
  <2>6. StartInv'
    BY <1>1, <1>2, <2>1, <2>4, <2>5 DEF StartInv
  <2> QED BY <1>1, <1>2, <2>1, <2>3, <2>6, CallbackKept
<1>5. CASE Listen(s)
  <2>1. /\ UNCHANGED <<set, radio, refused>>
        /\ start' = [start EXCEPT ![s] = "done"]
        /\ listeners' = listeners + 1
        /\ set[s] = 6
    BY <1>5, ConfigFacts DEF Listen
  <2>2. TypeOK'
    BY <1>1, <1>2, <2>1, ConfigFacts DEF TypeOK, rest
  <2>3. Completed' = Completed \cup {s} /\ s \notin Completed
    BY <1>1, <1>2, <2>1 DEF Completed
  <2>4. IsFiniteSet(Completed') /\ listeners' = Cardinality(Completed')
    BY <2>1, <2>3, FS_AddElement DEF StartInv
  <2>5. StartInv'
    BY <1>1, <1>2, <2>1, <2>4, ConfigFacts DEF StartInv
  <2> QED BY <1>1, <1>2, <2>1, <2>2, <2>5, CallbackKept
<1> QED BY <1>3, <1>4, <1>5

\* Where the callback is registered, the radio was set up or has refused something.
LEMMA RegisteredIsTuned ==
  ASSUME IInv, listeners > 0
  PROVE  radio = Settings \/ refused
<1>1. Completed # {}
  BY FS_EmptySet DEF IInv, StartInv, TypeOK
<1>2. PICK s \in Starts : start[s] = "done"
  BY <1>1 DEF Completed
<1> QED BY <1>2, ConfigFacts DEF IInv, StartInv, TypeOK
-------------------------------------------------------------------------------
(* A frame comes in *)

LEMMA ArriveStep == ASSUME IInv, NEW f \in Frames, Arrive(f) PROVE IInv'
<1> USE DEF IInv
<1> DEFINE n == Len(arrived) + 1
           new == [i \in 1 .. listeners |-> [arrival |-> n, pc |-> "ready"]]
<1>1. /\ arrived' = Append(arrived, f) /\ tuned' = Append(tuned, radio = Settings)
      /\ tasks' = tasks \o new /\ UNCHANGED <<startVars, connected, handed>>
      /\ arrived \in Seq(Frames) /\ tuned \in Seq(BOOLEAN) /\ Len(tuned) = Len(arrived)
      /\ tasks \in Seq(Tasks) /\ handed \in Seq(Nat)
      /\ listeners \in Nat /\ n \in Nat
  BY DEF Arrive, TypeOK, TaskInv
<1>2. new \in Seq(Tasks) /\ Len(new) = listeners
  <2>1. \A i \in 1 .. listeners : new[i] \in Tasks
    BY <1>1 DEF Pcs, Tasks
  <2>2. new \in [1 .. listeners -> Tasks]
    BY <2>1
  <2> HIDE DEF new
  <2> QED BY <1>1, <2>2
<1> HIDE DEF new
<1>3. /\ DOMAIN tasks = 1 .. Len(tasks) /\ DOMAIN tasks' = 1 .. Len(tasks) + listeners
      /\ Len(tasks) \in Nat
      /\ \A t \in DOMAIN tasks : tasks'[t] = tasks[t]
      /\ \A t \in DOMAIN tasks' \ DOMAIN tasks :
           /\ t > Len(tasks) /\ t - Len(tasks) \in 1 .. listeners
           /\ tasks'[t] = new[t - Len(tasks)]
  <2>1. /\ Len(tasks) \in Nat /\ DOMAIN tasks = 1 .. Len(tasks)
        /\ Len(tasks') = Len(tasks) + listeners /\ DOMAIN tasks' = 1 .. Len(tasks')
    <3>1. tasks \o new \in Seq(Tasks) /\ Len(tasks \o new) = Len(tasks) + Len(new)
      BY <1>1, <1>2, ConcatProperties
    <3>2. tasks' \in Seq(Tasks) /\ Len(tasks') = Len(tasks) + listeners
      BY <1>1, <1>2, <3>1
    <3> QED BY <1>1, <3>2
  <2>2. \A t \in 1 .. Len(tasks) : (tasks \o new)[t] = tasks[t]
    BY <1>1, <1>2
  <2>3. \A t \in 1 .. Len(tasks) + listeners : t > Len(tasks) => (tasks \o new)[t] = new[t - Len(tasks)]
    BY <1>1, <1>2
  <2> QED BY <1>1, <2>1, <2>2, <2>3
<1>4. \A t \in DOMAIN tasks' \ DOMAIN tasks :
        t > Len(tasks) /\ tasks'[t].arrival = n /\ tasks'[t].pc = "ready" /\ listeners > 0
  BY <1>1, <1>3 DEF new
<1>5. /\ DOMAIN arrived = 1 .. Len(arrived) /\ DOMAIN arrived' = 1 .. n
      /\ \A a \in DOMAIN arrived : arrived'[a] = arrived[a] /\ tuned'[a] = tuned[a]
      /\ tuned'[n] = (radio = Settings)
      /\ Len(tuned') = Len(arrived')
  BY <1>1
<1>6. TypeOK'
  <2>1. /\ arrived' \in Seq(Frames) /\ tuned' \in Seq(BOOLEAN)
        /\ tasks' \in Seq(Tasks)
    BY <1>1, <1>2
  <2> QED BY <1>1, <2>1 DEF TypeOK, startVars
<1>7. StartInv'
  BY <1>1 DEF StartInv, startVars, Completed
<1>8. TaskInv'
  <2> SUFFICES ASSUME NEW t \in DOMAIN tasks'
               PROVE  /\ tasks'[t].arrival \in DOMAIN arrived'
                      /\ tuned'[tasks'[t].arrival] \/ refused
                      /\ tasks'[t].pc \in {"acking", "sleeping"} => Header[FrameOf(t)'].ack
    BY <1>1, <1>5 DEF TaskInv, startVars
  <2>1. CASE t \in DOMAIN tasks
    <3>1. tasks'[t] = tasks[t] /\ tasks[t].arrival \in DOMAIN arrived
      BY <1>3, <2>1 DEF TaskInv
    <3>2. /\ tuned'[tasks'[t].arrival] = tuned[tasks[t].arrival]
          /\ FrameOf(t)' = FrameOf(t)
          /\ tasks'[t].arrival \in DOMAIN arrived'
      BY <1>5, <3>1 DEF FrameOf
    <3> QED BY <2>1, <3>1, <3>2 DEF TaskInv
  <2>2. CASE t \notin DOMAIN tasks
    <3>1. tasks'[t].arrival = n /\ tasks'[t].pc = "ready" /\ listeners > 0
      BY <1>4, <2>2
    <3>2. radio = Settings \/ refused
      BY <3>1, RegisteredIsTuned
    <3>3. n \in DOMAIN arrived'
      BY <1>1, <1>5
    <3> QED BY <1>5, <3>1, <3>2, <3>3
  <2> QED BY <2>1, <2>2
<1>9. QueueInv'
  <2> SUFFICES ASSUME NEW t \in DOMAIN tasks', NEW u \in DOMAIN tasks', t < u
               PROVE  /\ tasks'[t].arrival <= tasks'[u].arrival
                      /\ tasks'[t].arrival = tasks'[u].arrival => listeners > 1
                      /\ tasks'[t].pc = "ready" => tasks'[u].pc = "ready"
    BY <1>1 DEF QueueInv, startVars
  <2>1. CASE u \in DOMAIN tasks
    <3>1. t \in DOMAIN tasks
      BY <1>3, <2>1
    <3> QED BY <1>3, <2>1, <3>1 DEF QueueInv
  <2>2. CASE u \notin DOMAIN tasks /\ t \in DOMAIN tasks
    <3>1. tasks[t].arrival \in 1 .. Len(arrived)
      BY <1>5, <2>2 DEF TaskInv
    <3>2. tasks'[u].arrival = n /\ tasks'[u].pc = "ready" /\ tasks'[t] = tasks[t]
      BY <1>3, <1>4, <2>2
    <3> QED BY <1>1, <3>1, <3>2
  <2>3. CASE u \notin DOMAIN tasks /\ t \notin DOMAIN tasks
    <3>1. listeners > 1
      BY <1>1, <1>3, <2>3
    <3>2. /\ tasks'[t].arrival = n /\ tasks'[u].arrival = n
          /\ tasks'[u].pc = "ready"
      BY <1>4, <2>3
    <3> QED BY <1>1, <3>1, <3>2
  <2> QED BY <2>1, <2>2, <2>3
<1>10. HandedInv'
  <2>1. PICK by \in [DOMAIN handed -> DOMAIN tasks] :
          /\ \A i, j \in DOMAIN handed : by[i] = by[j] => i = j
          /\ \A i \in DOMAIN handed :
               tasks[by[i]].arrival = handed[i] /\ tasks[by[i]].pc = "handedUp"
    BY DEF HandedInv
  <2>2. by \in [DOMAIN handed' -> DOMAIN tasks'] /\ handed' = handed
    BY <1>1, <1>3
  <2>3. \A i \in DOMAIN handed : tasks'[by[i]] = tasks[by[i]]
    BY <1>3
  <2> QED BY <2>1, <2>2, <2>3 DEF HandedInv
<1>11. UnacknowledgedKeepOrder'
  <2>1. \A i \in DOMAIN handed : handed[i] \in DOMAIN arrived
    BY DEF HandedInv, TaskInv
  <2>2. \A i \in DOMAIN handed : arrived'[handed[i]] = arrived[handed[i]]
    BY <1>5, <2>1
  <2>3. handed' = handed
    BY <1>1
  <2> QED BY <2>2, <2>3 DEF UnacknowledgedKeepOrder
<1> QED BY <1>6, <1>7, <1>8, <1>9, <1>10, <1>11
-------------------------------------------------------------------------------
(* A task goes on: it is one that runs first, or has run already.          *)

MayRun(t) == tasks[t].pc # "handedUp" /\ \A u \in 1 .. t - 1 : tasks[u].pc # "ready"

LEMMA GotoStep ==
  ASSUME IInv, NEW t \in DOMAIN tasks, NEW pc \in Pcs \ {"ready"}, MayRun(t), Goto(t, pc),
         pc \in {"acking", "sleeping"} => Header[FrameOf(t)].ack,
         UNCHANGED <<startVars, connected, arrived, tuned>>
  PROVE  /\ TaskInv' /\ QueueInv' /\ StartInv'
         /\ tasks' \in Seq(Tasks)
         /\ DOMAIN tasks' = DOMAIN tasks
         /\ tasks'[t].pc = pc
         /\ \A u \in DOMAIN tasks : tasks'[u].arrival = tasks[u].arrival
         /\ \A u \in DOMAIN tasks \ {t} : tasks'[u] = tasks[u]
<1> USE DEF IInv
<1>1. /\ tasks \in Seq(Tasks) /\ tasks' = [tasks EXCEPT ![t].pc = pc]
      /\ DOMAIN tasks = 1 .. Len(tasks) /\ Len(tasks) \in Nat
  BY DEF TypeOK, Goto
<1>2. /\ tasks' \in Seq(Tasks) /\ DOMAIN tasks' = DOMAIN tasks
      /\ \A u \in DOMAIN tasks \ {t} : tasks'[u] = tasks[u]
      /\ tasks'[t].arrival = tasks[t].arrival /\ tasks'[t].pc = pc
  <2> DEFINE r == [tasks[t] EXCEPT !.pc = pc]
  <2>1. tasks[t] \in Tasks
    BY <1>1
  <2>2. r \in Tasks /\ r.arrival = tasks[t].arrival /\ r.pc = pc
    BY <2>1 DEF Tasks
  <2>3. tasks' = [tasks EXCEPT ![t] = r]
    BY <1>1
  <2> HIDE DEF r
  <2> QED BY <1>1, <2>2, <2>3
<1>3. \A u \in DOMAIN tasks : tasks'[u].arrival = tasks[u].arrival
  BY <1>2
<1>4. UNCHANGED <<start, set, radio, refused, listeners, arrived, tuned>>
  BY DEF startVars
<1>5. StartInv'
  BY <1>4 DEF StartInv, Completed
<1>6. TaskInv'
  <2>1. \A u \in DOMAIN tasks : FrameOf(u)' = FrameOf(u)
    BY <1>3, <1>4 DEF FrameOf
  <2> QED BY <1>2, <1>3, <1>4, <2>1 DEF TaskInv
<1>7. QueueInv'
  <2> SUFFICES ASSUME NEW u \in DOMAIN tasks, NEW v \in DOMAIN tasks, u < v,
                      tasks'[u].pc = "ready"
               PROVE  tasks'[v].pc = "ready"
    BY <1>2, <1>3, <1>4 DEF QueueInv
  <2>1. u # t /\ tasks[u].pc = "ready"
    BY <1>2
  <2>2. v # t
    BY <1>1, <2>1 DEF MayRun
  <2> QED BY <1>2, <2>1, <2>2 DEF QueueInv
<1> QED BY <1>2, <1>3, <1>5, <1>6, <1>7

LEMMA GotoInv ==
  ASSUME IInv, NEW t \in DOMAIN tasks, NEW pc \in Pcs \ {"ready"}, MayRun(t), Goto(t, pc),
         pc \in {"acking", "sleeping"} => Header[FrameOf(t)].ack,
         UNCHANGED <<startVars, connected, arrived, tuned, handed>>
  PROVE  IInv'
<1> USE DEF IInv
<1>1. TypeOK'
  BY GotoStep DEF TypeOK, startVars
<1>2. HandedInv'
  <2>1. PICK by \in [DOMAIN handed -> DOMAIN tasks] :
          /\ \A i, j \in DOMAIN handed : by[i] = by[j] => i = j
          /\ \A i \in DOMAIN handed :
               tasks[by[i]].arrival = handed[i] /\ tasks[by[i]].pc = "handedUp"
    BY DEF HandedInv
  <2>2. \A i \in DOMAIN handed : by[i] \in DOMAIN tasks \ {t}
    BY <2>1 DEF MayRun
  <2>3. by \in [DOMAIN handed' -> DOMAIN tasks'] /\ handed' = handed
        /\ \A i \in DOMAIN handed : tasks'[by[i]] = tasks[by[i]]
    BY <2>2, GotoStep
  <2> QED BY <2>1, <2>3 DEF HandedInv
<1>3. UnacknowledgedKeepOrder'
  BY DEF UnacknowledgedKeepOrder
<1> QED BY <1>1, <1>2, <1>3, GotoStep

LEMMA HandUpInv ==
  ASSUME IInv, NEW t \in DOMAIN tasks, MayRun(t), HandUp(t),
         Header[FrameOf(t)].ack \/ tasks[t].pc = "ready",
         UNCHANGED <<startVars, connected, arrived, tuned>>
  PROVE  IInv'
<1> USE DEF IInv
<1> DEFINE a == tasks[t].arrival
           n == Len(handed) + 1
<1>1. /\ Goto(t, "handedUp") /\ handed' = Append(handed, a) /\ handed \in Seq(Nat) /\ a \in Nat
      /\ n \in Nat /\ n \notin DOMAIN handed /\ DOMAIN handed = 1 .. Len(handed)
  <2>1. handed \in Seq(Nat) /\ tasks[t] \in Tasks
    BY DEF TypeOK
  <2>2. a \in Nat
    BY <2>1 DEF Tasks
  <2> QED BY <2>1, <2>2 DEF HandUp
<1>2. /\ TaskInv' /\ QueueInv' /\ StartInv' /\ tasks' \in Seq(Tasks)
      /\ DOMAIN tasks' = DOMAIN tasks /\ tasks'[t].pc = "handedUp" /\ tasks'[t].arrival = a
      /\ \A u \in DOMAIN tasks \ {t} : tasks'[u] = tasks[u]
  <2>1. "handedUp" \in Pcs \ {"ready"} /\ "handedUp" \notin {"acking", "sleeping"}
    BY DEF Pcs
  <2> QED BY <1>1, <2>1, GotoStep
<1>3. /\ handed' \in Seq(Nat) /\ DOMAIN handed' = DOMAIN handed \cup {n} /\ handed'[n] = a
      /\ \A i \in DOMAIN handed : handed'[i] = handed[i] /\ i < n
  BY <1>1
<1>4. TypeOK'
  BY <1>2, <1>3 DEF TypeOK, startVars
<1>5. PICK by \in [DOMAIN handed -> DOMAIN tasks] :
        /\ \A i, j \in DOMAIN handed : by[i] = by[j] => i = j
        /\ \A i \in DOMAIN handed :
             tasks[by[i]].arrival = handed[i] /\ tasks[by[i]].pc = "handedUp"
  BY DEF HandedInv
<1>6. \A i \in DOMAIN handed : by[i] \in DOMAIN tasks \ {t}
  BY <1>5 DEF MayRun
<1>7. HandedInv'
  <2> DEFINE to == [i \in DOMAIN handed' |-> IF i = n THEN t ELSE by[i]]
  <2>1. to \in [DOMAIN handed' -> DOMAIN tasks']
    BY <1>2, <1>3, <1>6
  <2>2. \A i, j \in DOMAIN handed' : to[i] = to[j] => i = j
    BY <1>1, <1>3, <1>5, <1>6
  <2>3. \A i \in DOMAIN handed' : tasks'[to[i]].arrival = handed'[i] /\ tasks'[to[i]].pc = "handedUp"
    BY <1>1, <1>2, <1>3, <1>5, <1>6
  <2> HIDE DEF to
  <2> QED BY <2>1, <2>2, <2>3 DEF HandedInv
<1>8. \A i \in DOMAIN handed : tasks[t].pc = "ready" => handed[i] <= a
  <2> SUFFICES ASSUME NEW i \in DOMAIN handed, tasks[t].pc = "ready" PROVE handed[i] <= a
    OBVIOUS
  <2>1. DOMAIN tasks \subseteq Nat
    BY DEF TypeOK
  <2>2. ~(t < by[i]) /\ by[i] # t
    BY <1>5, <1>6 DEF QueueInv
  <2>3. by[i] < t
    BY <1>5, <2>1, <2>2
  <2> QED BY <1>5, <2>3 DEF QueueInv
<1>9. UnacknowledgedKeepOrder'
  <2> SUFFICES ASSUME NEW i \in DOMAIN handed', NEW j \in DOMAIN handed', i < j,
                      ~Header[arrived[handed'[i]]].ack, ~Header[arrived[handed'[j]]].ack
               PROVE  handed'[i] <= handed'[j]
    BY DEF UnacknowledgedKeepOrder
  <2>1. CASE j \in DOMAIN handed
    <3>1. i \in DOMAIN handed
      BY <1>1, <1>3, <2>1
    <3> QED BY <1>3, <2>1, <3>1 DEF UnacknowledgedKeepOrder
  <2>2. CASE j = n
    <3>1. i \in DOMAIN handed /\ tasks[t].pc = "ready"
      BY <1>1, <1>3, <2>2 DEF FrameOf
    <3> QED BY <1>3, <1>8, <2>2, <3>1
  <2> QED BY <1>3, <2>1, <2>2
<1> QED BY <1>2, <1>4, <1>7, <1>9

LEMMA RunStep == ASSUME IInv, NEW t \in DOMAIN tasks, Run(t) PROVE IInv'
<1>1. /\ tasks[t].pc = "ready" /\ MayRun(t) /\ UNCHANGED <<startVars, connected, arrived, tuned>>
  BY DEF Run, First, MayRun
<1>2. CASE HandUp(t)
  BY <1>1, <1>2, HandUpInv
<1>3. CASE ~HandUp(t)
  <2>1. UNCHANGED handed
    BY <1>3 DEF Run
  <2>2. \/ \E pc \in {"ignored", "raised", "replying"} : Goto(t, pc)
        \/ Goto(t, "acking") /\ Header[FrameOf(t)].ack
    BY <1>3 DEF Run
  <2> QED BY <1>1, <2>1, <2>2, GotoInv DEF Pcs
<1> QED BY <1>2, <1>3

LEMMA ContinueStep == ASSUME IInv, NEW t \in DOMAIN tasks, Continue(t) PROVE IInv'
<1> USE DEF IInv
<1>1. /\ tasks[t].pc \in {"acking", "sleeping", "replying"}
      /\ UNCHANGED <<startVars, connected, arrived, tuned>>
  BY DEF Continue, Acknowledged, NotAcknowledged, Awake, Replied, SendRaises
<1>2. MayRun(t)
  <2>1. DOMAIN tasks = 1 .. Len(tasks) /\ Len(tasks) \in Nat
    BY DEF TypeOK
  <2>2. \A u \in 1 .. t - 1 : u \in DOMAIN tasks /\ u < t
    BY <2>1
  <2> QED BY <1>1, <2>2 DEF MayRun, QueueInv
<1>3. CASE Acknowledged(t) \/ Awake(t)
  <2>1. HandUp(t) /\ Header[FrameOf(t)].ack
    BY <1>3 DEF Acknowledged, Awake, TaskInv
  <2> QED BY <1>1, <1>2, <2>1, HandUpInv
<1>4. CASE NotAcknowledged(t)
  <2>1. Goto(t, "sleeping") /\ Header[FrameOf(t)].ack /\ UNCHANGED handed
    BY <1>4 DEF NotAcknowledged, TaskInv
  <2> QED BY <1>1, <1>2, <2>1, GotoInv DEF Pcs
<1>5. CASE Replied(t) \/ SendRaises(t)
  <2>1. UNCHANGED handed /\ \E pc \in {"replied", "raised"} : Goto(t, pc)
    BY <1>5 DEF Replied, SendRaises
  <2> QED BY <1>1, <1>2, <2>1, GotoInv DEF Pcs
<1> QED BY <1>3, <1>4, <1>5 DEF Continue
-------------------------------------------------------------------------------
(* The theorems *)

LEMMA StepInv == IInv /\ [Next]_vars => IInv'
<1> SUFFICES ASSUME IInv, [Next]_vars PROVE IInv'
  OBVIOUS
<1>1. ASSUME NEW s \in Starts, Begin(s) \/ SetProperty(s) \/ SetPropertyRaises(s) \/ Listen(s)
      PROVE  IInv'
  BY <1>1, StartStep
<1>2. ASSUME NEW f \in Frames, Arrive(f) PROVE IInv'
  BY <1>2, ArriveStep
<1>3. ASSUME NEW t \in DOMAIN tasks, Run(t) \/ Continue(t) PROVE IInv'
  BY <1>3, RunStep, ContinueStep
<1>4. CASE Disconnect \/ UNCHANGED vars
  <2>1. UNCHANGED <<start, set, radio, refused, listeners, arrived, tuned, tasks, handed>>
        /\ (connected' = FALSE \/ connected' = connected)
    BY <1>4 DEF Disconnect, vars, startVars
  <2>2. TypeOK' /\ StartInv' /\ TaskInv' /\ QueueInv' /\ HandedInv' /\ UnacknowledgedKeepOrder'
    <3>1. TypeOK'
      BY <2>1 DEF IInv, TypeOK
    <3>2. StartInv'
      BY <2>1 DEF IInv, StartInv, Completed
    <3>3. TaskInv' /\ QueueInv'
      BY <2>1 DEF IInv, TaskInv, QueueInv, FrameOf
    <3>4. HandedInv' /\ UnacknowledgedKeepOrder'
      BY <2>1 DEF IInv, HandedInv, UnacknowledgedKeepOrder
    <3> QED BY <3>1, <3>2, <3>3, <3>4
  <2> QED BY <2>2 DEF IInv
<1> QED BY <1>1, <1>2, <1>3, <1>4 DEF Next

(***************************************************************************)
(* The registrations, tasks and packets always correspond as IInv says     *)
(* (start_network and _async_spinel_packet_callback).                      *)
(***************************************************************************)
THEOREM Bookkeeping == Spec => []IInv
  BY InitInv, StepInv, PTL DEF Spec

(***************************************************************************)
(* For any number of registrations and frames, a packet reaches zigpy      *)
(* twice only after start_network has completed twice.                     *)
(***************************************************************************)
THEOREM NoDuplicates == Spec => []TwiceOnlyIfStartedTwice
<1>1. IInv => TwiceOnlyIfStartedTwice
  <2> SUFFICES ASSUME IInv, NEW i \in DOMAIN handed, NEW j \in DOMAIN handed,
                      i # j, handed[i] = handed[j]
               PROVE  Cardinality(Completed) > 1
    BY DEF TwiceOnlyIfStartedTwice, Completed
  <2>1. PICK t \in DOMAIN tasks, u \in DOMAIN tasks : t # u /\ tasks[t].arrival = tasks[u].arrival
    BY DEF IInv, HandedInv
  <2>2. t < u \/ u < t
    BY <2>1 DEF IInv, TypeOK
  <2>3. listeners > 1
    BY <2>1, <2>2 DEF IInv, QueueInv
  <2> QED BY <2>3 DEF IInv, StartInv
<1> QED BY <1>1, Bookkeeping, PTL

(***************************************************************************)
(* For any frames and any schedule of the tasks, packets that ask for no   *)
(* acknowledgement reach zigpy in the order in which they came in.         *)
(***************************************************************************)
THEOREM KeepsOrder == Spec => []UnacknowledgedKeepOrder
<1>1. IInv => UnacknowledgedKeepOrder
  BY DEF IInv
<1> QED BY <1>1, Bookkeeping, PTL

(***************************************************************************)
(* For any number of calls of start_network, wherever each stands: what    *)
(* reaches zigpy was received with all settings, unless one was refused.   *)
(***************************************************************************)
THEOREM TunedBefore == Spec => []HandedUpWasTuned
<1>1. IInv => HandedUpWasTuned
  BY DEF IInv, HandedInv, TaskInv, HandedUpWasTuned
<1> QED BY <1>1, Bookkeeping, PTL
===============================================================================
