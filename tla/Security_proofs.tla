---------------------------- MODULE Security_proofs ----------------------------
(*****************************************************************************)
(* What the security of network frames rests on: the frame counter, and the  *)
(* octets that are encrypted and authenticated.                              *)
(*                                                                           *)
(* The counter, for any frames, attempts, margin and backups, and any        *)
(* number of restarts: as long as it was not lost, every number on the air   *)
(* belongs to one frame.  The argument is that the next number given out     *)
(* exceeds every number on the air (Covered(counter)), and that whenever     *)
(* the memory of the process may vanish without being counted as a loss,     *)
(* the file covers the air as well (Covered(Saved)).                         *)
(*                                                                           *)
(* The frames, for any headers, payloads, keys and bursts, and any number of *)
(* frames and of changes on the air.  The codecs are inverse of each other:  *)
(* what a header was written to is read again to that header (NwkBack,       *)
(* AuxBack, ApsBack), and what was read is written again to the octets it    *)
(* was read from (NwkForth, AuxForth).  The invariant is that the only MAC   *)
(* among the pieces on the air is that of the frame that was sent            *)
(* (MacsAre): the air adds noise, moves and drops pieces, and makes no MAC.  *)
(* A key that fits has put its MAC into the last piece (DecryptMac), so that *)
(* it is the key, the text and the headers of what was sent (KeyIs).         *)
(*****************************************************************************)
EXTENDS FrameCounter, NwkSecurity, FiniteSetTheorems, Sequences_proofs
-------------------------------------------------------------------------------
(* The counter. *)

LEMMA InitInv == Init => IInv
  <1> SUFFICES ASSUME Init PROVE IInv
    OBVIOUS
  <1> USE DEF Init
  <1>1. running \in BOOLEAN /\ loaded \in BOOLEAN /\ dirty \in BOOLEAN
    OBVIOUS
  <1>2. file \in Nat \cup {Unreadable} /\ counter \in Nat /\ boots \in Nat
    BY DEF Unreadable
  <1>3. sending \in [Frames -> Coroutine]
    BY DEF Unsent, Coroutine
  <1>4. \A f \in Frames : sending[f].pc = "unsent" /\ sending[f].attempt <= AttemptsOf[f]
    BY AttemptsAssumption DEF Unsent
  <1>5. TypeOK
    BY <1>1, <1>2, <1>3, <1>4 DEF TypeOK
  <1> QED BY <1>4, <1>5 DEF IInv, Covered

\* The parts of the invariant that speak of the coroutines and of the air only.
Kept == /\ sending \in [Frames -> Coroutine]
        /\ \A f \in Frames : sending[f].attempt <= AttemptsOf[f]
        /\ air \subseteq (Frames \X Nat)
        /\ \A f \in Frames : sending[f].pc = "unsent" => \A a \in air : a[1] # f
        /\ \A f \in Frames : sending[f].pc \in {"waiting", "backoff"} =>
                                <<f, sending[f].number>> \in air

\* The steps that give out no number and put nothing on the air.
LEMMA LifeInv ==
    ASSUME IInv, Boot \/ Connect \/ LoadNetworkInfo \/ Disconnect
    PROVE  IInv'
  <1>1. /\ TypeOK /\ Kept
        /\ dirty /\ lost = {} => running /\ loaded /\ link = "open"
        /\ lost = {} => /\ running /\ loaded => Covered(counter)
                        /\ ~dirty => Covered(Saved)
                        /\ \A a, b \in air : a[2] = b[2] => a[1] = b[1]
    BY DEF IInv, TypeOK, Kept
  <1>2. UNCHANGED <<sending, air>>
    BY DEF Boot, Connect, LoadNetworkInfo, Disconnect
  <1>3. Kept'
    BY <1>1, <1>2 DEF Kept
  <1>4. lost \subseteq lost'
    BY DEF Boot, Connect, LoadNetworkInfo, Disconnect
  <1>5. lost' = {} => \A a, b \in air' : a[2] = b[2] => a[1] = b[1]
    BY <1>1, <1>2, <1>4
  <1>6. CASE Boot
    <2>1. TypeOK'
      <3>1. boots \in Nat
        BY <1>1 DEF TypeOK
      <3>2. boots' \in Nat /\ counter' \in Nat
        BY <1>6, <3>1 DEF Boot
      <3>3. running' \in BOOLEAN /\ loaded' \in BOOLEAN /\ dirty' \in BOOLEAN
        BY <1>6 DEF Boot
      <3> QED BY <1>1, <1>3, <1>6, <3>2, <3>3 DEF Boot, TypeOK, Kept
    <2>2. lost' = {} => Covered(Saved)'
      BY <1>1, <1>6 DEF Boot, Covered, Saved
    <2> QED BY <1>3, <1>5, <1>6, <2>1, <2>2 DEF Boot, IInv, Kept
  <1>7. CASE Connect
    <2>1. TypeOK'
      BY <1>1, <1>3, <1>7 DEF Connect, TypeOK, Kept
    <2>2. lost' = {} => /\ running' /\ loaded' => Covered(counter)'
                        /\ ~dirty' => Covered(Saved)'
      BY <1>1, <1>7 DEF Connect, Covered, Saved
    <2>3. dirty' /\ lost' = {} => running' /\ loaded' /\ link' = "open"
      BY <1>1, <1>7 DEF Connect
    <2> QED BY <1>3, <1>5, <2>1, <2>2, <2>3 DEF IInv, Kept
  <1>8. CASE LoadNetworkInfo
    <2>1. file \in Nat /\ Saved = file
      BY <1>1, <1>8 DEF LoadNetworkInfo, TypeOK, Saved
    <2>2. counter' = file + Margin /\ file' = file /\ file' # Unreadable /\ ~dirty'
      BY <1>8 DEF LoadNetworkInfo
    <2>3. counter' \in Nat /\ file <= counter'
      BY <2>1, <2>2, MarginAssumption
    <2>4. TypeOK'
      <3>1. lost' \subseteq {"crash", "reload", "saved unloaded", "restored"}
        BY <1>1, <1>8 DEF LoadNetworkInfo, TypeOK
      <3> QED BY <1>1, <1>3, <1>8, <2>3, <3>1 DEF LoadNetworkInfo, TypeOK, Kept
    <2>5. lost' = {} => lost = {} /\ ~dirty
      BY <1>8 DEF LoadNetworkInfo
    <2>6. ASSUME lost' = {} PROVE Covered(counter)' /\ Covered(Saved)'
      <3>1. \A a \in air : a[2] \in Nat /\ a[2] <= file
        BY <1>1, <2>1, <2>5, <2>6 DEF Covered, TypeOK
      <3>2. Saved' = file
        BY <2>2 DEF Saved
      <3>3. \A a \in air : a[2] <= counter'
        BY <2>1, <2>3, <3>1
      <3> QED BY <1>2, <3>1, <3>2, <3>3 DEF Covered
    <2> QED BY <1>3, <1>5, <2>2, <2>4, <2>6 DEF IInv, Kept
  <1>9. CASE Disconnect
    <2>1. /\ running /\ running' = running /\ loaded' = loaded /\ counter' = counter
          /\ file' = counter /\ ~dirty'
      BY <1>9 DEF Disconnect
    <2>2. TypeOK'
      <3>1. lost' \subseteq {"crash", "reload", "saved unloaded", "restored"}
        BY <1>1, <1>9 DEF Disconnect, TypeOK
      <3>2. link' \in {"none", "open", "closed"}
        BY <1>9 DEF Disconnect
      <3> QED BY <1>1, <1>3, <1>9, <3>1, <3>2 DEF Disconnect, TypeOK, Kept
    <2>3. lost' = {} => lost = {} /\ (loaded \/ ~(file > counter))
      BY <1>9 DEF Disconnect
    <2>4. Saved' = counter /\ counter \in Nat
      <3>1. counter \in Nat
        BY <1>1 DEF TypeOK
      <3>2. counter # Unreadable
        BY <3>1 DEF Unreadable
      <3> QED BY <2>1, <3>1, <3>2 DEF Saved
    <2>5. ASSUME lost' = {} PROVE Covered(counter)
      <3>1. CASE loaded
        BY <1>1, <2>1, <2>3, <2>5, <3>1
      <3>2. CASE ~loaded
        <4>1. Covered(Saved)
          BY <1>1, <2>3, <2>5, <3>2
        <4>2. Saved \in Nat /\ Saved <= counter /\ counter \in Nat
          <5>1. ~(file > counter)
            BY <2>3, <2>5, <3>2
          <5>2. file \in Nat \/ file = Unreadable
            BY <1>1 DEF TypeOK
          <5> QED BY <2>4, <5>1, <5>2 DEF Saved
        <4>3. \A a \in air : a[2] \in Nat /\ a[2] <= Saved
          BY <1>1, <4>1 DEF Covered, TypeOK
        <4>4. \A a \in air : a[2] <= counter
          BY <4>2, <4>3
        <4> QED BY <4>4 DEF Covered
      <3> QED BY <3>1, <3>2
    <2>6. lost' = {} => Covered(Saved)' /\ Covered(counter)'
      BY <1>2, <2>1, <2>4, <2>5 DEF Covered
    <2> QED BY <1>3, <1>5, <2>1, <2>2, <2>6 DEF IInv, Kept
  <1> QED BY <1>6, <1>7, <1>8, <1>9

\* A backup that is restored: where its number is no loss, it covers the air like the
\* counter or the file did.
LEMMA RestoreInv == ASSUME IInv, NEW n \in Backups, WriteNetworkInfo(n) PROVE IInv'
  <1>1. /\ TypeOK /\ Kept
        /\ dirty /\ lost = {} => running /\ loaded /\ link = "open"
        /\ lost = {} => /\ running /\ loaded => Covered(counter)
                        /\ ~dirty => Covered(Saved)
                        /\ \A a, b \in air : a[2] = b[2] => a[1] = b[1]
    BY DEF IInv, TypeOK, Kept
  <1>2. /\ running /\ running' = running /\ boots' = boots /\ file' = file /\ link' = link
        /\ sending' = sending /\ air' = air /\ dirty' = dirty /\ counter' = n /\ loaded' = TRUE
    BY DEF WriteNetworkInfo
  <1>3. n \in Nat
    BY BackupsAssumption
  <1>4. Kept'
    BY <1>1, <1>2 DEF Kept
  <1>5. TypeOK'
    <2>1. lost' \subseteq {"crash", "reload", "saved unloaded", "restored"}
      BY <1>1 DEF WriteNetworkInfo, TypeOK
    <2> QED BY <1>1, <1>2, <1>3, <1>4, <2>1 DEF TypeOK, Kept
  <1>6. lost' = {} => lost = {} /\ ~(n < file) /\ ~(dirty /\ n < counter)
    BY DEF WriteNetworkInfo
  <1>7. ASSUME lost' = {} PROVE Covered(n)
    <2>1. counter \in Nat /\ \A a \in air : a[2] \in Nat
      BY <1>1 DEF TypeOK, Kept
    <2>2. CASE dirty
      <3>1. Covered(counter) /\ counter <= n
        BY <1>1, <1>2, <1>3, <1>6, <1>7, <2>1, <2>2
      <3> QED BY <1>3, <2>1, <3>1 DEF Covered
    <2>3. CASE ~dirty
      <3>1. Covered(Saved) /\ ~(n < file) /\ file \in Nat \cup {Unreadable}
        BY <1>1, <1>6, <1>7, <2>3 DEF TypeOK
      <3>2. Saved \in Nat /\ Saved <= n
        BY <1>3, <3>1 DEF Saved
      <3> QED BY <1>3, <2>1, <3>1, <3>2 DEF Covered
    <2> QED BY <2>2, <2>3
  <1>8. lost' = {} => /\ running' /\ loaded' => Covered(counter)'
                      /\ ~dirty' => Covered(Saved)'
                      /\ \A a, b \in air' : a[2] = b[2] => a[1] = b[1]
    BY <1>1, <1>2, <1>6, <1>7 DEF Covered, Saved
  <1>9. dirty' /\ lost' = {} => running' /\ loaded' /\ link' = "open"
    BY <1>1, <1>2, <1>6
  <1> QED BY <1>4, <1>5, <1>8, <1>9 DEF IInv, Kept

\* The process ends: its coroutines are killed, what is on the air stays.
LEMMA EndInv == ASSUME IInv, Exit \/ Crash PROVE IInv'
  <1>1. TypeOK
    BY DEF IInv
  <1>2. /\ sending' = Killed /\ ~running' /\ running' \in BOOLEAN /\ dirty' = dirty
        /\ UNCHANGED <<boots, counter, loaded, link, air>>
        /\ file' = file \/ file' = Unreadable
    BY DEF Exit, Crash
  <1>3. lost' = lost \/ lost' = lost \cup {"crash"}
    BY DEF Exit, Crash
  <1>4. lost' = {} => lost = {} /\ ~dirty /\ file' = file
    <2>1. CASE Exit
      BY <2>1 DEF Exit, IInv
    <2>2. CASE Crash
      BY <2>2 DEF Crash
    <2> QED BY <2>1, <2>2
  <1>5. ASSUME NEW f \in Frames
        PROVE  /\ sending'[f].attempt = sending[f].attempt
               /\ sending'[f].pc = "unsent" => sending[f].pc = "unsent"
               /\ sending'[f].pc \notin {"waiting", "backoff"}
               /\ sending'[f] \in Coroutine
    <2>1. sending[f] \in Coroutine
      BY <1>1 DEF TypeOK
    <2> QED BY <1>2, <2>1 DEF Killed, Coroutine
  <1>6. sending' \in [Frames -> Coroutine]
    <2>1. sending' = [f \in Frames |-> sending'[f]]
      BY <1>2 DEF Killed
    <2> QED BY <1>5, <2>1
  <1>7. TypeOK'
    <2>1. \A f \in Frames : sending'[f].attempt <= AttemptsOf[f]
      BY <1>1, <1>5 DEF TypeOK
    <2>2. lost' \subseteq {"crash", "reload", "saved unloaded", "restored"}
      BY <1>1, <1>3 DEF TypeOK
    <2> QED BY <1>1, <1>2, <1>6, <2>1, <2>2 DEF TypeOK
  <1>8. lost' = {} => /\ Covered(Saved)'
                      /\ \A a, b \in air' : a[2] = b[2] => a[1] = b[1]
    BY <1>2, <1>4 DEF IInv, Covered, Saved
  <1>9. \A f \in Frames : sending'[f].pc = "unsent" => \A a \in air' : a[1] # f
    BY <1>2, <1>5 DEF IInv
  <1> QED BY <1>2, <1>4, <1>5, <1>7, <1>8, <1>9 DEF IInv

\* A frame gets its number: the next one, above everything on the air.
LEMMA SendInv == ASSUME IInv, NEW f \in Frames, Send(f) PROVE IInv'
  <1>1. TypeOK
    BY DEF IInv
  <1> DEFINE n == counter + 1
             Trial(pc) == [pc |-> pc, number |-> n, attempt |-> 1]
  <1>2. n \in Nat /\ AttemptsOf[f] \in Nat \ {0} /\ counter \in Nat /\ counter < n
    <2>1. counter \in Nat
      BY <1>1 DEF TypeOK
    <2> QED BY <2>1, AttemptsAssumption
  <1>3. /\ running /\ loaded /\ sending[f].pc = "unsent" /\ counter' = n
        /\ UNCHANGED <<running, boots, file, loaded, link, lost>>
    BY DEF Send
  <1>4. \/ /\ link = "open"
           /\ sending' = [sending EXCEPT ![f] = Trial("waiting")]
           /\ air' = air \cup {<<f, n>>}
           /\ dirty' = TRUE
        \/ /\ sending' = [sending EXCEPT ![f] = Trial("raised")]
           /\ air' = air /\ dirty' = dirty
    BY DEF Send
  <1> HIDE DEF n
  <1>5. Trial("waiting") \in Coroutine /\ Trial("raised") \in Coroutine
    BY <1>2 DEF Coroutine
  <1>6. /\ sending' \in [Frames -> Coroutine]
        /\ \A g \in Frames : g # f => sending'[g] = sending[g]
        /\ sending'[f] \in {Trial("waiting"), Trial("raised")}
        /\ sending'[f] = Trial("waiting") => <<f, n>> \in air'
    <2>1. sending \in [Frames -> Coroutine]
      BY <1>1 DEF TypeOK
    <2>2. \/ sending' = [sending EXCEPT ![f] = Trial("waiting")] /\ <<f, n>> \in air'
          \/ sending' = [sending EXCEPT ![f] = Trial("raised")]
      BY <1>4
    <2>3. Trial("waiting") # Trial("raised")
      OBVIOUS
    <2> HIDE DEF Trial
    <2> QED BY <1>5, <2>1, <2>2, <2>3
  <1>7. air \subseteq air' /\ air' \subseteq air \cup {<<f, n>>}
    BY <1>4
  <1>8. TypeOK'
    <2>1. \A g \in Frames : sending'[g].attempt <= AttemptsOf[g]
      <3>1. \A g \in Frames : sending[g].attempt <= AttemptsOf[g]
        BY <1>1 DEF TypeOK
      <3>2. sending'[f].attempt = 1
        BY <1>6
      <3> QED BY <1>2, <1>6, <3>1, <3>2
    <2>2. air' \subseteq (Frames \X Nat)
      <3>1. air \subseteq (Frames \X Nat) /\ <<f, n>> \in Frames \X Nat
        BY <1>1, <1>2 DEF TypeOK
      <3> QED BY <1>7, <3>1
    <2>3. dirty' \in BOOLEAN
      BY <1>1, <1>4 DEF TypeOK
    <2> QED BY <1>1, <1>2, <1>3, <1>6, <2>1, <2>2, <2>3 DEF TypeOK
  <1>9. \A g \in Frames : sending'[g].pc = "unsent" => \A a \in air' : a[1] # g
    BY <1>6, <1>7 DEF IInv
  <1>10. \A g \in Frames : sending'[g].pc \in {"waiting", "backoff"} =>
                           <<g, sending'[g].number>> \in air'
    BY <1>6, <1>7 DEF IInv
  <1>11. dirty' /\ lost' = {} => running' /\ loaded' /\ link' = "open"
    BY <1>3, <1>4 DEF IInv
  <1>12. ASSUME lost' = {}
         PROVE  /\ Covered(counter)'
                /\ ~dirty' => Covered(Saved)'
                /\ \A a, b \in air' : a[2] = b[2] => a[1] = b[1]
    <2>1. lost = {} /\ Covered(counter)
      BY <1>3, <1>12 DEF IInv
    <2>2. \A a \in air : a[2] \in Nat /\ a[2] <= counter
      BY <1>1, <2>1 DEF Covered, TypeOK
    <2>3. \A a \in air : a[2] \in Nat /\ a[2] < n
      BY <1>2, <2>2
    <2>4. Covered(counter)'
      <3>1. \A a \in air' : a[2] <= n
        BY <1>2, <1>7, <2>3
      <3> QED BY <1>3, <3>1 DEF Covered
    <2>5. ~dirty' => Covered(Saved)'
      BY <1>3, <1>4, <2>1 DEF IInv, Covered, Saved
    <2>6. ASSUME NEW a \in air', NEW b \in air', a[2] = b[2]
          PROVE  a[1] = b[1]
      <3>1. CASE a \in air /\ b \in air
        BY <2>1, <2>6, <3>1 DEF IInv
      <3>2. CASE a = <<f, n>> /\ b = <<f, n>>
        BY <3>2
      <3>3. CASE a \in air /\ b = <<f, n>>
        BY <1>2, <2>3, <2>6, <3>3
      <3>4. CASE a = <<f, n>> /\ b \in air
        BY <1>2, <2>3, <2>6, <3>4
      <3> QED BY <1>7, <3>1, <3>2, <3>3, <3>4
    <2> QED BY <2>4, <2>5, <2>6
  <1> QED BY <1>8, <1>9, <1>10, <1>11, <1>12 DEF IInv

LEMMA OneMore == ASSUME NEW m \in Nat, NEW n \in Nat, m < n
                 PROVE  m + 1 \in Nat /\ m + 1 <= n
  OBVIOUS

\* A coroutine goes on: only a retry puts something on the air, and the frame
\* was there already, under the number it has kept.
LEMMA ProgressInv == ASSUME IInv, NEW f \in Frames, Progress(f) PROVE IInv'
  <1>1. TypeOK
    BY DEF IInv
  <1>2. /\ sending[f].pc \in {"waiting", "backoff"}
        /\ UNCHANGED <<running, boots, file, counter, loaded, link, dirty, lost>>
    BY DEF Progress, Answered, NotAcknowledged, Raises, Retry, GiveUp
  <1>3. <<f, sending[f].number>> \in air
    BY <1>2 DEF IInv
  <1>4. air' = air
    BY <1>3 DEF Progress, Answered, NotAcknowledged, Raises, Retry, GiveUp
  <1>5. PICK pc \in {"waiting", "backoff", "answered", "gave up", "raised"},
             tries \in {sending[f].attempt, sending[f].attempt + 1} :
            /\ sending' = [sending EXCEPT ![f].pc = pc, ![f].attempt = tries]
            /\ tries = sending[f].attempt \/ sending[f].attempt < AttemptsOf[f]
    <2>1. sending[f] = [pc |-> sending[f].pc, number |-> sending[f].number,
                        attempt |-> sending[f].attempt]
      BY <1>1 DEF TypeOK, Coroutine
    <2>2. \A pc : [sending EXCEPT ![f].pc = pc]
                  = [sending EXCEPT ![f].pc = pc, ![f].attempt = sending[f].attempt]
      BY <1>1, <2>1 DEF TypeOK, Coroutine
    <2>3. CASE Answered(f)
      BY <2>2, <2>3 DEF Answered
    <2>4. CASE NotAcknowledged(f)
      BY <2>2, <2>4 DEF NotAcknowledged
    <2>5. CASE Raises(f)
      BY <2>2, <2>5 DEF Raises
    <2>6. CASE Retry(f)
      BY <2>6 DEF Retry
    <2>7. CASE GiveUp(f)
      BY <2>2, <2>7 DEF GiveUp
    <2> QED BY <2>3, <2>4, <2>5, <2>6, <2>7 DEF Progress
  <1>6. /\ sending[f] \in Coroutine /\ sending[f].attempt \in Nat
        /\ sending[f].attempt <= AttemptsOf[f] /\ AttemptsOf[f] \in Nat
    BY <1>1, AttemptsAssumption DEF TypeOK, Coroutine
  <1>7. tries \in Nat /\ tries <= AttemptsOf[f]
    <2>1. CASE tries = sending[f].attempt
      BY <1>6, <2>1
    <2>2. CASE tries # sending[f].attempt
      <3>1. tries = sending[f].attempt + 1 /\ sending[f].attempt < AttemptsOf[f]
        BY <1>5, <2>2
      <3> QED BY <1>6, <3>1, OneMore
    <2> QED BY <2>1, <2>2
  <1>8. /\ sending' \in [Frames -> Coroutine]
        /\ \A g \in Frames : g # f => sending'[g] = sending[g]
        /\ sending'[f].number = sending[f].number
        /\ sending'[f].pc # "unsent"
        /\ sending'[f].attempt <= AttemptsOf[f]
    BY <1>1, <1>5, <1>6, <1>7 DEF TypeOK, Coroutine
  <1>9. TypeOK'
    <2>1. \A g \in Frames : sending'[g].attempt <= AttemptsOf[g]
      BY <1>1, <1>8 DEF TypeOK
    <2> QED BY <1>1, <1>2, <1>4, <1>8, <2>1 DEF TypeOK
  <1>10. lost' = {} => /\ running' /\ loaded' => Covered(counter)'
                       /\ ~dirty' => Covered(Saved)'
                       /\ \A a, b \in air' : a[2] = b[2] => a[1] = b[1]
    BY <1>2, <1>4 DEF IInv, Covered, Saved
  <1>11. \A g \in Frames : sending'[g].pc \in {"waiting", "backoff"} =>
                           <<g, sending'[g].number>> \in air'
    BY <1>3, <1>4, <1>8 DEF IInv
  <1>12. \A g \in Frames : sending'[g].pc = "unsent" => \A a \in air' : a[1] # g
    BY <1>4, <1>8 DEF IInv
  <1>13. dirty' /\ lost' = {} => running' /\ loaded' /\ link' = "open"
    BY <1>2 DEF IInv
  <1> QED BY <1>9, <1>10, <1>11, <1>12, <1>13 DEF IInv

\* The invariant of the counter.
THEOREM Bookkeeping == Spec => []IInv
  <1>1. Init => IInv
    BY InitInv
  <1>2. IInv /\ [Next]_vars => IInv'
    <2> SUFFICES ASSUME IInv, [Next]_vars PROVE IInv'
      OBVIOUS
    <2>1. CASE Boot \/ Connect \/ LoadNetworkInfo \/ Disconnect
      BY <2>1, LifeInv
    <2>2. CASE Exit \/ Crash
      BY <2>2, EndInv
    <2>3. ASSUME NEW f \in Frames, Send(f) PROVE IInv'
      BY <2>3, SendInv
    <2>4. ASSUME NEW f \in Frames, Progress(f) PROVE IInv'
      BY <2>4, ProgressInv
    <2>5. ASSUME NEW n \in Backups, WriteNetworkInfo(n) PROVE IInv'
      BY <2>5, RestoreInv
    <2>6. CASE UNCHANGED vars
      BY <2>6 DEF vars, IInv, TypeOK, Covered, Saved
    <2> QED BY <2>1, <2>2, <2>3, <2>4, <2>5, <2>6 DEF Next
  <1> QED BY <1>1, <1>2, PTL DEF Spec

\* Every variable keeps its type, and no frame is tried more often than its
\* caller of _send_spinel_frame (application.py:214) asked for.
THEOREM TypeCorrect == Spec => []TypeOK
  <1>1. IInv => TypeOK
    BY DEF IInv
  <1> QED BY <1>1, Bookkeeping, PTL

\* Nonces do not repeat while the counter is not lost.
THEOREM FreshNumbers == Spec => []NumbersAreUsedOnce
  <1>1. IInv => NumbersAreUsedOnce
    BY DEF IInv, NumbersAreUsedOnce
  <1> QED BY <1>1, Bookkeeping, PTL

-------------------------------------------------------------------------------
(* Control fields. *)

LEMMA Powers == 2^0 = 1 /\ 2^1 = 2 /\ 2^2 = 4 /\ 2^3 = 8 /\ 2^4 = 16 /\ 2^5 = 32 /\ 2^6 = 64 /\ 2^7 = 128
  OBVIOUS

\* The bits that the readers ask for.
LEMMA BitFields ==
  ASSUME NEW o \in Octet
  PROVE  /\ Bits(o, 0, 1) = o % 2 /\ Bits(o, 1, 1) = (o \div 2) % 2 /\ Bits(o, 2, 1) = (o \div 4) % 2
         /\ Bits(o, 3, 1) = (o \div 8) % 2 /\ Bits(o, 4, 1) = (o \div 16) % 2 /\ Bits(o, 5, 1) = (o \div 32) % 2
         /\ Bits(o, 6, 1) = (o \div 64) % 2 /\ Bits(o, 7, 1) = (o \div 128) % 2
         /\ Bits(o, 0, 2) = o % 4 /\ Bits(o, 2, 2) = (o \div 4) % 4 /\ Bits(o, 3, 2) = (o \div 8) % 4
         /\ Bits(o, 6, 2) = (o \div 64) % 4 /\ Bits(o, 0, 3) = o % 8 /\ Bits(o, 2, 4) = (o \div 4) % 16
<1>1. o \div 1 = o
  BY DEF Octet
<1> QED BY <1>1, Powers DEF Bits

LEMMA BitIs ==
  ASSUME NEW o \in Octet, NEW i \in 0 .. 7
  PROVE  Bits(o, i, 1) \in 0 .. 1
<1>1. \A n \in {1, 2, 4, 8, 16, 32, 64, 128} : (o \div n) % 2 \in 0 .. 1
  BY DEF Octet
<1>2. o \div 1 = o
  BY DEF Octet
<1>3. i \in {0, 1, 2, 3, 4, 5, 6, 7}
  OBVIOUS
<1>4. /\ Bits(o, 0, 1) \in 0 .. 1 /\ Bits(o, 1, 1) \in 0 .. 1 /\ Bits(o, 2, 1) \in 0 .. 1 /\ Bits(o, 3, 1) \in 0 .. 1
      /\ Bits(o, 4, 1) \in 0 .. 1 /\ Bits(o, 5, 1) \in 0 .. 1 /\ Bits(o, 6, 1) \in 0 .. 1 /\ Bits(o, 7, 1) \in 0 .. 1
  BY <1>1, <1>2, BitFields
<1> HIDE DEF Bits
<1> QED BY <1>3, <1>4

\* The two octets of a network control field, by their digits.
NwkLow(a, b, c) == a + 4 * b + 64 * c
NwkHigh(a, b, c, d, e, f, g) == a + 2 * b + 4 * c + 8 * d + 16 * e + 32 * f + 64 * g

LEMMA NwkLowDigits ==
  ASSUME NEW a \in 0 .. 3, NEW b \in 0 .. 15, NEW c \in 0 .. 3, NEW o, o = NwkLow(a, b, c)
  PROVE  o \in Octet /\ o % 4 = a /\ (o \div 4) % 16 = b /\ (o \div 64) % 4 = c
<1>1. o \in 0 .. 255
  BY DEF NwkLow
<1>2. o % 4 = a
  BY DEF NwkLow
<1>3. o \div 4 = b + 16 * c
  BY DEF NwkLow
<1>4. o \div 64 = c
  BY DEF NwkLow
<1>5. (o \div 4) % 16 = b
  BY <1>3
<1>6. (o \div 64) % 4 = c
  BY <1>4
<1> QED BY <1>1, <1>2, <1>5, <1>6 DEF Octet

LEMMA NwkHighDigits ==
  ASSUME NEW a \in 0 .. 1, NEW b \in 0 .. 1, NEW c \in 0 .. 1, NEW d \in 0 .. 1, NEW e \in 0 .. 1,
         NEW f \in 0 .. 1, NEW g \in 0 .. 3, NEW o, o = NwkHigh(a, b, c, d, e, f, g)
  PROVE  /\ o \in Octet /\ o % 2 = a /\ (o \div 2) % 2 = b /\ (o \div 4) % 2 = c /\ (o \div 8) % 2 = d
         /\ (o \div 16) % 2 = e /\ (o \div 32) % 2 = f /\ (o \div 64) % 4 = g
<1>1. o \in 0 .. 255
  BY DEF NwkHigh
<1>2. o % 2 = a
  BY DEF NwkHigh
<1>3. o \div 2 = b + 2 * c + 4 * d + 8 * e + 16 * f + 32 * g
  BY DEF NwkHigh
<1>4. o \div 4 = c + 2 * d + 4 * e + 8 * f + 16 * g
  BY DEF NwkHigh
<1>5. o \div 8 = d + 2 * e + 4 * f + 8 * g
  BY DEF NwkHigh
<1>6. o \div 16 = e + 2 * f + 4 * g
  BY DEF NwkHigh
<1>7. o \div 32 = f + 2 * g
  BY DEF NwkHigh
<1>8. o \div 64 = g
  BY DEF NwkHigh
<1>9. (o \div 2) % 2 = b
  BY <1>3
<1>10. (o \div 4) % 2 = c
  BY <1>4
<1>11. (o \div 8) % 2 = d
  BY <1>5
<1>12. (o \div 16) % 2 = e
  BY <1>6
<1>13. (o \div 32) % 2 = f
  BY <1>7
<1>14. (o \div 64) % 4 = g
  BY <1>8
<1> QED BY <1>1, <1>2, <1>9, <1>10, <1>11, <1>12, <1>13, <1>14 DEF Octet

LEMMA NwkControlRead ==
  ASSUME NEW s, s[1] \in Octet, s[2] \in Octet
  PROVE  ReadNwkControl(s) \in NwkControls /\ WriteNwkControl(ReadNwkControl(s)) = <<s[1], s[2]>>
<1> DEFINE o == s[1]
           p == s[2]
           c == ReadNwkControl(s)
<1>1. o \in Octet /\ p \in Octet
  OBVIOUS
<1>2. c = [type |-> o % 4, version |-> (o \div 4) % 16, route |-> (o \div 64) % 4,
           multicast |-> p % 2, security |-> (p \div 2) % 2, sourceRoute |-> (p \div 4) % 2,
           destination |-> (p \div 8) % 2, extended |-> (p \div 16) % 2, initiator |-> (p \div 32) % 2,
           reserved |-> (p \div 64) % 4]
  BY <1>1, BitFields DEF ReadNwkControl
<1>3. \A x \in Octet : x % 4 \in 0 .. 3 /\ (x \div 4) % 16 \in 0 .. 15 /\ (x \div 64) % 4 \in 0 .. 3
  BY DEF Octet
<1>4. \A x \in Octet : /\ x % 2 \in 0 .. 1 /\ (x \div 2) % 2 \in 0 .. 1 /\ (x \div 4) % 2 \in 0 .. 1
                       /\ (x \div 8) % 2 \in 0 .. 1 /\ (x \div 16) % 2 \in 0 .. 1 /\ (x \div 32) % 2 \in 0 .. 1
  BY DEF Octet
<1>5. o = (o % 4) + 4 * ((o \div 4) % 16) + 64 * ((o \div 64) % 4)
  BY <1>1 DEF Octet
<1>6. p = (p % 2) + 2 * ((p \div 2) % 2) + 4 * ((p \div 4) % 2) + 8 * ((p \div 8) % 2) + 16 * ((p \div 16) % 2)
            + 32 * ((p \div 32) % 2) + 64 * ((p \div 64) % 4)
  BY <1>1 DEF Octet
<1> HIDE DEF o, p, c
<1>7. c \in NwkControls
  BY <1>1, <1>2, <1>3, <1>4 DEF NwkControls
<1>8. WriteNwkControl(c) = <<o, p>>
  BY <1>2, <1>5, <1>6 DEF WriteNwkControl
<1> QED BY <1>7, <1>8 DEF o, p, c

LEMMA NwkControlWritten ==
  ASSUME NEW c \in NwkControls, NEW s, s[1] = WriteNwkControl(c)[1], s[2] = WriteNwkControl(c)[2]
  PROVE  ReadNwkControl(s) = c /\ WriteNwkControl(c) \in Seq(Octet) /\ Len(WriteNwkControl(c)) = 2
<1> DEFINE o == s[1]
           p == s[2]
<1>1. /\ c.type \in 0 .. 3 /\ c.version \in 0 .. 15 /\ c.route \in 0 .. 3 /\ c.multicast \in 0 .. 1
      /\ c.security \in 0 .. 1 /\ c.sourceRoute \in 0 .. 1 /\ c.destination \in 0 .. 1 /\ c.extended \in 0 .. 1
      /\ c.initiator \in 0 .. 1 /\ c.reserved \in 0 .. 3
  BY DEF NwkControls
<1>2. o = NwkLow(c.type, c.version, c.route)
  BY DEF WriteNwkControl, NwkLow
<1>3. p = NwkHigh(c.multicast, c.security, c.sourceRoute, c.destination, c.extended, c.initiator, c.reserved)
  BY DEF WriteNwkControl, NwkHigh
<1>4. WriteNwkControl(c) = <<o, p>>
  BY DEF WriteNwkControl
<1>5. o \in Octet /\ o % 4 = c.type /\ (o \div 4) % 16 = c.version /\ (o \div 64) % 4 = c.route
  BY <1>1, <1>2, NwkLowDigits
<1>6. /\ p \in Octet /\ p % 2 = c.multicast /\ (p \div 2) % 2 = c.security /\ (p \div 4) % 2 = c.sourceRoute
      /\ (p \div 8) % 2 = c.destination /\ (p \div 16) % 2 = c.extended /\ (p \div 32) % 2 = c.initiator
      /\ (p \div 64) % 4 = c.reserved
  BY <1>1, <1>3, NwkHighDigits
<1>7. ReadNwkControl(s) =
        [type |-> Bits(o, 0, 2), version |-> Bits(o, 2, 4), route |-> Bits(o, 6, 2),
         multicast |-> Bits(p, 0, 1), security |-> Bits(p, 1, 1), sourceRoute |-> Bits(p, 2, 1),
         destination |-> Bits(p, 3, 1), extended |-> Bits(p, 4, 1), initiator |-> Bits(p, 5, 1),
         reserved |-> Bits(p, 6, 2)]
  BY DEF ReadNwkControl
<1> HIDE DEF o, p
<1>8. ReadNwkControl(s) =
        [type |-> c.type, version |-> c.version, route |-> c.route, multicast |-> c.multicast,
         security |-> c.security, sourceRoute |-> c.sourceRoute, destination |-> c.destination,
         extended |-> c.extended, initiator |-> c.initiator, reserved |-> c.reserved]
  BY <1>5, <1>6, <1>7, BitFields
<1>9. c = [type |-> c.type, version |-> c.version, route |-> c.route, multicast |-> c.multicast,
           security |-> c.security, sourceRoute |-> c.sourceRoute, destination |-> c.destination,
           extended |-> c.extended, initiator |-> c.initiator, reserved |-> c.reserved]
  BY DEF NwkControls
<1> QED BY <1>4, <1>5, <1>6, <1>8, <1>9

\* The octet of an auxiliary control field.
AuxOctet(a, b, c, d, e) == a + 8 * b + 32 * c + 64 * d + 128 * e

LEMMA AuxDigits ==
  ASSUME NEW a \in 0 .. 7, NEW b \in 0 .. 3, NEW c \in 0 .. 1, NEW d \in 0 .. 1, NEW e \in 0 .. 1,
         NEW o, o = AuxOctet(a, b, c, d, e)
  PROVE  /\ o \in Octet /\ o % 8 = a /\ (o \div 8) % 4 = b /\ (o \div 32) % 2 = c /\ (o \div 64) % 2 = d
         /\ (o \div 128) % 2 = e
<1>1. o \in 0 .. 255
  BY DEF AuxOctet
<1>2. o % 8 = a
  BY DEF AuxOctet
<1>3. o \div 8 = b + 4 * c + 8 * d + 16 * e
  BY DEF AuxOctet
<1>4. o \div 32 = c + 2 * d + 4 * e
  BY DEF AuxOctet
<1>5. o \div 64 = d + 2 * e
  BY DEF AuxOctet
<1>6. o \div 128 = e
  BY DEF AuxOctet
<1>7. (o \div 8) % 4 = b
  BY <1>3
<1>8. (o \div 32) % 2 = c
  BY <1>4
<1>9. (o \div 64) % 2 = d
  BY <1>5
<1>10. (o \div 128) % 2 = e
  BY <1>6
<1> QED BY <1>1, <1>2, <1>7, <1>8, <1>9, <1>10 DEF Octet

LEMMA AuxControlRead ==
  ASSUME NEW o \in Octet
  PROVE  ReadAuxControl(o) \in AuxControls /\ WriteAuxControl(ReadAuxControl(o)) = o
<1> DEFINE c == ReadAuxControl(o)
<1>1. c = [level |-> o % 8, keyId |-> (o \div 8) % 4, extended |-> (o \div 32) % 2,
           verified |-> (o \div 64) % 2, reserved |-> (o \div 128) % 2]
  BY BitFields DEF ReadAuxControl
<1>2. /\ o % 8 \in 0 .. 7 /\ (o \div 8) % 4 \in 0 .. 3 /\ (o \div 32) % 2 \in 0 .. 1
      /\ (o \div 64) % 2 \in 0 .. 1 /\ (o \div 128) % 2 \in 0 .. 1
  BY DEF Octet
<1>3. o = (o % 8) + 8 * ((o \div 8) % 4) + 32 * ((o \div 32) % 2) + 64 * ((o \div 64) % 2) + 128 * ((o \div 128) % 2)
  BY DEF Octet
<1> HIDE DEF c
<1>4. c \in AuxControls
  BY <1>1, <1>2 DEF AuxControls
<1>5. WriteAuxControl(c) = o
  BY <1>1, <1>3 DEF WriteAuxControl
<1> QED BY <1>4, <1>5 DEF c

LEMMA AuxControlWritten ==
  ASSUME NEW c \in AuxControls
  PROVE  WriteAuxControl(c) \in Octet /\ ReadAuxControl(WriteAuxControl(c)) = c
<1> DEFINE o == WriteAuxControl(c)
<1>1. o = AuxOctet(c.level, c.keyId, c.extended, c.verified, c.reserved)
  BY DEF WriteAuxControl, AuxOctet
<1>2. c.level \in 0 .. 7 /\ c.keyId \in 0 .. 3 /\ c.extended \in 0 .. 1 /\ c.verified \in 0 .. 1 /\ c.reserved \in 0 .. 1
  BY DEF AuxControls
<1> HIDE DEF o
<1>3. /\ o \in Octet /\ o % 8 = c.level /\ (o \div 8) % 4 = c.keyId /\ (o \div 32) % 2 = c.extended
      /\ (o \div 64) % 2 = c.verified /\ (o \div 128) % 2 = c.reserved
  BY <1>1, <1>2, AuxDigits
<1>4. ReadAuxControl(o) = [level |-> c.level, keyId |-> c.keyId, extended |-> c.extended,
                           verified |-> c.verified, reserved |-> c.reserved]
  BY <1>3, BitFields DEF ReadAuxControl
<1>5. c = [level |-> c.level, keyId |-> c.keyId, extended |-> c.extended,
           verified |-> c.verified, reserved |-> c.reserved]
  BY DEF AuxControls
<1> QED BY <1>3, <1>4, <1>5 DEF o

\* The octet of an APS control field.
ApsControls ==
    [type : 0 .. 3, mode : 0 .. 3, reserved : 0 .. 1, security : 0 .. 1, ack : 0 .. 1, extended : 0 .. 1]

ApsOctet(a, b, c, d, e, f) == a + 4 * b + 16 * c + 32 * d + 64 * e + 128 * f

LEMMA ApsDigits ==
  ASSUME NEW a \in 0 .. 3, NEW b \in 0 .. 3, NEW c \in 0 .. 1, NEW d \in 0 .. 1, NEW e \in 0 .. 1, NEW f \in 0 .. 1,
         NEW o, o = ApsOctet(a, b, c, d, e, f)
  PROVE  /\ o \in Octet /\ o % 4 = a /\ (o \div 4) % 4 = b /\ (o \div 16) % 2 = c /\ (o \div 32) % 2 = d
         /\ (o \div 64) % 2 = e /\ (o \div 128) % 2 = f
<1>1. o \in 0 .. 255
  BY DEF ApsOctet
<1>2. o % 4 = a
  BY DEF ApsOctet
<1>3. o \div 4 = b + 4 * c + 8 * d + 16 * e + 32 * f
  BY DEF ApsOctet
<1>4. o \div 16 = c + 2 * d + 4 * e + 8 * f
  BY DEF ApsOctet
<1>5. o \div 32 = d + 2 * e + 4 * f
  BY DEF ApsOctet
<1>6. o \div 64 = e + 2 * f
  BY DEF ApsOctet
<1>7. o \div 128 = f
  BY DEF ApsOctet
<1>8. (o \div 4) % 4 = b
  BY <1>3
<1>9. (o \div 16) % 2 = c
  BY <1>4
<1>10. (o \div 32) % 2 = d
  BY <1>5
<1>11. (o \div 64) % 2 = e
  BY <1>6
<1>12. (o \div 128) % 2 = f
  BY <1>7
<1> QED BY <1>1, <1>2, <1>8, <1>9, <1>10, <1>11, <1>12 DEF Octet

LEMMA ApsControlWritten ==
  ASSUME NEW c \in ApsControls
  PROVE  WriteApsControl(c) \in Octet /\ ReadApsControl(WriteApsControl(c)) = c
<1> DEFINE o == WriteApsControl(c)
<1>1. o = ApsOctet(c.type, c.mode, c.reserved, c.security, c.ack, c.extended)
  BY DEF WriteApsControl, ApsOctet
<1>2. /\ c.type \in 0 .. 3 /\ c.mode \in 0 .. 3 /\ c.reserved \in 0 .. 1 /\ c.security \in 0 .. 1 /\ c.ack \in 0 .. 1
      /\ c.extended \in 0 .. 1
  BY DEF ApsControls
<1> HIDE DEF o
<1>3. /\ o \in Octet /\ o % 4 = c.type /\ (o \div 4) % 4 = c.mode /\ (o \div 16) % 2 = c.reserved
      /\ (o \div 32) % 2 = c.security /\ (o \div 64) % 2 = c.ack /\ (o \div 128) % 2 = c.extended
  BY <1>1, <1>2, ApsDigits
<1>4. ReadApsControl(o) = [type |-> c.type, mode |-> c.mode, reserved |-> c.reserved,
                           security |-> c.security, ack |-> c.ack, extended |-> c.extended]
  BY <1>3, BitFields DEF ReadApsControl
<1>5. c = [type |-> c.type, mode |-> c.mode, reserved |-> c.reserved,
           security |-> c.security, ack |-> c.ack, extended |-> c.extended]
  BY DEF ApsControls
<1> QED BY <1>3, <1>4, <1>5 DEF o
-------------------------------------------------------------------------------
(* Eight fields, one behind the other. *)

LEMMA SliceElements ==
  ASSUME NEW s \in Seq(Octet), NEW a \in Nat, NEW b \in Nat, a <= b, b <= Len(s)
  PROVE  /\ Slice(s, a, b) \in Seq(Octet) /\ Len(Slice(s, a, b)) = b - a
         /\ \A k \in 1 .. b - a : Slice(s, a, b)[k] = s[a + k]
<1>1. Len(s) \in Nat /\ \A k \in 1 .. Len(s) : s[k] \in Octet
  BY LenProperties, ElementOfSeq
<1>2. a + 1 \in Int /\ b \in Int /\ (IF a + 1 <= b THEN b - (a + 1) + 1 ELSE 0) = b - a
      /\ b - (a + 1) + 1 = b - a /\ \A k \in 1 .. b - a : a + 1 + k - 1 = a + k
  BY <1>1
<1>3. \A k \in a + 1 .. b : s[k] \in Octet
  <2>1. \A k \in a + 1 .. b : k \in 1 .. Len(s)
    BY <1>1
  <2> QED BY <1>1, <2>1
<1> DEFINE x == SubSeq(s, a + 1, b)
<1>4. /\ x \in Seq(Octet)
      /\ Len(x) = (IF a + 1 <= b THEN b - (a + 1) + 1 ELSE 0)
      /\ \A k \in 1 .. b - (a + 1) + 1 : x[k] = s[a + 1 + k - 1]
  BY <1>2, <1>3, SubSeqProperties
<1>5. Slice(s, a, b) = x
  BY DEF Slice
<1> HIDE DEF x
<1> QED BY <1>2, <1>4, <1>5

LEMMA FirstSlice ==
  ASSUME NEW s \in Seq(Octet), NEW u \in Seq(Octet), Begins(s, u)
  PROVE  Slice(s, 0, Len(u)) = u
<1>1. Len(u) \in Nat /\ Len(s) \in Nat /\ Len(u) <= Len(s)
  BY LenProperties DEF Begins
<1>2. /\ Slice(s, 0, Len(u)) \in Seq(Octet) /\ Len(Slice(s, 0, Len(u))) = Len(u)
      /\ \A k \in 1 .. Len(u) : Slice(s, 0, Len(u))[k] = s[k]
  <2> DEFINE n == Len(u)
             x == Slice(s, 0, n)
  <2>1. n \in Nat /\ 0 \in Nat /\ 0 <= n /\ n <= Len(s) /\ n - 0 = n /\ \A k \in 1 .. n : 0 + k = k
    BY <1>1
  <2> HIDE DEF n
  <2>2. x \in Seq(Octet) /\ Len(x) = n - 0 /\ \A k \in 1 .. n - 0 : x[k] = s[0 + k]
    BY <2>1, SliceElements, Zenon
  <2> HIDE DEF x
  <2>3. x \in Seq(Octet) /\ Len(x) = n /\ \A k \in 1 .. n : x[k] = s[k]
    BY <2>1, <2>2
  <2> QED BY <2>3, Zenon DEF x, n
<1>3. \A k \in 1 .. Len(u) : Slice(s, 0, Len(u))[k] = u[k]
  BY <1>2 DEF Begins
<1> HIDE DEF Slice
<1> QED BY <1>2, <1>3, SeqEqual

LEMMA FirstSliceAgain ==
  ASSUME NEW s \in Seq(Octet), NEW b \in 0 .. Len(s)
  PROVE  Slice(s, 0, b) \in Seq(Octet) /\ Len(Slice(s, 0, b)) = b /\ Begins(s, Slice(s, 0, b))
<1> DEFINE x == Slice(s, 0, b)
<1>1. b \in Nat /\ b <= Len(s) /\ b - 0 = b /\ 0 <= b /\ \A k \in 1 .. b : 0 + k = k
  BY LenProperties
<1>2. x \in Seq(Octet) /\ Len(x) = b - 0 /\ \A k \in 1 .. b - 0 : x[k] = s[0 + k]
  BY <1>1, SliceElements
<1> HIDE DEF x
<1>3. x \in Seq(Octet) /\ Len(x) = b /\ \A k \in 1 .. b : s[k] = x[k]
  BY <1>1, <1>2
<1>4. Begins(s, x)
  BY <1>1, <1>3 DEF Begins
<1> QED BY <1>3, <1>4 DEF x

\* Fields p1 .. p8, which end at e1 .. e8.
Chain(p1, p2, p3, p4, p5, p6, p7, p8) ==
    Cat(Cat(Cat(Cat(Cat(Cat(Cat(p1, p2), p3), p4), p5), p6), p7), p8)
AreFields(p1, p2, p3, p4, p5, p6, p7, p8) ==
    /\ p1 \in Seq(Octet) /\ p2 \in Seq(Octet) /\ p3 \in Seq(Octet) /\ p4 \in Seq(Octet)
    /\ p5 \in Seq(Octet) /\ p6 \in Seq(Octet) /\ p7 \in Seq(Octet) /\ p8 \in Seq(Octet)
AreEnds8(e1, e2, e3, e4, e5, e6, e7, e8, p1, p2, p3, p4, p5, p6, p7, p8) ==
    /\ e1 = Len(p1) /\ e2 = e1 + Len(p2) /\ e3 = e2 + Len(p3) /\ e4 = e3 + Len(p4)
    /\ e5 = e4 + Len(p5) /\ e6 = e5 + Len(p6) /\ e7 = e6 + Len(p7) /\ e8 = e7 + Len(p8)

\* v goes from a to b, behind u.
Behind(u, a, v, b) == u \in Seq(Octet) /\ v \in Seq(Octet) /\ Len(u) = a /\ b = a + Len(v)

LEMMA PartAt ==
  \A s, u, v, a, b :
     s \in Seq(Octet) /\ Behind(u, a, v, b) /\ Begins(s, Cat(u, v)) => Begins(s, u) /\ Slice(s, a, b) = v
<1> SUFFICES ASSUME NEW s \in Seq(Octet), NEW u, NEW v, NEW a, NEW b, Behind(u, a, v, b), Begins(s, Cat(u, v))
             PROVE  Begins(s, u) /\ Slice(s, a, b) = v
  OBVIOUS
<1>1. u \in Seq(Octet) /\ v \in Seq(Octet) /\ Len(u) = a /\ b = a + Len(v)
  BY DEF Behind
<1> QED BY <1>1, PartSlice

\* Where the fields of a chain are.
LEMMA ChainRead ==
  ASSUME NEW p1, NEW p2, NEW p3, NEW p4, NEW p5, NEW p6, NEW p7, NEW p8,
         AreFields(p1, p2, p3, p4, p5, p6, p7, p8),
         NEW e1, NEW e2, NEW e3, NEW e4, NEW e5, NEW e6, NEW e7, NEW e8,
         AreEnds8(e1, e2, e3, e4, e5, e6, e7, e8, p1, p2, p3, p4, p5, p6, p7, p8),
         NEW s \in Seq(Octet), Begins(s, Chain(p1, p2, p3, p4, p5, p6, p7, p8))
  PROVE  /\ Slice(s, 0, e1) = p1 /\ Slice(s, e1, e2) = p2 /\ Slice(s, e2, e3) = p3
         /\ Slice(s, e3, e4) = p4 /\ Slice(s, e4, e5) = p5 /\ Slice(s, e5, e6) = p6
         /\ Slice(s, e6, e7) = p7 /\ Slice(s, e7, e8) = p8 /\ e8 <= Len(s)
<1>p. /\ p1 \in Seq(Octet) /\ p2 \in Seq(Octet) /\ p3 \in Seq(Octet) /\ p4 \in Seq(Octet)
      /\ p5 \in Seq(Octet) /\ p6 \in Seq(Octet) /\ p7 \in Seq(Octet) /\ p8 \in Seq(Octet)
  BY DEF AreFields
<1>e. /\ e1 = Len(p1) /\ e2 = e1 + Len(p2) /\ e3 = e2 + Len(p3) /\ e4 = e3 + Len(p4)
      /\ e5 = e4 + Len(p5) /\ e6 = e5 + Len(p6) /\ e7 = e6 + Len(p7) /\ e8 = e7 + Len(p8)
  BY DEF AreEnds8
<1> DEFINE w2 == Cat(p1, p2)
           w3 == Cat(w2, p3)
           w4 == Cat(w3, p4)
           w5 == Cat(w4, p5)
           w6 == Cat(w5, p6)
           w7 == Cat(w6, p7)
           w8 == Cat(w7, p8)
<1>c. Chain(p1, p2, p3, p4, p5, p6, p7, p8) = w8
  BY Zenon DEF Chain
<1>2. w2 \in Seq(Octet) /\ Len(w2) = e2
  BY <1>p, <1>e, CatOctets
<1> HIDE DEF w2
<1>3. w3 \in Seq(Octet) /\ Len(w3) = e3
  BY <1>p, <1>e, <1>2, CatOctets
<1> HIDE DEF w3
<1>4. w4 \in Seq(Octet) /\ Len(w4) = e4
  BY <1>p, <1>e, <1>3, CatOctets
<1> HIDE DEF w4
<1>5. w5 \in Seq(Octet) /\ Len(w5) = e5
  BY <1>p, <1>e, <1>4, CatOctets
<1> HIDE DEF w5
<1>6. w6 \in Seq(Octet) /\ Len(w6) = e6
  BY <1>p, <1>e, <1>5, CatOctets
<1> HIDE DEF w6
<1>7. w7 \in Seq(Octet) /\ Len(w7) = e7
  BY <1>p, <1>e, <1>6, CatOctets
<1> HIDE DEF w7
<1>8. w8 \in Seq(Octet) /\ Len(w8) = e8
  BY <1>p, <1>e, <1>7, CatOctets
<1> HIDE DEF w8
<1>b. Begins(s, w8)
  BY <1>c, Zenon
<1>9. Begins(s, w7) /\ Slice(s, e7, e8) = p8
  <2>1. Begins(s, Cat(w7, p8))
    BY <1>b DEF w8
  <2>2. Behind(w7, e7, p8, e8)
    BY <1>p, <1>e, <1>7 DEF Behind
  <2> QED BY <2>1, <2>2, PartAt, Zenon
<1>10. Begins(s, w6) /\ Slice(s, e6, e7) = p7
  <2>1. Begins(s, Cat(w6, p7))
    BY <1>9 DEF w7
  <2>2. Behind(w6, e6, p7, e7)
    BY <1>p, <1>e, <1>6 DEF Behind
  <2> QED BY <2>1, <2>2, PartAt, Zenon
<1>11. Begins(s, w5) /\ Slice(s, e5, e6) = p6
  <2>1. Begins(s, Cat(w5, p6))
    BY <1>10 DEF w6
  <2>2. Behind(w5, e5, p6, e6)
    BY <1>p, <1>e, <1>5 DEF Behind
  <2> QED BY <2>1, <2>2, PartAt, Zenon
<1>12. Begins(s, w4) /\ Slice(s, e4, e5) = p5
  <2>1. Begins(s, Cat(w4, p5))
    BY <1>11 DEF w5
  <2>2. Behind(w4, e4, p5, e5)
    BY <1>p, <1>e, <1>4 DEF Behind
  <2> QED BY <2>1, <2>2, PartAt, Zenon
<1>13. Begins(s, w3) /\ Slice(s, e3, e4) = p4
  <2>1. Begins(s, Cat(w3, p4))
    BY <1>12 DEF w4
  <2>2. Behind(w3, e3, p4, e4)
    BY <1>p, <1>e, <1>3 DEF Behind
  <2> QED BY <2>1, <2>2, PartAt, Zenon
<1>14. Begins(s, w2) /\ Slice(s, e2, e3) = p3
  <2>1. Begins(s, Cat(w2, p3))
    BY <1>13 DEF w3
  <2>2. Behind(w2, e2, p3, e3)
    BY <1>p, <1>e, <1>2 DEF Behind
  <2> QED BY <2>1, <2>2, PartAt, Zenon
<1>15. Begins(s, p1) /\ Slice(s, e1, e2) = p2
  <2>1. Begins(s, Cat(p1, p2))
    BY <1>14 DEF w2
  <2>2. Behind(p1, e1, p2, e2)
    BY <1>p, <1>e DEF Behind
  <2> QED BY <2>1, <2>2, PartAt, Zenon
<1>16. Slice(s, 0, e1) = p1
  BY <1>e, <1>p, <1>15, FirstSlice, Zenon
<1>17. e8 <= Len(s)
  BY <1>8, <1>b DEF Begins
<1> QED BY <1>9, <1>10, <1>11, <1>12, <1>13, <1>14, <1>15, <1>16, <1>17

LEMMA ChainOctets ==
  ASSUME NEW p1, NEW p2, NEW p3, NEW p4, NEW p5, NEW p6, NEW p7, NEW p8,
         AreFields(p1, p2, p3, p4, p5, p6, p7, p8)
  PROVE  /\ Chain(p1, p2, p3, p4, p5, p6, p7, p8) \in Seq(Octet)
         /\ Len(Chain(p1, p2, p3, p4, p5, p6, p7, p8)) =
              Len(p1) + Len(p2) + Len(p3) + Len(p4) + Len(p5) + Len(p6) + Len(p7) + Len(p8)
<1>p. /\ p1 \in Seq(Octet) /\ p2 \in Seq(Octet) /\ p3 \in Seq(Octet) /\ p4 \in Seq(Octet)
      /\ p5 \in Seq(Octet) /\ p6 \in Seq(Octet) /\ p7 \in Seq(Octet) /\ p8 \in Seq(Octet)
  BY DEF AreFields
<1> DEFINE w2 == Cat(p1, p2)
           w3 == Cat(w2, p3)
           w4 == Cat(w3, p4)
           w5 == Cat(w4, p5)
           w6 == Cat(w5, p6)
           w7 == Cat(w6, p7)
           w8 == Cat(w7, p8)
<1>c. Chain(p1, p2, p3, p4, p5, p6, p7, p8) = w8
  BY Zenon DEF Chain
<1>2. w2 \in Seq(Octet) /\ Len(w2) = Len(p1) + Len(p2)
  BY <1>p, CatOctets
<1> HIDE DEF w2
<1>3. w3 \in Seq(Octet) /\ Len(w3) = Len(p1) + Len(p2) + Len(p3)
  BY <1>p, <1>2, CatOctets
<1> HIDE DEF w3
<1>4. w4 \in Seq(Octet) /\ Len(w4) = Len(p1) + Len(p2) + Len(p3) + Len(p4)
  BY <1>p, <1>3, CatOctets
<1> HIDE DEF w4
<1>5. w5 \in Seq(Octet) /\ Len(w5) = Len(p1) + Len(p2) + Len(p3) + Len(p4) + Len(p5)
  BY <1>p, <1>4, CatOctets
<1> HIDE DEF w5
<1>6. w6 \in Seq(Octet) /\ Len(w6) = Len(p1) + Len(p2) + Len(p3) + Len(p4) + Len(p5) + Len(p6)
  BY <1>p, <1>5, CatOctets
<1> HIDE DEF w6
<1>7. w7 \in Seq(Octet) /\ Len(w7) = Len(p1) + Len(p2) + Len(p3) + Len(p4) + Len(p5) + Len(p6) + Len(p7)
  BY <1>p, <1>6, CatOctets
<1> HIDE DEF w7
<1>8. w8 \in Seq(Octet) /\ Len(w8) = Len(p1) + Len(p2) + Len(p3) + Len(p4) + Len(p5) + Len(p6) + Len(p7) + Len(p8)
  BY <1>p, <1>7, CatOctets
<1> HIDE DEF w8
<1> QED BY <1>8, <1>c

\* A sequence begins with the chain of its slices.
AreSlices(p1, p2, p3, p4, p5, p6, p7, p8, e1, e2, e3, e4, e5, e6, e7, e8, s) ==
    /\ p1 = Slice(s, 0, e1) /\ p2 = Slice(s, e1, e2) /\ p3 = Slice(s, e2, e3) /\ p4 = Slice(s, e3, e4)
    /\ p5 = Slice(s, e4, e5) /\ p6 = Slice(s, e5, e6) /\ p7 = Slice(s, e6, e7) /\ p8 = Slice(s, e7, e8)

\* Ends in order, none of them beyond the end of s.
AreEnds(e1, e2, e3, e4, e5, e6, e7, e8, s) ==
    /\ e1 \in Nat /\ e2 \in Nat /\ e3 \in Nat /\ e4 \in Nat /\ e5 \in Nat /\ e6 \in Nat /\ e7 \in Nat /\ e8 \in Nat
    /\ e1 <= e2 /\ e2 <= e3 /\ e3 <= e4 /\ e4 <= e5 /\ e5 <= e6 /\ e6 <= e7 /\ e7 <= e8 /\ e8 <= Len(s)

LEMMA ChainAgain ==
  ASSUME NEW p1, NEW p2, NEW p3, NEW p4, NEW p5, NEW p6, NEW p7, NEW p8,
         NEW s \in Seq(Octet),
         NEW e1, NEW e2, NEW e3, NEW e4, NEW e5, NEW e6, NEW e7, NEW e8,
         AreEnds(e1, e2, e3, e4, e5, e6, e7, e8, s),
         AreSlices(p1, p2, p3, p4, p5, p6, p7, p8, e1, e2, e3, e4, e5, e6, e7, e8, s)
  PROVE  /\ Chain(p1, p2, p3, p4, p5, p6, p7, p8) \in Seq(Octet)
         /\ Len(Chain(p1, p2, p3, p4, p5, p6, p7, p8)) = e8
         /\ Begins(s, Chain(p1, p2, p3, p4, p5, p6, p7, p8))
<1>0. /\ Len(s) \in Nat
      /\ e1 \in 0 .. Len(s) /\ e2 \in e1 .. Len(s) /\ e3 \in e2 .. Len(s) /\ e4 \in e3 .. Len(s)
      /\ e5 \in e4 .. Len(s) /\ e6 \in e5 .. Len(s) /\ e7 \in e6 .. Len(s) /\ e8 \in e7 .. Len(s)
  BY LenProperties DEF AreEnds
<1>p. /\ p1 = Slice(s, 0, e1) /\ p2 = Slice(s, e1, e2) /\ p3 = Slice(s, e2, e3) /\ p4 = Slice(s, e3, e4)
      /\ p5 = Slice(s, e4, e5) /\ p6 = Slice(s, e5, e6) /\ p7 = Slice(s, e6, e7) /\ p8 = Slice(s, e7, e8)
  BY DEF AreSlices
<1> DEFINE w1 == p1
           w2 == Cat(w1, p2)
           w3 == Cat(w2, p3)
           w4 == Cat(w3, p4)
           w5 == Cat(w4, p5)
           w6 == Cat(w5, p6)
           w7 == Cat(w6, p7)
           w8 == Cat(w7, p8)
<1>c. Chain(p1, p2, p3, p4, p5, p6, p7, p8) = w8
  BY Zenon DEF Chain
<1>1. w1 \in Seq(Octet) /\ Len(w1) = e1 /\ Begins(s, w1)
  BY <1>0, <1>p, FirstSliceAgain, Zenon
<1> HIDE DEF w1
<1>2. w2 \in Seq(Octet) /\ Len(w2) = e2 /\ Begins(s, w2)
  <2>1. e2 \in e1 .. Len(s) /\ p2 = Slice(s, e1, e2)
    BY <1>0, <1>p
  <2> QED BY <1>1, <2>1, GrowSlice, SMTT(30)
<1> HIDE DEF w2
<1>3. w3 \in Seq(Octet) /\ Len(w3) = e3 /\ Begins(s, w3)
  <2>1. e3 \in e2 .. Len(s) /\ p3 = Slice(s, e2, e3)
    BY <1>0, <1>p
  <2> QED BY <1>2, <2>1, GrowSlice, SMTT(30)
<1> HIDE DEF w3
<1>4. w4 \in Seq(Octet) /\ Len(w4) = e4 /\ Begins(s, w4)
  <2>1. e4 \in e3 .. Len(s) /\ p4 = Slice(s, e3, e4)
    BY <1>0, <1>p
  <2> QED BY <1>3, <2>1, GrowSlice, SMTT(30)
<1> HIDE DEF w4
<1>5. w5 \in Seq(Octet) /\ Len(w5) = e5 /\ Begins(s, w5)
  <2>1. e5 \in e4 .. Len(s) /\ p5 = Slice(s, e4, e5)
    BY <1>0, <1>p
  <2> QED BY <1>4, <2>1, GrowSlice, SMTT(30)
<1> HIDE DEF w5
<1>6. w6 \in Seq(Octet) /\ Len(w6) = e6 /\ Begins(s, w6)
  <2>1. e6 \in e5 .. Len(s) /\ p6 = Slice(s, e5, e6)
    BY <1>0, <1>p
  <2> QED BY <1>5, <2>1, GrowSlice, SMTT(30)
<1> HIDE DEF w6
<1>7. w7 \in Seq(Octet) /\ Len(w7) = e7 /\ Begins(s, w7)
  <2>1. e7 \in e6 .. Len(s) /\ p7 = Slice(s, e6, e7)
    BY <1>0, <1>p
  <2> QED BY <1>6, <2>1, GrowSlice, SMTT(30)
<1> HIDE DEF w7
<1>8. w8 \in Seq(Octet) /\ Len(w8) = e8 /\ Begins(s, w8)
  <2>1. e8 \in e7 .. Len(s) /\ p8 = Slice(s, e7, e8)
    BY <1>0, <1>p
  <2> QED BY <1>7, <2>1, GrowSlice, SMTT(30)
<1> HIDE DEF w8
<1> QED BY <1>8, <1>c
-------------------------------------------------------------------------------
(* Numbers of two octets. *)

\* The provers write the numbers of a set of numbers out, if they see its end.
LEMMA IsU16 ==
  ASSUME NEW n \in Nat, n < 65536
  PROVE  n \in U16
<1> DEFINE m == 256 * 256 - 1
<1>1. m \in Nat /\ n <= m
  OBVIOUS
<1>2. U16 = 0 .. m
  BY DEF U16
<1> HIDE DEF m
<1>3. n \in 0 .. m
  BY <1>1
<1> QED BY <1>2, <1>3

LEMMA TwoOctets ==
  ASSUME NEW x \in Seq(Octet), Len(x) = 2
  PROVE  x = <<x[1], x[2]>> /\ x[1] \in Octet /\ x[2] \in Octet /\ SubSeq(x, 1, 2) = x
<1> DEFINE y == <<x[1], x[2]>>
           z == SubSeq(x, 1, 2)
<1>1. \A k \in 1 .. 2 : x[k] \in Octet
  BY ElementOfSeq
<1>2. y \in Seq(Octet) /\ Len(y) = 2 /\ y[1] = x[1] /\ y[2] = x[2]
  BY <1>1
<1>3. z \in Seq(Octet) /\ Len(z) = 2 /\ \A k \in 1 .. 2 : z[k] = x[k]
  BY <1>1, SubSeqProperties
<1>4. \A k \in 1 .. 2 : k = 1 \/ k = 2
  OBVIOUS
<1> HIDE DEF y, z
<1>5. x = y /\ x = z
  BY <1>2, <1>3, <1>4, SeqEqual
<1> QED BY <1>1, <1>5 DEF y, z

LEMMA NumberRead ==
  ASSUME NEW x \in Seq(Octet), Len(x) = 2
  PROVE  /\ Number(x) \in U16 /\ Nwk(x) = Number(x)
         /\ LowFirst(Number(x), 2) = x /\ NwkOctets(Nwk(x)) = x
<1> DEFINE a == x[1]
           b == x[2]
           n == Number(x)
           y == LowFirst(n, 2)
<1>1. x = <<a, b>> /\ a \in Octet /\ b \in Octet /\ SubSeq(x, 1, 2) = x
  BY TwoOctets
<1>0. \A o \in Octet : o \in Nat /\ o < 256
  BY DEF Octet
<1>2. n = a + 256 * b
  <2> HIDE DEF a, b
  <2>1. a \in Nat /\ b \in Nat
    BY <1>0, <1>1
  <2>2. Number(<<a, b>>) = a + 256 * b
    BY <2>1, NumberOfTwo
  <2> QED BY <1>1, <2>2
<1> HIDE DEF a, b, n
<1>a. a \in Nat /\ a < 256 /\ b \in Nat /\ b < 256
  BY <1>0, <1>1, Zenon
<1>3. n \in Nat /\ n < 256 * 256 /\ n \in U16
  <2> HIDE DEF a, b, n
  <2>1. n \in Nat /\ n < 65536
    BY <1>2, <1>a
  <2>2. n < 256 * 256
    BY <2>1
  <2>3. n \in U16
    BY <2>1, IsU16
  <2> QED BY <2>1, <2>2, <2>3
<1>4. y \in Seq(Octet) /\ Len(y) = 2 /\ n = y[1] + 256 * y[2]
  BY <1>3, LowTwo
<1> HIDE DEF y
<1>5. y[1] \in Octet /\ y[2] \in Octet
  BY <1>4, TwoOctets
<1>6. y[1] = a /\ y[2] = b
  <2> DEFINE c == y[1]
             d == y[2]
  <2>1. n = c + 256 * d
    BY <1>4
  <2>2. c \in Nat /\ c < 256 /\ d \in Nat /\ d < 256
    BY <1>0, <1>5
  <2> HIDE DEF c, d
  <2>3. c = a /\ d = b
    BY <1>2, <1>a, <2>1, <2>2
  <2> QED BY <2>3 DEF c, d
<1>7. y = <<y[1], y[2]>>
  BY <1>4, TwoOctets
<1>8. y = x
  BY <1>1, <1>6, <1>7
<1>9. Nwk(x) = n
  BY <1>1, Zenon DEF Nwk, n
<1>10. NwkOctets(Nwk(x)) = y
  BY <1>9, Zenon DEF NwkOctets, y
<1> QED BY <1>3, <1>8, <1>9, <1>10 DEF n, y

LEMMA NumberWritten ==
  ASSUME NEW n \in U16
  PROVE  /\ LowFirst(n, 2) \in Seq(Octet) /\ Len(LowFirst(n, 2)) = 2
         /\ Number(LowFirst(n, 2)) = n /\ Nwk(NwkOctets(n)) = n
<1> DEFINE x == LowFirst(n, 2)
<1>1. n \in Nat /\ n < 256 * 256
  <2> DEFINE m == 256 * 256 - 1
  <2>1. U16 = 0 .. m
    BY Zenon DEF U16
  <2>2. m \in Nat /\ m < 256 * 256
    OBVIOUS
  <2> HIDE DEF m
  <2> QED BY <2>1, <2>2
<1>2. x \in Seq(Octet) /\ Len(x) = 2 /\ n = x[1] + 256 * x[2]
  BY <1>1, LowTwo
<1>3. NwkOctets(n) = x
  BY Zenon DEF NwkOctets
<1> HIDE DEF x
<1>4. x = <<x[1], x[2]>> /\ x[1] \in Octet /\ x[2] \in Octet
  BY <1>2, TwoOctets
<1>5. Number(<<x[1], x[2]>>) = n
  <2> DEFINE a == x[1]
             b == x[2]
  <2>1. n = a + 256 * b
    BY <1>2
  <2>a. a \in Octet /\ b \in Octet
    BY <1>4
  <2> HIDE DEF a, b
  <2>b. a \in Nat /\ b \in Nat
    BY <2>a DEF Octet
  <2>2. Number(<<a, b>>) = a + 256 * b
    BY <2>b, NumberOfTwo
  <2> QED BY <2>1, <2>2 DEF a, b
<1>6. Nwk(x) = Number(x)
  BY <1>2, NumberRead
<1>7. Number(x) = n
  BY <1>4, <1>5, Zenon
<1>8. Nwk(NwkOctets(n)) = n
  BY <1>3, <1>6, <1>7, Zenon
<1> QED BY <1>2, <1>7, <1>8 DEF x

LEMMA HighTwo ==
  ASSUME NEW n \in U16
  PROVE  HighFirst(n, 2) \in Seq(Octet) /\ Len(HighFirst(n, 2)) = 2
<1> DEFINE x == LowFirst(n, 2)
<1>1. x \in Seq(Octet) /\ Len(x) = 2
  BY NumberWritten
<1> HIDE DEF x
<1>2. x[1] \in Octet /\ x[2] \in Octet
  BY <1>1, TwoOctets
<1>3. Reverse(x) = [i \in 1 .. 2 |-> x[(2 - i) + 1]]
  BY <1>1, Zenon DEF Reverse
<1>4. \A i \in 1 .. 2 : x[(2 - i) + 1] \in Octet
  BY <1>2
<1>5. Reverse(x) \in Seq(Octet) /\ Len(Reverse(x)) = 2
  BY <1>3, <1>4
<1> QED BY <1>5 DEF HighFirst, x
-------------------------------------------------------------------------------
(* The source route. *)

RelaysAt(s, m, n) == [i \in 1 .. n |-> Nwk(SubSeq(s, m + 1 + 2 * i, m + 2 + 2 * i))]

LEMMA RelayPlaces ==
  ASSUME NEW n \in Nat, NEW i \in 1 .. 2 * n
  PROVE  /\ (i + 1) \div 2 \in 1 .. n /\ i % 2 \in 0 .. 1 /\ 2 - (i % 2) \in 1 .. 2
         /\ 2 * ((i + 1) \div 2) - (i % 2) = i
  OBVIOUS

LEMMA RelayOctetsWritten ==
  ASSUME NEW r \in Seq(U16)
  PROVE  /\ RelayOctets(r) \in Seq(Octet) /\ Len(RelayOctets(r)) = 2 * Len(r)
         /\ \A i \in 1 .. 2 * Len(r) : RelayOctets(r)[i] = NwkOctets(r[(i + 1) \div 2])[2 - (i % 2)]
<1> DEFINE n == Len(r)
           F(i) == NwkOctets(r[(i + 1) \div 2])[2 - (i % 2)]
<1>1. n \in Nat /\ \A j \in 1 .. n : r[j] \in U16
  BY LenProperties, ElementOfSeq
<1>2. RelayOctets(r) = [i \in 1 .. 2 * n |-> F(i)]
  BY DEF RelayOctets
<1> HIDE DEF n
<1>3. ASSUME NEW i \in 1 .. 2 * n PROVE F(i) \in Octet
  <2> DEFINE j == (i + 1) \div 2
             k == 2 - (i % 2)
             x == NwkOctets(r[j])
  <2>1. j \in 1 .. n /\ k \in 1 .. 2
    BY <1>1, RelayPlaces
  <2>2. x \in Seq(Octet) /\ Len(x) = 2
    BY <1>1, <2>1, NumberWritten DEF NwkOctets
  <2> HIDE DEF j, k, x
  <2>3. x[k] \in Octet
    BY <2>1, <2>2, ElementOfSeq
  <2> QED BY <2>3 DEF x, j, k
<1> HIDE DEF F
<1>4. 2 * n \in Nat
  BY <1>1
<1>5. RelayOctets(r) \in Seq(Octet) /\ Len(RelayOctets(r)) = 2 * n
  BY <1>2, <1>3, <1>4
<1>6. \A i \in 1 .. 2 * n : RelayOctets(r)[i] = F(i)
  BY <1>2
<1> QED BY <1>5, <1>6, Zenon DEF n, F

LEMMA RelayAt ==
  ASSUME NEW s \in Seq(Octet), NEW m \in Nat, NEW n \in Nat, m + 2 + 2 * n <= Len(s), NEW j \in 1 .. n
  PROVE  /\ SubSeq(s, m + 1 + 2 * j, m + 2 + 2 * j) \in Seq(Octet)
         /\ Len(SubSeq(s, m + 1 + 2 * j, m + 2 + 2 * j)) = 2
         /\ \A k \in 1 .. 2 : SubSeq(s, m + 1 + 2 * j, m + 2 + 2 * j)[k] = s[m + 2 * j + k]
<1> DEFINE a == m + 2 * j
           b == a + 2
           x == Slice(s, a, b)
<1>1. a \in Nat /\ b \in Nat /\ a <= b /\ b <= Len(s) /\ b - a = 2
  BY LenProperties
<1>2. m + 1 + 2 * j = a + 1 /\ m + 2 + 2 * j = b
  OBVIOUS
<1>3. SubSeq(s, m + 1 + 2 * j, m + 2 + 2 * j) = x
  BY <1>2, Zenon DEF Slice
<1> HIDE DEF b
<1>4. x \in Seq(Octet) /\ Len(x) = b - a /\ \A k \in 1 .. b - a : x[k] = s[a + k]
  <2> HIDE DEF a
  <2> QED BY <1>1, SliceElements
<1> HIDE DEF x
<1>5. x \in Seq(Octet) /\ Len(x) = 2 /\ \A k \in 1 .. 2 : x[k] = s[m + 2 * j + k]
  BY <1>1, <1>4
<1> QED BY <1>3, <1>5

LEMMA RelaysRead ==
  ASSUME NEW s \in Seq(Octet), NEW m \in Nat, NEW n \in Nat, m + 2 + 2 * n <= Len(s)
  PROVE  /\ RelaysAt(s, m, n) \in Seq(U16) /\ Len(RelaysAt(s, m, n)) = n
         /\ RelayOctets(RelaysAt(s, m, n)) = Slice(s, m + 2, m + 2 + 2 * n)
<1> DEFINE X(j) == SubSeq(s, m + 1 + 2 * j, m + 2 + 2 * j)
           r == RelaysAt(s, m, n)
           o == RelayOctets(r)
           a == m + 2
           b == m + 2 + 2 * n
           c == Slice(s, a, b)
<1>1. ASSUME NEW j \in 1 .. n
      PROVE  Nwk(X(j)) \in U16 /\ NwkOctets(Nwk(X(j))) = X(j) /\ \A k \in 1 .. 2 : X(j)[k] = s[m + 2 * j + k]
  <2>1. X(j) \in Seq(Octet) /\ Len(X(j)) = 2 /\ \A k \in 1 .. 2 : X(j)[k] = s[m + 2 * j + k]
    BY RelayAt
  <2> HIDE DEF X
  <2> QED BY <2>1, NumberRead
<1>2. r = [j \in 1 .. n |-> Nwk(X(j))]
  BY DEF RelaysAt
<1> HIDE DEF X, r
<1>3. r \in Seq(U16) /\ Len(r) = n /\ \A j \in 1 .. n : r[j] = Nwk(X(j))
  BY <1>1, <1>2
<1>4. o \in Seq(Octet) /\ Len(o) = 2 * n /\ \A i \in 1 .. 2 * n : o[i] = NwkOctets(r[(i + 1) \div 2])[2 - (i % 2)]
  BY <1>3, RelayOctetsWritten
<1> HIDE DEF o
<1>5. c \in Seq(Octet) /\ Len(c) = 2 * n /\ \A i \in 1 .. 2 * n : c[i] = s[m + 2 + i]
  <2>1. a \in Nat /\ b \in Nat /\ a <= b /\ b <= Len(s) /\ b - a = 2 * n
    OBVIOUS
  <2> HIDE DEF a, b, c
  <2>2. c \in Seq(Octet) /\ Len(c) = b - a /\ \A k \in 1 .. b - a : c[k] = s[a + k]
    BY <2>1, SliceElements DEF c
  <2> QED BY <2>1, <2>2 DEF a
<1> HIDE DEF c
<1>6. ASSUME NEW i \in 1 .. 2 * n PROVE o[i] = c[i]
  <2> DEFINE j == (i + 1) \div 2
             k == 2 - (i % 2)
  <2>1. j \in 1 .. n /\ k \in 1 .. 2 /\ m + 2 * j + k = m + 2 + i
    <3>1. j \in 1 .. n /\ k \in 1 .. 2 /\ 2 * j - (i % 2) = i /\ i % 2 \in 0 .. 1
      BY RelayPlaces
    <3> QED BY <3>1
  <2>2. o[i] = NwkOctets(r[j])[k]
    BY <1>4
  <2> HIDE DEF j, k
  <2>3. NwkOctets(r[j]) = X(j) /\ X(j)[k] = s[m + 2 * j + k]
    BY <1>1, <1>3, <2>1
  <2> QED BY <1>5, <2>1, <2>2, <2>3
<1>7. o = c
  BY <1>4, <1>5, <1>6, SeqEqual
<1> QED BY <1>3, <1>7 DEF r, o, c

LEMMA RelaysWritten ==
  ASSUME NEW s \in Seq(Octet), NEW m \in Nat, NEW r \in Seq(U16), m + 2 + 2 * Len(r) <= Len(s),
         Slice(s, m + 2, m + 2 + 2 * Len(r)) = RelayOctets(r)
  PROVE  RelaysAt(s, m, Len(r)) = r
<1> DEFINE n == Len(r)
           X(j) == SubSeq(s, m + 1 + 2 * j, m + 2 + 2 * j)
           o == RelayOctets(r)
           a == m + 2
           b == m + 2 + 2 * n
           c == Slice(s, a, b)
<1>1. n \in Nat /\ \A j \in 1 .. n : r[j] \in U16
  BY LenProperties, ElementOfSeq
<1>2. /\ o \in Seq(Octet) /\ Len(o) = 2 * n
      /\ \A i \in 1 .. 2 * n : o[i] = NwkOctets(r[(i + 1) \div 2])[2 - (i % 2)]
  BY RelayOctetsWritten
<1>3. c = o /\ b <= Len(s)
  OBVIOUS
<1> HIDE DEF n, o
<1>4. \A i \in 1 .. 2 * n : c[i] = s[m + 2 + i]
  <2>1. a \in Nat /\ b \in Nat /\ a <= b /\ b <= Len(s) /\ b - a = 2 * n
    BY <1>1, <1>3
  <2> HIDE DEF a, b, c
  <2>2. c \in Seq(Octet) /\ Len(c) = b - a /\ \A k \in 1 .. b - a : c[k] = s[a + k]
    BY <2>1, SliceElements DEF c
  <2> QED BY <2>1, <2>2 DEF a
<1> HIDE DEF c
<1>5. ASSUME NEW j \in 1 .. n PROVE Nwk(X(j)) = r[j]
  <2> DEFINE y == NwkOctets(r[j])
             x == X(j)
  <2>1. y \in Seq(Octet) /\ Len(y) = 2 /\ Nwk(y) = r[j]
    BY <1>1, NumberWritten DEF NwkOctets
  <2>2. x \in Seq(Octet) /\ Len(x) = 2 /\ \A k \in 1 .. 2 : x[k] = s[m + 2 * j + k]
    BY <1>1, <1>3, RelayAt
  <2> HIDE DEF x, X
  <2>3. \A k \in 1 .. 2 : x[k] = y[k]
    <3> TAKE k \in 1 .. 2
    <3> DEFINE i == 2 * j - 2 + k
    <3>1. i \in 1 .. 2 * n /\ (i + 1) \div 2 = j /\ 2 - (i % 2) = k /\ m + 2 + i = m + 2 * j + k
      BY <1>1
    <3>2. o[i] = NwkOctets(r[(i + 1) \div 2])[2 - (i % 2)] /\ c[i] = s[m + 2 + i]
      <4> HIDE DEF i
      <4> QED BY <1>2, <1>4, <3>1
    <3> HIDE DEF i, y
    <3>3. o[i] = NwkOctets(r[j])[k] /\ c[i] = s[m + 2 * j + k]
      BY <3>1, <3>2
    <3> QED BY <1>3, <2>2, <3>3 DEF y
  <2> HIDE DEF y
  <2>4. x = y
    BY <2>1, <2>2, <2>3, SeqEqual
  <2> QED BY <2>1, <2>4 DEF x
<1>6. RelaysAt(s, m, n) = [j \in 1 .. n |-> Nwk(X(j))]
  BY DEF RelaysAt
<1> HIDE DEF X
<1>7. RelaysAt(s, m, n) \in Seq(U16) /\ Len(RelaysAt(s, m, n)) = n
      /\ \A j \in 1 .. n : RelaysAt(s, m, n)[j] = r[j]
  BY <1>1, <1>5, <1>6
<1> HIDE DEF RelaysAt
<1>8. RelaysAt(s, m, n) = r
  BY <1>7, SeqEqual DEF n
<1> QED BY <1>8 DEF n
-------------------------------------------------------------------------------
(* The network header. *)

LEMMA CatSplit ==
  ASSUME NEW u \in Seq(Octet), NEW v \in Seq(Octet), NEW x \in Seq(Octet), NEW y \in Seq(Octet),
         Len(u) = Len(x), Cat(u, v) = Cat(x, y)
  PROVE  u = x /\ v = y
<1> DEFINE m == Len(u)
           n == Len(v)
<1>0. m \in Nat /\ n \in Nat /\ Len(y) \in Nat
  BY LenProperties
<1>1. /\ Len(Cat(u, v)) = m + n /\ (\A k \in 1 .. m : Cat(u, v)[k] = u[k])
      /\ \A k \in 1 .. n : Cat(u, v)[m + k] = v[k]
  BY CatOctets
<1>2. /\ Len(Cat(u, v)) = m + Len(y) /\ (\A k \in 1 .. m : Cat(u, v)[k] = x[k])
      /\ \A k \in 1 .. Len(y) : Cat(u, v)[m + k] = y[k]
  <2>1. /\ Len(Cat(x, y)) = Len(x) + Len(y) /\ (\A k \in 1 .. Len(x) : Cat(x, y)[k] = x[k])
        /\ \A k \in 1 .. Len(y) : Cat(x, y)[Len(x) + k] = y[k]
    BY CatOctets
  <2> QED BY <2>1, Zenon
<1>3. u = x
  BY <1>1, <1>2, SeqEqual
<1>4. Len(y) = n
  BY <1>0, <1>1, <1>2
<1>5. v = y
  BY <1>1, <1>2, <1>4, SeqEqual
<1> QED BY <1>3, <1>5

LEMMA SliceJoin ==
  ASSUME NEW s \in Seq(Octet), NEW a \in Nat, NEW b \in Nat, NEW c \in Nat, a <= b, b <= c, c <= Len(s)
  PROVE  Cat(Slice(s, a, b), Slice(s, b, c)) = Slice(s, a, c)
<1> DEFINE u == Slice(s, a, b)
           v == Slice(s, b, c)
           w == Slice(s, a, c)
           z == Cat(u, v)
<1>0. Len(s) \in Nat /\ b <= Len(s) /\ a <= c
  <2>1. Len(s) \in Nat
    BY LenProperties
  <2> QED BY <2>1
<1>1. u \in Seq(Octet) /\ Len(u) = b - a /\ \A k \in 1 .. b - a : u[k] = s[a + k]
  BY <1>0, SliceElements
<1>2. v \in Seq(Octet) /\ Len(v) = c - b /\ \A k \in 1 .. c - b : v[k] = s[b + k]
  BY <1>0, SliceElements
<1>3. w \in Seq(Octet) /\ Len(w) = c - a /\ \A k \in 1 .. c - a : w[k] = s[a + k]
  BY <1>0, SliceElements
<1> HIDE DEF u, v, w
<1>4. /\ z \in Seq(Octet) /\ Len(z) = Len(u) + Len(v) /\ (\A k \in 1 .. Len(u) : z[k] = u[k])
      /\ \A k \in 1 .. Len(v) : z[Len(u) + k] = v[k]
  BY <1>1, <1>2, CatOctets
<1> HIDE DEF z
<1>5. Len(z) = c - a
  BY <1>1, <1>2, <1>4
<1>6. ASSUME NEW k \in 1 .. c - a PROVE z[k] = w[k]
  <2>1. CASE k \in 1 .. b - a
    BY <1>1, <1>3, <1>4, <2>1
  <2>2. CASE k \notin 1 .. b - a
    <3> DEFINE j == k - (b - a)
    <3>1. j \in 1 .. c - b /\ (b - a) + j = k /\ b + j = a + k
      BY <2>2
    <3> HIDE DEF j
    <3>2. z[(b - a) + j] = v[j] /\ v[j] = s[b + j]
      BY <1>1, <1>2, <1>4, <3>1
    <3> QED BY <1>3, <3>1, <3>2
  <2> QED BY <2>1, <2>2
<1>7. z = w
  BY <1>3, <1>4, <1>5, <1>6, SeqEqual
<1> QED BY <1>7 DEF z, w, u, v

LEMMA OctetNumber == \A o \in Octet : o \in Nat /\ o < 256
  BY DEF Octet

\* Two octets.
LEMMA OctetPair ==
  ASSUME NEW a \in Octet, NEW b \in Octet
  PROVE  <<a, b>> \in Seq(Octet) /\ Len(<<a, b>>) = 2 /\ <<a, b>>[1] = a /\ <<a, b>>[2] = b
  OBVIOUS

LEMMA PairSlice ==
  ASSUME NEW s \in Seq(Octet), NEW a \in Nat, NEW b, b = a + 2, b <= Len(s)
  PROVE  /\ Slice(s, a, b) \in Seq(Octet) /\ Len(Slice(s, a, b)) = 2
         /\ Slice(s, a, b) = <<s[a + 1], s[a + 2]>> /\ s[a + 1] \in Octet /\ s[a + 2] \in Octet
<1> DEFINE x == Slice(s, a, b)
<1>1. b \in Nat /\ a <= b /\ b - a = 2
  OBVIOUS
<1>2. x \in Seq(Octet) /\ Len(x) = b - a /\ \A k \in 1 .. b - a : x[k] = s[a + k]
  BY <1>1, SliceElements
<1> HIDE DEF x
<1>3. x \in Seq(Octet) /\ Len(x) = 2 /\ x[1] = s[a + 1] /\ x[2] = s[a + 2]
  BY <1>1, <1>2
<1>4. x = <<x[1], x[2]>> /\ x[1] \in Octet /\ x[2] \in Octet
  BY <1>3, TwoOctets
<1> QED BY <1>3, <1>4 DEF x

\* A source route is read to what is written to the same octets.
LEMMA RouteRead ==
  ASSUME NEW s \in Seq(Octet), NEW m \in Nat, m + 2 <= Len(s), m + 2 + 2 * s[m + 1] <= Len(s)
  PROVE  /\ s[m + 1] \in Octet /\ s[m + 2] \in Octet
         /\ RelaysAt(s, m, s[m + 1]) \in Seq(U16) /\ Len(RelaysAt(s, m, s[m + 1])) = s[m + 1]
         /\ WriteRoute([index |-> s[m + 2], relays |-> RelaysAt(s, m, s[m + 1])]) =
              Slice(s, m, m + 2 + 2 * s[m + 1])
<1> DEFINE n == s[m + 1]
           r == RelaysAt(s, m, n)
           a == m + 2
           b == m + 2 + 2 * n
           w == WriteRoute([index |-> s[m + 2], relays |-> r])
<1>0. a \in Nat /\ m <= a /\ Len(s) \in Nat /\ a <= Len(s) /\ b <= Len(s)
  BY LenProperties
<1>1. Slice(s, m, a) = <<n, s[m + 2]>> /\ n \in Octet /\ s[m + 2] \in Octet
  BY <1>0, PairSlice
<1> HIDE DEF n
<1>2. n \in Nat
  BY <1>1 DEF Octet
<1>3. r \in Seq(U16) /\ Len(r) = n /\ RelayOctets(r) = Slice(s, a, b)
  BY <1>0, <1>2, RelaysRead
<1> HIDE DEF r
<1>4. w = Cat(<<n, s[m + 2]>>, RelayOctets(r))
  BY <1>3, Zenon DEF WriteRoute, Cat
<1>5. b \in Nat /\ a <= b
  BY <1>0, <1>2
<1> HIDE DEF w, a, b
<1>6. Cat(Slice(s, m, a), Slice(s, a, b)) = Slice(s, m, b)
  BY <1>0, <1>5, SliceJoin
<1>7. w = Slice(s, m, b)
  BY <1>1, <1>3, <1>4, <1>6
<1> QED BY <1>1, <1>3, <1>7 DEF n, r, w, b

IsRoute(r) == r \in [index : Octet, relays : Seq(U16)] /\ Len(r.relays) \in Octet

LEMMA RouteOctets ==
  ASSUME NEW r, IsRoute(r)
  PROVE  /\ WriteRoute(r) = Cat(<<Len(r.relays), r.index>>, RelayOctets(r.relays))
         /\ WriteRoute(r) \in Seq(Octet) /\ Len(WriteRoute(r)) = 2 + 2 * Len(r.relays)
<1> DEFINE p == <<Len(r.relays), r.index>>
           q == RelayOctets(r.relays)
<1>1. Len(r.relays) \in Octet /\ r.index \in Octet /\ r.relays \in Seq(U16)
  BY DEF IsRoute
<1>2. p \in Seq(Octet) /\ Len(p) = 2
  BY <1>1, OctetPair
<1>3. q \in Seq(Octet) /\ Len(q) = 2 * Len(r.relays)
  BY <1>1, RelayOctetsWritten
<1>4. WriteRoute(r) = Cat(p, q)
  BY Zenon DEF WriteRoute, Cat
<1> HIDE DEF p, q
<1>5. Cat(p, q) \in Seq(Octet) /\ Len(Cat(p, q)) = Len(p) + Len(q)
  BY <1>2, <1>3, CatOctets
<1> QED BY <1>2, <1>3, <1>4, <1>5 DEF p, q

LEMMA RouteWritten ==
  ASSUME NEW s \in Seq(Octet), NEW m \in Nat, NEW r, IsRoute(r), NEW b, b = m + Len(WriteRoute(r)), b <= Len(s),
         Slice(s, m, b) = WriteRoute(r)
  PROVE  /\ m + 2 <= Len(s) /\ s[m + 1] = Len(r.relays) /\ b = m + 2 + 2 * s[m + 1]
         /\ [index |-> s[m + 2], relays |-> RelaysAt(s, m, s[m + 1])] = r
<1> DEFINE n == Len(r.relays)
           p == <<n, r.index>>
           q == RelayOctets(r.relays)
           a == m + 2
<1>1. n \in Octet /\ r.index \in Octet /\ r.relays \in Seq(U16) /\ r = [index |-> r.index, relays |-> r.relays]
  BY DEF IsRoute
<1>2. WriteRoute(r) = Cat(p, q) /\ Len(WriteRoute(r)) = 2 + 2 * n
  BY RouteOctets
<1>3. p \in Seq(Octet) /\ Len(p) = 2 /\ p[1] = n /\ p[2] = r.index
  BY <1>1, OctetPair
<1>4. q \in Seq(Octet)
  BY <1>1, RelayOctetsWritten
<1> HIDE DEF p, q, n
<1>5. n \in Nat /\ a \in Nat /\ b \in Nat /\ m <= a /\ a <= b /\ b = m + 2 + 2 * n /\ Len(s) \in Nat /\ a <= Len(s)
  <2>1. n \in Nat
    BY <1>1, OctetNumber
  <2> QED BY <1>2, <2>1, LenProperties
<1>6. Slice(s, m, a) \in Seq(Octet) /\ Len(Slice(s, m, a)) = 2 /\ Slice(s, m, a) = <<s[m + 1], s[m + 2]>>
  BY <1>5, PairSlice
<1>7. Slice(s, a, b) \in Seq(Octet)
  <2> HIDE DEF a
  <2> QED BY <1>5, SliceElements
<1>8. Cat(Slice(s, m, a), Slice(s, a, b)) = Cat(p, q)
  <2>1. Cat(Slice(s, m, a), Slice(s, a, b)) = Slice(s, m, b)
    <3> HIDE DEF a
    <3> QED BY <1>5, SliceJoin
  <2> QED BY <1>2, <2>1
<1>9. Slice(s, m, a) = p /\ Slice(s, a, b) = q
  <2> HIDE DEF a
  <2> QED BY <1>3, <1>4, <1>6, <1>7, <1>8, CatSplit
<1>10. s[m + 1] = n /\ s[m + 2] = r.index
  <2>1. <<s[m + 1], s[m + 2]>>[1] = s[m + 1] /\ <<s[m + 1], s[m + 2]>>[2] = s[m + 2]
    OBVIOUS
  <2>2. p = <<s[m + 1], s[m + 2]>>
    BY <1>6, <1>9
  <2> QED BY <1>3, <2>1, <2>2, Zenon
<1>11. RelaysAt(s, m, n) = r.relays
  <2>1. Slice(s, m + 2, m + 2 + 2 * Len(r.relays)) = RelayOctets(r.relays)
    BY <1>5, <1>9, Zenon DEF n, q, a
  <2>2. m + 2 + 2 * Len(r.relays) <= Len(s)
    BY <1>5 DEF n
  <2> QED BY <1>1, <2>1, <2>2, RelaysWritten DEF n
<1>12. [index |-> s[m + 2], relays |-> RelaysAt(s, m, s[m + 1])] = r
  BY <1>1, <1>10, <1>11, Zenon
<1> QED BY <1>5, <1>10, <1>12 DEF n, a
-------------------------------------------------------------------------------
(* The network header, field by field. *)

RouteField(h) == IF IsPresent(h.sourceRoute) THEN WriteRoute(h.sourceRoute[1]) ELSE <<>>

NwkChain(h) ==
    Chain(WriteNwkControl(h.control), NwkOctets(h.destination), NwkOctets(h.source), <<h.radius, h.sequence>>,
          h.destinationIeee, h.sourceIeee, h.multicastControl, RouteField(h))

LEMMA NwkIsChain == \A h : WriteNwk(h) = NwkChain(h)
  BY Zenon DEF WriteNwk, NwkChain, Chain, Cat, RouteField

LEMMA EmptySlice ==
  ASSUME NEW s \in Seq(Octet), NEW a \in Nat, a <= Len(s)
  PROVE  Slice(s, a, a) = <<>>
<1>1. Len(s) \in Nat /\ a - a = 0 /\ a <= a
  BY LenProperties
<1>2. Slice(s, a, a) \in Seq(Octet) /\ Len(Slice(s, a, a)) = 0
  BY <1>1, SliceElements
<1> HIDE DEF Slice
<1> QED BY <1>2, EmptySeq

\* What a header that was read has to do with the octets it was read from.
LEMMA NwkSlices ==
  ASSUME NEW s \in Seq(Octet), NEW l, NwkOutcome(l, s) = "read"
  PROVE  /\ Len(s) >= 8 /\ NwkKnown(l, ReadNwkControl(s)) /\ ReadNwkControl(s) \in NwkControls
         /\ WriteNwkControl(ReadNwkControl(s)) = Slice(s, 0, 2)
         /\ EndOfIeee(ReadNwkControl(s)) \in Nat
         /\ EndOfMulticast(ReadNwkControl(s)) \in Nat /\ NwkLength(s) \in Nat
         /\ EndOfMulticast(ReadNwkControl(s)) <= NwkLength(s) /\ NwkLength(s) <= Len(s)
         /\ (ReadNwkControl(s).sourceRoute = 0 => NwkLength(s) = EndOfMulticast(ReadNwkControl(s)))
         /\ (ReadNwkControl(s).sourceRoute # 0 =>
               /\ EndOfMulticast(ReadNwkControl(s)) + 2 <= Len(s)
               /\ NwkLength(s) = EndOfMulticast(ReadNwkControl(s)) + 2 + 2 * s[EndOfMulticast(ReadNwkControl(s)) + 1])
<1> DEFINE c == ReadNwkControl(s)
           m == EndOfMulticast(c)
<1>0. Len(s) \in Nat
  BY LenProperties
<1>1. Len(s) >= 8 /\ NwkKnown(l, c) /\ ~(Len(s) < NwkLength(s))
  <2> HIDE DEF c
  <2>1. Len(s) >= 8 \/ Len(s) < 8
    BY <1>0
  <2>2. ~(Len(s) >= 8 /\ Len(s) < 8)
    BY <1>0
  <2> QED BY <2>1, <2>2, SMT DEF NwkOutcome, c
<1>2. s[1] \in Octet /\ s[2] \in Octet /\ Slice(s, 0, 2) = <<s[1], s[2]>>
  <2>1. 0 \in Nat /\ 2 = 0 + 2 /\ 2 <= Len(s) /\ 0 + 1 = 1 /\ 0 + 2 = 2
    BY <1>0, <1>1
  <2> QED BY <2>1, PairSlice
<1>3. c \in NwkControls /\ WriteNwkControl(c) = <<s[1], s[2]>>
  BY <1>2, NwkControlRead
<1> HIDE DEF c
<1>4. c.destination \in 0 .. 1 /\ c.extended \in 0 .. 1 /\ c.multicast \in 0 .. 1
  BY <1>3 DEF NwkControls
<1>5. EndOfIeee(c) \in Nat /\ m \in Nat
  BY <1>4 DEF EndOfIeee, EndOfMulticast, EuiLength
<1>6. NwkLength(s) = IF c.sourceRoute = 0 THEN m ELSE m + 2 + (IF Len(s) > m THEN 2 * s[m + 1] ELSE 0)
  BY Zenon DEF NwkLength, c
<1> HIDE DEF m
<1>7. CASE c.sourceRoute = 0
  BY <1>0, <1>1, <1>2, <1>3, <1>5, <1>6, <1>7 DEF c, m
<1>8. CASE c.sourceRoute # 0
  <2>1. Len(s) > m
    <3> SUFFICES ASSUME ~(Len(s) > m) PROVE FALSE
      OBVIOUS
    <3>1. NwkLength(s) = m + 2 + 0
      BY <1>6, <1>8
    <3> QED BY <1>0, <1>1, <1>5, <3>1
  <2>2. s[m + 1] \in Nat
    <3>1. m + 1 \in 1 .. Len(s)
      BY <1>0, <1>5, <2>1
    <3>2. s[m + 1] \in Octet
      BY <3>1, ElementOfSeq
    <3> QED BY <3>2, OctetNumber
  <2>3. NwkLength(s) = m + 2 + 2 * s[m + 1]
    BY <1>6, <1>8, <2>1
  <2>4. NwkLength(s) \in Nat /\ m <= NwkLength(s) /\ m + 2 <= NwkLength(s) /\ NwkLength(s) <= Len(s) /\ m + 2 <= Len(s)
    <3> DEFINE x == NwkLength(s)
               y == s[m + 1]
    <3>1. x = m + 2 + 2 * y /\ y \in Nat /\ ~(Len(s) < x)
      BY <1>1, <2>2, <2>3
    <3> HIDE DEF x, y
    <3>2. x \in Nat /\ m <= x /\ m + 2 <= x /\ x <= Len(s) /\ m + 2 <= Len(s)
      BY <1>0, <1>5, <3>1
    <3> QED BY <3>2 DEF x
  <2> QED BY <1>1, <1>2, <1>3, <1>5, <1>8, <2>3, <2>4 DEF c, m
<1> QED BY <1>7, <1>8

\* The header that is read has the fields its control announces, and is written again to
\* the octets it was read from.
LEMMA NwkForth ==
  ASSUME NEW s \in Seq(Octet), NEW l, NwkOutcome(l, s) = "read"
  PROVE  /\ IsNwk(ReadNwk(s)) /\ ReadNwk(s).control = ReadNwkControl(s) /\ NwkKnown(l, ReadNwk(s).control)
         /\ NwkLength(s) \in Nat /\ NwkLength(s) <= Len(s)
         /\ WriteNwk(ReadNwk(s)) \in Seq(Octet) /\ Len(WriteNwk(ReadNwk(s))) = NwkLength(s)
         /\ Begins(s, WriteNwk(ReadNwk(s)))
<1> DEFINE h == ReadNwk(s)
           c == ReadNwkControl(s)
           e5 == 8 + 8 * c.destination
           e6 == EndOfIeee(c)
           e7 == EndOfMulticast(c)
           e8 == NwkLength(s)
<1>0. Len(s) \in Nat
  BY LenProperties
<1>1. /\ Len(s) >= 8 /\ NwkKnown(l, c) /\ c \in NwkControls
      /\ WriteNwkControl(c) = Slice(s, 0, 2)
      /\ e6 \in Nat /\ e7 \in Nat /\ e8 \in Nat /\ e7 <= e8 /\ e8 <= Len(s)
      /\ (c.sourceRoute = 0 => e8 = e7)
      /\ (c.sourceRoute # 0 => e7 + 2 <= Len(s) /\ e8 = e7 + 2 + 2 * s[e7 + 1])
  BY NwkSlices
<1>2. h = [control |-> c, destination |-> Nwk(Slice(s, 2, 4)), source |-> Nwk(Slice(s, 4, 6)),
           radius |-> s[7], sequence |-> s[8],
           destinationIeee |-> IF c.destination = 1 THEN Slice(s, 8, 16) ELSE <<>>,
           sourceIeee |-> IF c.extended = 1 THEN Slice(s, e5, e5 + 8) ELSE <<>>,
           multicastControl |-> Slice(s, e6, e7),
           sourceRoute |-> IF c.sourceRoute = 0 THEN <<>>
                           ELSE <<[index |-> s[e7 + 2], relays |-> RelaysAt(s, e7, s[e7 + 1])]>>]
  BY DEF ReadNwk, Slice, RelaysAt, EuiLength, Absent
<1> HIDE DEF h, c
<1>3. /\ c.destination \in 0 .. 1 /\ c.extended \in 0 .. 1 /\ c.multicast \in 0 .. 1 /\ c.sourceRoute \in 0 .. 1
  BY <1>1 DEF NwkControls
<1>4. /\ e5 \in Nat /\ e6 = e5 + 8 * c.extended /\ e7 = e6 + c.multicast /\ 8 <= e5 /\ e5 <= e6 /\ e6 <= e7
  BY <1>3 DEF EndOfIeee, EndOfMulticast, EuiLength
<1> DEFINE p1 == WriteNwkControl(h.control)
           p2 == NwkOctets(h.destination)
           p3 == NwkOctets(h.source)
           p4 == <<h.radius, h.sequence>>
           p5 == h.destinationIeee
           p6 == h.sourceIeee
           p7 == h.multicastControl
           p8 == RouteField(h)
<1>5. h.control = c /\ p1 = Slice(s, 0, 2)
  BY <1>1, <1>2
<1>6. Nwk(Slice(s, 2, 4)) \in U16 /\ NwkOctets(Nwk(Slice(s, 2, 4))) = Slice(s, 2, 4)
  <2>1. 2 \in Nat /\ 4 = 2 + 2 /\ 4 <= Len(s)
    BY <1>0, <1>1
  <2>2. Slice(s, 2, 4) \in Seq(Octet) /\ Len(Slice(s, 2, 4)) = 2
    BY <2>1, PairSlice
  <2> QED BY <2>2, NumberRead
<1>7. Nwk(Slice(s, 4, 6)) \in U16 /\ NwkOctets(Nwk(Slice(s, 4, 6))) = Slice(s, 4, 6)
  <2>1. 4 \in Nat /\ 6 = 4 + 2 /\ 6 <= Len(s)
    BY <1>0, <1>1
  <2>2. Slice(s, 4, 6) \in Seq(Octet) /\ Len(Slice(s, 4, 6)) = 2
    BY <2>1, PairSlice
  <2> QED BY <2>2, NumberRead
<1>8. Slice(s, 6, 8) = <<s[7], s[8]>> /\ s[7] \in Octet /\ s[8] \in Octet
  <2>1. 6 \in Nat /\ 8 = 6 + 2 /\ 8 <= Len(s) /\ 6 + 1 = 7
    BY <1>0, <1>1
  <2> QED BY <2>1, PairSlice
<1>9. h.destination \in U16 /\ h.source \in U16 /\ h.radius \in Octet /\ h.sequence \in Octet
      /\ p2 = Slice(s, 2, 4) /\ p3 = Slice(s, 4, 6) /\ p4 = Slice(s, 6, 8)
  BY <1>2, <1>6, <1>7, <1>8, Zenon
<1>10. p5 = Slice(s, 8, e5) /\ p5 \in Seq(Octet) /\ Len(p5) = 8 * c.destination
  <2>1. CASE c.destination = 1
    <3>1. p5 = Slice(s, 8, 16)
      BY <1>2, <2>1
    <3>2. e5 = 16 /\ 8 \in Nat /\ 16 \in Nat /\ 8 <= 16 /\ 16 <= Len(s) /\ 16 - 8 = 8 * c.destination
      BY <1>0, <1>1, <1>4, <2>1
    <3>3. Slice(s, 8, 16) \in Seq(Octet) /\ Len(Slice(s, 8, 16)) = 16 - 8
      BY <3>2, SliceElements
    <3> QED BY <3>1, <3>2, <3>3
  <2>2. CASE c.destination = 0
    <3>1. p5 = <<>>
      BY <1>2, <2>2
    <3>2. e5 = 8
      BY <2>2
    <3>3. Slice(s, 8, 8) = <<>>
      BY <1>1, EmptySlice
    <3> QED BY <2>2, <3>1, <3>2, <3>3
  <2> QED BY <1>3, <2>1, <2>2
<1>11. p6 = Slice(s, e5, e6) /\ p6 \in Seq(Octet) /\ Len(p6) = 8 * c.extended
  <2> HIDE DEF e5, e6, e7, e8
  <2>1. CASE c.extended = 1
    <3>1. p6 = Slice(s, e5, e5 + 8)
      BY <1>2, <2>1
    <3>2. e6 = e5 + 8 /\ e5 \in Nat /\ e6 \in Nat /\ e5 <= e6 /\ e6 <= Len(s) /\ e6 - e5 = 8 * c.extended
      BY <1>0, <1>1, <1>4, <2>1
    <3>3. Slice(s, e5, e6) \in Seq(Octet) /\ Len(Slice(s, e5, e6)) = e6 - e5
      BY <3>2, SliceElements
    <3> QED BY <3>1, <3>2, <3>3
  <2>2. CASE c.extended = 0
    <3>1. p6 = <<>>
      BY <1>2, <2>2
    <3>2. e6 = e5 /\ e5 <= Len(s)
      BY <1>0, <1>1, <1>4, <2>2
    <3>3. Slice(s, e5, e5) = <<>>
      BY <1>4, <3>2, EmptySlice
    <3> QED BY <2>2, <3>1, <3>2, <3>3
  <2> QED BY <1>3, <2>1, <2>2
<1>12. p7 = Slice(s, e6, e7) /\ p7 \in Seq(Octet) /\ Len(p7) = c.multicast
  <2> HIDE DEF e5, e6, e7, e8
  <2>1. p7 = Slice(s, e6, e7)
    BY <1>2
  <2>2. e7 <= Len(s) /\ e7 - e6 = c.multicast
    BY <1>0, <1>1, <1>3, <1>4
  <2>3. Slice(s, e6, e7) \in Seq(Octet) /\ Len(Slice(s, e6, e7)) = e7 - e6
    BY <1>1, <1>4, <2>2, SliceElements
  <2> QED BY <2>1, <2>2, <2>3
<1>13. /\ p8 = Slice(s, e7, e8)
       /\ h.sourceRoute \in Seq([index : Octet, relays : Seq(U16)]) /\ Len(h.sourceRoute) = c.sourceRoute
       /\ IsPresent(h.sourceRoute) => Len(h.sourceRoute[1].relays) \in Octet
  <2> HIDE DEF e5, e6, e7, e8
  <2>1. CASE c.sourceRoute = 0
    <3>1. h.sourceRoute = <<>> /\ e8 = e7 /\ e7 <= Len(s)
      BY <1>0, <1>1, <1>2, <2>1
    <3>2. p8 = <<>>
      BY <3>1, Zenon DEF RouteField, IsPresent, Absent
    <3>3. Slice(s, e7, e7) = <<>>
      BY <1>1, <3>1, EmptySlice
    <3> QED BY <2>1, <3>1, <3>2, <3>3 DEF IsPresent, Absent
  <2>2. CASE c.sourceRoute = 1
    <3> DEFINE n == s[e7 + 1]
               r == [index |-> s[e7 + 2], relays |-> RelaysAt(s, e7, n)]
    <3>1. e7 + 2 <= Len(s) /\ e8 = e7 + 2 + 2 * n /\ h.sourceRoute = <<r>>
      BY <1>1, <1>2, <2>2
    <3>2. /\ n \in Octet /\ s[e7 + 2] \in Octet /\ RelaysAt(s, e7, n) \in Seq(U16)
          /\ Len(RelaysAt(s, e7, n)) = n /\ WriteRoute(r) = Slice(s, e7, e8)
      <4>1. e7 + 2 + 2 * n <= Len(s)
        BY <1>1, <3>1
      <4> QED BY <1>1, <3>1, <4>1, RouteRead
    <3>3. r \in [index : Octet, relays : Seq(U16)] /\ r.relays = RelaysAt(s, e7, n)
      BY <3>2
    <3>4. Len(r.relays) \in Octet
      BY <3>2, <3>3, Zenon
    <3> HIDE DEF r
    <3>5. <<r>> # <<>> /\ <<r>>[1] = r /\ <<r>> \in Seq([index : Octet, relays : Seq(U16)]) /\ Len(<<r>>) = 1
      BY <3>3
    <3>6. p8 = WriteRoute(r)
      BY <3>1, <3>5 DEF RouteField, IsPresent, Absent
    <3> QED BY <2>2, <3>1, <3>2, <3>4, <3>5, <3>6
  <2> QED BY <1>3, <2>1, <2>2
<1>14. IsNwk(h)
  <2>1. h = [control |-> h.control, destination |-> h.destination, source |-> h.source, radius |-> h.radius,
             sequence |-> h.sequence, destinationIeee |-> h.destinationIeee, sourceIeee |-> h.sourceIeee,
             multicastControl |-> h.multicastControl, sourceRoute |-> h.sourceRoute]
    BY <1>2, Zenon
  <2>2. h \in [control : NwkControls, destination : U16, source : U16, radius : Octet, sequence : Octet,
               destinationIeee : Seq(Octet), sourceIeee : Seq(Octet), multicastControl : Seq(Octet),
               sourceRoute : Seq([index : Octet, relays : Seq(U16)])]
    <3> HIDE DEF e5, e6, e7, e8, p1, p2, p3, p4, p8
    <3> QED BY <1>1, <1>5, <1>9, <1>10, <1>11, <1>12, <1>13, <2>1
  <2> HIDE DEF e5, e6, e7, e8
  <2>3. /\ Len(h.destinationIeee) = EuiLength * h.control.destination
        /\ Len(h.sourceIeee) = EuiLength * h.control.extended
        /\ Len(h.multicastControl) = h.control.multicast
        /\ Len(h.sourceRoute) = h.control.sourceRoute
        /\ IsPresent(h.sourceRoute) => Len(h.sourceRoute[1].relays) \in Octet
    BY <1>5, <1>10, <1>11, <1>12, <1>13, Zenon DEF EuiLength
  <2> QED BY <2>2, <2>3, Zenon DEF IsNwk
<1> DEFINE e1 == 2
           e2 == 4
           e3 == 6
           e4 == 8
<1>15. AreSlices(p1, p2, p3, p4, p5, p6, p7, p8, e1, e2, e3, e4, e5, e6, e7, e8, s)
  <2> HIDE DEF e5, e6, e7, e8, p1, p2, p3, p4, p5, p6, p7, p8
  <2> QED BY <1>5, <1>9, <1>10, <1>11, <1>12, <1>13, Zenon DEF AreSlices
<1> DEFINE w == Chain(p1, p2, p3, p4, p5, p6, p7, p8)
<1>16. w \in Seq(Octet) /\ Len(w) = e8 /\ Begins(s, w)
  <2>1. AreEnds(e1, e2, e3, e4, e5, e6, e7, e8, s)
    <3> HIDE DEF e5, e6, e7, e8
    <3> QED BY <1>1, <1>4 DEF AreEnds
  <2> HIDE DEF e1, e2, e3, e4, e5, e6, e7, e8, p1, p2, p3, p4, p5, p6, p7, p8
  <2> QED BY <1>15, <2>1, ChainAgain, Zenon
<1>17. WriteNwk(h) = w
  <2>1. NwkChain(h) = w
    BY Zenon DEF NwkChain
  <2> QED BY <2>1, NwkIsChain, Zenon
<1> HIDE DEF w, e8
<1> QED BY <1>1, <1>5, <1>14, <1>16, <1>17 DEF h, c, e8

\* The fields of a header, and what they are written to.
LEMMA NwkFields ==
  ASSUME NEW h, IsNwk(h)
  PROVE  /\ h.control \in NwkControls /\ h.destination \in U16 /\ h.source \in U16
         /\ h.radius \in Octet /\ h.sequence \in Octet
         /\ AreFields(WriteNwkControl(h.control), NwkOctets(h.destination), NwkOctets(h.source), <<h.radius, h.sequence>>,
                      h.destinationIeee, h.sourceIeee, h.multicastControl, RouteField(h))
         /\ Len(WriteNwkControl(h.control)) = 2 /\ Len(NwkOctets(h.destination)) = 2
         /\ Len(NwkOctets(h.source)) = 2 /\ Len(<<h.radius, h.sequence>>) = 2
         /\ Len(h.destinationIeee) = 8 * h.control.destination /\ Len(h.sourceIeee) = 8 * h.control.extended
         /\ Len(h.multicastControl) = h.control.multicast
         /\ h.sourceRoute = IF h.control.sourceRoute = 0 THEN <<>> ELSE <<h.sourceRoute[1]>>
         /\ (h.control.sourceRoute = 0 => RouteField(h) = <<>>)
         /\ (h.control.sourceRoute # 0 => IsRoute(h.sourceRoute[1]) /\ RouteField(h) = WriteRoute(h.sourceRoute[1]))
<1> DEFINE p1 == WriteNwkControl(h.control)
           p2 == NwkOctets(h.destination)
           p3 == NwkOctets(h.source)
           p4 == <<h.radius, h.sequence>>
           p8 == RouteField(h)
           Routes == [index : Octet, relays : Seq(U16)]
           q == h.sourceRoute
           b == h.control.sourceRoute
<1>1. /\ h.control \in NwkControls /\ h.destination \in U16 /\ h.source \in U16
      /\ h.radius \in Octet /\ h.sequence \in Octet
      /\ h.destinationIeee \in Seq(Octet) /\ h.sourceIeee \in Seq(Octet) /\ h.multicastControl \in Seq(Octet)
      /\ q \in Seq(Routes)
  BY DEF IsNwk
<1>2. /\ Len(h.destinationIeee) = 8 * h.control.destination /\ Len(h.sourceIeee) = 8 * h.control.extended
      /\ Len(h.multicastControl) = h.control.multicast
      /\ Len(q) = b
      /\ q # <<>> => Len(q[1].relays) \in Octet
  BY Zenon DEF IsNwk, EuiLength, IsPresent, Absent
<1>3. b \in 0 .. 1
  BY <1>1 DEF NwkControls
<1>4. p1 \in Seq(Octet) /\ Len(p1) = 2
  <2>1. \E t : t[1] = p1[1] /\ t[2] = p1[2]
    BY Zenon
  <2> QED BY <1>1, <2>1, NwkControlWritten
<1>5. p2 \in Seq(Octet) /\ Len(p2) = 2 /\ p3 \in Seq(Octet) /\ Len(p3) = 2
  BY <1>1, NumberWritten DEF NwkOctets
<1>6. p4 \in Seq(Octet) /\ Len(p4) = 2
  BY <1>1, OctetPair
<1>7. /\ p8 \in Seq(Octet) /\ q = IF b = 0 THEN <<>> ELSE <<q[1]>>
      /\ (b = 0 => p8 = <<>>) /\ (b # 0 => IsRoute(q[1]) /\ p8 = WriteRoute(q[1]))
  <2>p. p8 = IF q = <<>> THEN <<>> ELSE WriteRoute(q[1])
    BY Zenon DEF RouteField, IsPresent, Absent
  <2> HIDE DEF q, b, p8
  <2>1. CASE b = 0
    <3>1. q = <<>>
      BY <1>1, <1>2, <2>1, EmptySeq
    <3>2. <<>> \in Seq(Octet)
      OBVIOUS
    <3> QED BY <2>1, <2>p, <3>1, <3>2
  <2>2. CASE b = 1
    <3>1. q[1] \in Routes /\ q # <<>>
      <4>1. 1 \in 1 .. Len(q)
        BY <1>2, <2>2
      <4>2. q # <<>>
        <5>1. Len(<<>>) = 0 /\ Len(q) # 0
          BY <1>2, <2>2
        <5> QED BY <5>1, Zenon
      <4> HIDE DEF Routes
      <4>3. q[1] \in Routes
        BY <1>1, <4>1, ElementOfSeq
      <4> QED BY <4>2, <4>3
    <3>2. IsRoute(q[1])
      BY <1>2, <3>1, Zenon DEF IsRoute
    <3>3. WriteRoute(q[1]) \in Seq(Octet)
      BY <3>2, RouteOctets
    <3>4. q = <<q[1]>>
      <4> DEFINE z == <<q[1]>>
      <4> HIDE DEF Routes
      <4>1. z \in Seq(Routes) /\ Len(z) = 1 /\ z[1] = q[1]
        BY <3>1
      <4> HIDE DEF z
      <4>2. \A k \in 1 .. 1 : k = 1
        OBVIOUS
      <4>3. q = z
        BY <1>1, <1>2, <2>2, <4>1, <4>2, SeqEqual
      <4> QED BY <4>3 DEF z
    <3> DEFINE z == <<q[1]>>
    <3>5. q = z
      BY <3>4
    <3> HIDE DEF z
    <3>6. q = IF b = 0 THEN <<>> ELSE z
      BY <2>2, <3>5
    <3> QED BY <2>2, <2>p, <3>1, <3>2, <3>3, <3>6 DEF z
  <2> QED BY <1>3, <2>1, <2>2
<1>8. AreFields(p1, p2, p3, p4, h.destinationIeee, h.sourceIeee, h.multicastControl, p8)
  <2> HIDE DEF p1, p2, p3, p4, p8
  <2> QED BY <1>1, <1>4, <1>5, <1>6, <1>7, Zenon DEF AreFields
<1> HIDE DEF p1, p2, p3, p4, p8, q, b
<1> QED BY <1>1, <1>2, <1>4, <1>5, <1>6, <1>7, <1>8, Zenon DEF p1, p2, p3, p4, p8, q, b

LEMMA NwkWritten ==
  ASSUME NEW h, IsNwk(h)
  PROVE  WriteNwk(h) \in Seq(Octet)
<1>1. NwkChain(h) \in Seq(Octet)
  BY NwkFields, ChainOctets DEF NwkChain
<1> QED BY <1>1, NwkIsChain

\* What begins with a header that was written is read to this header.
LEMMA NwkBack ==
  ASSUME NEW h, IsNwk(h), NEW s \in Seq(Octet), Begins(s, WriteNwk(h))
  PROVE  /\ ReadNwkControl(s) = h.control /\ ReadNwk(s) = h /\ NwkLength(s) = Len(WriteNwk(h))
         /\ \A l : NwkKnown(l, h.control) => NwkOutcome(l, s) = "read"
<1> DEFINE p1 == WriteNwkControl(h.control)
           p2 == NwkOctets(h.destination)
           p3 == NwkOctets(h.source)
           p4 == <<h.radius, h.sequence>>
           p5 == h.destinationIeee
           p6 == h.sourceIeee
           p7 == h.multicastControl
           p8 == RouteField(h)
           q == h.sourceRoute
           c == h.control
           e1 == 2
           e2 == 4
           e3 == 6
           e4 == 8
           e5 == 8 + 8 * c.destination
           e6 == EndOfIeee(c)
           e7 == EndOfMulticast(c)
           e8 == e7 + Len(p8)
<1>1. /\ c \in NwkControls /\ h.destination \in U16 /\ h.source \in U16
      /\ h.radius \in Octet /\ h.sequence \in Octet
      /\ AreFields(p1, p2, p3, p4, p5, p6, p7, p8)
      /\ Len(p1) = 2 /\ Len(p2) = 2 /\ Len(p3) = 2 /\ Len(p4) = 2
      /\ Len(p5) = 8 * c.destination /\ Len(p6) = 8 * c.extended /\ Len(p7) = c.multicast
      /\ q = (IF c.sourceRoute = 0 THEN <<>> ELSE <<q[1]>>)
      /\ (c.sourceRoute = 0 => p8 = <<>>)
      /\ (c.sourceRoute # 0 => IsRoute(q[1]) /\ p8 = WriteRoute(q[1]))
  BY NwkFields, Zenon
<1>0. Len(s) \in Nat /\ Len(p8) \in Nat
  BY <1>1, LenProperties DEF AreFields
<1>2. h = [control |-> c, destination |-> h.destination, source |-> h.source, radius |-> h.radius,
           sequence |-> h.sequence, destinationIeee |-> p5, sourceIeee |-> p6, multicastControl |-> p7,
           sourceRoute |-> q]
  BY DEF IsNwk
<1>3. /\ c.destination \in 0 .. 1 /\ c.extended \in 0 .. 1 /\ c.multicast \in 0 .. 1 /\ c.sourceRoute \in 0 .. 1
  BY <1>1 DEF NwkControls
<1> HIDE DEF c, p8
<1>4. /\ e5 \in Nat /\ e6 \in Nat /\ e7 \in Nat /\ e8 \in Nat /\ 8 <= e5 /\ e6 = e5 + 8 * c.extended
      /\ e7 = e6 + c.multicast /\ e5 <= e6 /\ e6 <= e7 /\ e7 <= e8
  <2>1. e5 \in Nat /\ 8 <= e5
    BY <1>3
  <2>2. e6 = e5 + 8 * c.extended /\ e6 \in Nat /\ e5 <= e6
    BY <1>3 DEF EndOfIeee, EuiLength
  <2>3. e7 = e6 + c.multicast /\ e7 \in Nat /\ e6 <= e7
    BY <1>3, <2>2 DEF EndOfMulticast
  <2> HIDE DEF e5, e6, e7
  <2>4. e8 \in Nat /\ e7 <= e8
    BY <1>0, <2>3
  <2> QED BY <2>1, <2>2, <2>3, <2>4
<1>f. AreFields(p1, p2, p3, p4, p5, p6, p7, p8)
  BY <1>1
<1>5. AreEnds8(e1, e2, e3, e4, e5, e6, e7, e8, p1, p2, p3, p4, p5, p6, p7, p8)
  <2> HIDE DEF p1, p2, p3, p4, p5, p6, p7, e6, e7
  <2> QED BY <1>1, <1>4 DEF AreEnds8
<1> DEFINE w == Chain(p1, p2, p3, p4, p5, p6, p7, p8)
<1>6. WriteNwk(h) = w
  <2>1. NwkChain(h) = w
    BY Zenon DEF NwkChain, c, p8
  <2> QED BY <2>1, NwkIsChain, Zenon
<1>7. /\ Slice(s, 0, 2) = p1 /\ Slice(s, 2, 4) = p2 /\ Slice(s, 4, 6) = p3 /\ Slice(s, 6, 8) = p4
      /\ Slice(s, 8, e5) = p5 /\ Slice(s, e5, e6) = p6 /\ Slice(s, e6, e7) = p7
      /\ Slice(s, e7, e8) = p8 /\ e8 <= Len(s)
  <2>1. Begins(s, w)
    BY <1>6
  <2> HIDE DEF p1, p2, p3, p4, p5, p6, p7, e1, e2, e3, e4, e5, e6, e7, e8
  <2>2. /\ Slice(s, 0, e1) = p1 /\ Slice(s, e1, e2) = p2 /\ Slice(s, e2, e3) = p3 /\ Slice(s, e3, e4) = p4
        /\ Slice(s, e4, e5) = p5 /\ Slice(s, e5, e6) = p6 /\ Slice(s, e6, e7) = p7
        /\ Slice(s, e7, e8) = p8 /\ e8 <= Len(s)
    BY <1>f, <1>5, <2>1, ChainRead
  <2> QED BY <2>2 DEF e1, e2, e3, e4
<1>8. Len(w) = e8
  <2> HIDE DEF p1, p2, p3, p4, p5, p6, p7
  <2>1. Len(w) = Len(p1) + Len(p2) + Len(p3) + Len(p4) + Len(p5) + Len(p6) + Len(p7) + Len(p8)
    BY <1>f, ChainOctets
  <2> HIDE DEF w, e5, e6, e7
  <2>2. 8 + 8 * c.destination + 8 * c.extended + c.multicast = e7
    <3>1. e5 = 8 + 8 * c.destination
      BY DEF e5
    <3> QED BY <1>3, <1>4, <3>1
  <2>3. Len(w) = 8 + 8 * c.destination + 8 * c.extended + c.multicast + Len(p8)
    BY <1>1, <2>1
  <2> QED BY <1>0, <1>3, <1>4, <2>2, <2>3
<1>9. Len(s) >= 8 /\ e5 <= Len(s) /\ e6 <= Len(s) /\ e7 <= Len(s)
  <2> HIDE DEF e5, e6, e7, e8
  <2> QED BY <1>0, <1>4, <1>7
<1>10. Slice(s, 0, 2) = <<s[1], s[2]>> /\ Slice(s, 6, 8) = <<s[7], s[8]>>
  <2>1. 0 \in Nat /\ 2 = 0 + 2 /\ 2 <= Len(s) /\ 0 + 1 = 1 /\ 0 + 2 = 2
    BY <1>0, <1>9
  <2>2. 6 \in Nat /\ 8 = 6 + 2 /\ 8 <= Len(s) /\ 6 + 1 = 7 /\ 6 + 2 = 8
    BY <1>0, <1>9
  <2>3. Slice(s, 0, 2) = <<s[1], s[2]>>
    BY <2>1, PairSlice
  <2>4. Slice(s, 6, 8) = <<s[7], s[8]>>
    BY <2>2, PairSlice
  <2> QED BY <2>3, <2>4
<1>11. ReadNwkControl(s) = c
  <2>1. <<s[1], s[2]>> = p1
    BY <1>7, <1>10
  <2> HIDE DEF p1
  <2>2. s[1] = p1[1] /\ s[2] = p1[2]
    BY <2>1
  <2> QED BY <1>1, <2>2, NwkControlWritten DEF p1, c
<1>12. h.radius = s[7] /\ h.sequence = s[8]
  <2>1. <<s[7], s[8]>> = <<h.radius, h.sequence>>
    BY <1>7, <1>10
  <2> QED BY <2>1
<1>13. Nwk(Slice(s, 2, 4)) = h.destination /\ Nwk(Slice(s, 4, 6)) = h.source
  BY <1>1, <1>7, NumberWritten
<1>14. p5 = IF c.destination = 1 THEN Slice(s, 8, 16) ELSE <<>>
  <2>1. CASE c.destination = 1
    <3>1. e5 = 16
      BY <2>1
    <3> QED BY <1>7, <2>1, <3>1
  <2>2. CASE c.destination = 0
    <3>1. e5 = 8 /\ Slice(s, 8, 8) = <<>>
      BY <1>9, <2>2, EmptySlice
    <3> QED BY <1>7, <2>2, <3>1
  <2> QED BY <1>3, <2>1, <2>2
<1>15. p6 = IF c.extended = 1 THEN Slice(s, e5, e5 + 8) ELSE <<>>
  <2> HIDE DEF e5, e6, p6
  <2>1. CASE c.extended = 1
    <3>1. e6 = e5 + 8
      BY <1>4, <2>1
    <3> QED BY <1>7, <2>1, <3>1
  <2>2. CASE c.extended = 0
    <3>1. e6 = e5 /\ Slice(s, e5, e5) = <<>>
      BY <1>4, <1>9, <2>2, EmptySlice
    <3> QED BY <1>7, <2>2, <3>1
  <2> QED BY <1>3, <2>1, <2>2
<1> DEFINE rest == IF c.sourceRoute = 0 THEN <<>>
                   ELSE <<[index |-> s[e7 + 2], relays |-> RelaysAt(s, e7, s[e7 + 1])]>>
<1>16. NwkLength(s) = e8 /\ q = rest
  <2>1. NwkLength(s) = IF c.sourceRoute = 0 THEN e7 ELSE e7 + 2 + (IF Len(s) > e7 THEN 2 * s[e7 + 1] ELSE 0)
    BY <1>11, Zenon DEF NwkLength
  <2> HIDE DEF e7, q
  <2>2. CASE c.sourceRoute = 0
    <3>1. p8 = <<>> /\ q = <<>>
      BY <1>1, <2>2
    <3>2. e8 = e7
      BY <1>4, <3>1
    <3> QED BY <2>1, <2>2, <3>1, <3>2
  <2>3. CASE c.sourceRoute # 0
    <3> DEFINE r == q[1]
    <3>1. IsRoute(r) /\ p8 = WriteRoute(r) /\ q = <<r>>
      BY <1>1, <2>3
    <3> HIDE DEF r
    <3>2. e8 = e7 + Len(WriteRoute(r)) /\ e8 <= Len(s) /\ Slice(s, e7, e8) = WriteRoute(r)
      BY <1>7, <3>1
    <3> HIDE DEF e8
    <3>3. /\ e7 + 2 <= Len(s) /\ e8 = e7 + 2 + 2 * s[e7 + 1]
          /\ [index |-> s[e7 + 2], relays |-> RelaysAt(s, e7, s[e7 + 1])] = r
      <4>1. e7 \in Nat
        BY <1>4
      <4> HIDE DEF rest, w
      <4> QED BY <3>1, <3>2, <4>1, RouteWritten, SMTT(30)
    <3>4. Len(s) > e7
      BY <1>0, <1>4, <3>3
    <3>5. NwkLength(s) = e8
      BY <2>1, <2>3, <3>3, <3>4
    <3>6. rest = <<r>>
      BY <2>3, <3>3, Zenon
    <3> QED BY <3>1, <3>5, <3>6
  <2> QED BY <2>2, <2>3
<1>17. ReadNwk(s) = h
  <2>1. ReadNwk(s) =
          [control |-> c, destination |-> Nwk(Slice(s, 2, 4)), source |-> Nwk(Slice(s, 4, 6)),
           radius |-> s[7], sequence |-> s[8],
           destinationIeee |-> IF c.destination = 1 THEN Slice(s, 8, 16) ELSE <<>>,
           sourceIeee |-> IF c.extended = 1 THEN Slice(s, e5, e5 + 8) ELSE <<>>,
           multicastControl |-> Slice(s, e6, e7), sourceRoute |-> rest]
    <3> HIDE DEF c
    <3> QED BY <1>11 DEF ReadNwk, Slice, RelaysAt, EuiLength, Absent
  <2> HIDE DEF e5, e6, e7, rest, p5, p6, p7, q, c
  <2> QED BY <1>2, <1>7, <1>12, <1>13, <1>14, <1>15, <1>16, <2>1, Zenon
<1>18. ASSUME NEW l, NwkKnown(l, c) PROVE NwkOutcome(l, s) = "read"
  <2> HIDE DEF e7, e8, e6
  <2>1. ~(Len(s) < 8) /\ ~(Len(s) < e6) /\ ~(Len(s) < e7) /\ ~(Len(s) < e8)
    BY <1>0, <1>4, <1>7, <1>9
  <2>2. ~(Len(s) < 8) /\ ~(Len(s) < EndOfIeee(ReadNwkControl(s))) /\ ~(Len(s) < EndOfMulticast(ReadNwkControl(s)))
        /\ ~(Len(s) < NwkLength(s)) /\ NwkKnown(l, ReadNwkControl(s))
    BY <1>11, <1>16, <1>18, <2>1 DEF e6, e7
  <2> QED BY <2>2 DEF NwkOutcome
<1> HIDE DEF w, e8
<1> QED BY <1>6, <1>8, <1>11, <1>16, <1>17, <1>18 DEF c
-------------------------------------------------------------------------------
(* The auxiliary header. *)

LEMMA OneSlice ==
  ASSUME NEW s \in Seq(Octet), NEW a \in Nat, NEW b, b = a + 1, b <= Len(s)
  PROVE  Slice(s, a, b) = <<s[b]>> /\ Slice(s, a, b) \in Seq(Octet) /\ Len(Slice(s, a, b)) = 1 /\ s[b] \in Octet
<1> DEFINE x == Slice(s, a, b)
           y == <<s[b]>>
<1>1. b \in Nat /\ a <= b /\ b - a = 1 /\ b \in 1 .. Len(s)
  BY LenProperties
<1>2. x \in Seq(Octet) /\ Len(x) = b - a /\ \A k \in 1 .. b - a : x[k] = s[a + k]
  BY <1>1, SliceElements
<1>3. s[b] \in Octet
  BY <1>1, ElementOfSeq
<1>4. y \in Seq(Octet) /\ Len(y) = 1 /\ y[1] = s[b]
  BY <1>3
<1> HIDE DEF x, y
<1>5. Len(x) = 1 /\ \A k \in 1 .. 1 : x[k] = y[k]
  BY <1>1, <1>2, <1>4
<1>6. x = y
  BY <1>2, <1>4, <1>5, SeqEqual
<1> QED BY <1>2, <1>3, <1>5, <1>6 DEF x, y

LEMMA CatEmpty ==
  ASSUME NEW u \in Seq(Octet)
  PROVE  Cat(u, <<>>) = u
  BY ConcatEmptySeq DEF Cat

LEMMA ChainOfFour ==
  ASSUME NEW p1 \in Seq(Octet), NEW p2 \in Seq(Octet), NEW p3 \in Seq(Octet), NEW p4 \in Seq(Octet)
  PROVE  Chain(p1, p2, p3, p4, <<>>, <<>>, <<>>, <<>>) = Cat(Cat(Cat(p1, p2), p3), p4)
<1> DEFINE w == Cat(Cat(Cat(p1, p2), p3), p4)
<1>1. w \in Seq(Octet)
  BY CatOctets
<1>2. Chain(p1, p2, p3, p4, <<>>, <<>>, <<>>, <<>>) = Cat(Cat(Cat(Cat(w, <<>>), <<>>), <<>>), <<>>)
  BY Zenon DEF Chain
<1> HIDE DEF w
<1>3. Cat(w, <<>>) = w
  BY <1>1, CatEmpty
<1> QED BY <1>2, <1>3 DEF w

LEMMA AuxIsChain ==
  ASSUME NEW a, WriteAuxControl(a.control) \in Octet, a.counter \in Seq(Octet), a.extendedSource \in Seq(Octet),
         a.keySequence \in Octet
  PROVE  WriteAux(a) = Chain(<<WriteAuxControl(a.control)>>, a.counter, a.extendedSource, <<a.keySequence>>,
                             <<>>, <<>>, <<>>, <<>>)
<1> DEFINE p1 == <<WriteAuxControl(a.control)>>
           p2 == a.counter
           p3 == a.extendedSource
           p4 == <<a.keySequence>>
<1>1. p1 \in Seq(Octet) /\ p4 \in Seq(Octet) /\ p2 \in Seq(Octet) /\ p3 \in Seq(Octet)
  OBVIOUS
<1>2. WriteAux(a) = Cat(Cat(Cat(p1, p2), p3), p4)
  BY Zenon DEF WriteAux, Cat
<1> HIDE DEF p1, p2, p3, p4
<1>3. WriteAux(a) = Chain(p1, p2, p3, p4, <<>>, <<>>, <<>>, <<>>)
  BY <1>1, <1>2, ChainOfFour
<1> QED BY <1>3 DEF p1, p2, p3, p4

LEMMA NoOctets == <<>> \in Seq(Octet) /\ Len(<<>>) = 0
  OBVIOUS

LEMMA AuxForth ==
  ASSUME NEW s \in Seq(Octet), NEW l, AuxOutcome(l, s) = "read"
  PROVE  /\ IsAux(ReadAux(s)) /\ AuxLength(s) \in Nat /\ AuxLength(s) <= Len(s)
         /\ WriteAux(ReadAux(s)) \in Seq(Octet) /\ Len(WriteAux(ReadAux(s))) = AuxLength(s)
         /\ Begins(s, WriteAux(ReadAux(s)))
<1> DEFINE a == ReadAux(s)
           c == ReadAuxControl(s[1])
           e1 == 1
           e2 == 5
           e4 == AuxLength(s)
           e3 == e4 - 1
           e5 == e4
           e6 == e4
           e7 == e4
           e8 == e4
           p0 == <<>>
           p1 == <<WriteAuxControl(a.control)>>
           p2 == a.counter
           p3 == a.extendedSource
           p4 == <<a.keySequence>>
<1>0. Len(s) \in Nat
  BY LenProperties
<1>1. Len(s) >= 6 /\ Len(s) >= e4
  <2> HIDE DEF e4
  <2>1. (Len(s) < 6 \/ Len(s) >= 6) /\ ~(Len(s) < 6 /\ Len(s) >= 6)
    BY <1>0
  <2> QED BY <2>1, SMT DEF AuxOutcome, e4
<1>2. Slice(s, 0, 1) = <<s[1]>> /\ s[1] \in Octet
  <2>1. 0 \in Nat /\ 1 = 0 + 1 /\ 1 <= Len(s)
    BY <1>0, <1>1
  <2> QED BY <2>1, OneSlice
<1>3. c \in AuxControls /\ WriteAuxControl(c) = s[1]
  BY <1>2, AuxControlRead
<1>4. e4 = 6 + 8 * c.extended
  BY Zenon DEF AuxLength, EuiLength
<1>5. a = [control |-> c, counter |-> Slice(s, 1, 5), extendedSource |-> Slice(s, 5, e3), keySequence |-> s[e4]]
  BY DEF ReadAux, Slice
<1> HIDE DEF c, a, e4
<1>6. c.extended \in 0 .. 1
  BY <1>3 DEF AuxControls
<1>7. e4 \in Nat /\ e3 \in Nat /\ e4 = e3 + 1 /\ 5 <= e3 /\ e3 <= e4 /\ e4 <= Len(s) /\ e3 - 5 = 8 * c.extended
  BY <1>0, <1>1, <1>4, <1>6
<1> HIDE DEF e3
<1>8. Slice(s, e3, e4) = <<s[e4]>> /\ s[e4] \in Octet
  BY <1>7, OneSlice
<1>9. Slice(s, 1, 5) \in Seq(Octet) /\ Len(Slice(s, 1, 5)) = 4
  <2>1. 1 \in Nat /\ 5 \in Nat /\ 1 <= 5 /\ 5 <= Len(s) /\ 5 - 1 = 4
    BY <1>0, <1>1
  <2>2. Len(Slice(s, 1, 5)) = 5 - 1 /\ Slice(s, 1, 5) \in Seq(Octet)
    BY <2>1, SliceElements
  <2> QED BY <2>1, <2>2
<1>10. Slice(s, 5, e3) \in Seq(Octet) /\ Len(Slice(s, 5, e3)) = 8 * c.extended
  <2>1. 5 \in Nat /\ e3 <= Len(s)
    BY <1>0, <1>7
  <2>2. Len(Slice(s, 5, e3)) = e3 - 5 /\ Slice(s, 5, e3) \in Seq(Octet)
    BY <1>7, <2>1, SliceElements
  <2> QED BY <1>7, <2>2
<1>11. IsAux(a)
  <2>1. a.control = c /\ a.counter = Slice(s, 1, 5) /\ a.extendedSource = Slice(s, 5, e3)
    BY <1>5
  <2>2. a \in [control : AuxControls, counter : Seq(Octet), extendedSource : Seq(Octet), keySequence : Octet]
    BY <1>3, <1>5, <1>8, <1>9, <1>10
  <2> QED BY <1>9, <1>10, <2>1, <2>2, Zenon DEF IsAux, EuiLength
<1>12. p1 = Slice(s, 0, 1) /\ p2 = Slice(s, 1, 5) /\ p3 = Slice(s, 5, e3) /\ p4 = Slice(s, e3, e4)
  BY <1>2, <1>3, <1>5, <1>8, Zenon
<1>13. Slice(s, e4, e4) = p0
  BY <1>7, EmptySlice
<1>14. WriteAux(a) = Chain(p1, p2, p3, p4, p0, p0, p0, p0)
  <2>1. WriteAuxControl(a.control) \in Octet /\ a.counter \in Seq(Octet) /\ a.extendedSource \in Seq(Octet)
        /\ a.keySequence \in Octet
    BY <1>2, <1>3, <1>5, <1>8, <1>9, <1>10, Zenon
  <2> QED BY <2>1, AuxIsChain
<1>15. AreSlices(p1, p2, p3, p4, p0, p0, p0, p0, e1, e2, e3, e4, e5, e6, e7, e8, s)
  <2> HIDE DEF p0, p1, p2, p3, p4
  <2> QED BY <1>12, <1>13, Zenon DEF AreSlices, e1, e2, e5, e6, e7, e8
<1>16. AreEnds(e1, e2, e3, e4, e5, e6, e7, e8, s)
  BY <1>7 DEF AreEnds
<1> HIDE DEF p0, p1, p2, p3, p4, e1, e2, e5, e6, e7, e8
<1> DEFINE w == Chain(p1, p2, p3, p4, p0, p0, p0, p0)
<1>17. w \in Seq(Octet) /\ Len(w) = e8 /\ Begins(s, w)
  BY <1>15, <1>16, ChainAgain
<1> HIDE DEF w
<1> QED BY <1>7, <1>11, <1>14, <1>17 DEF a, e4, e8, w

LEMMA AuxFields ==
  ASSUME NEW a, IsAux(a)
  PROVE  /\ a.control \in AuxControls /\ WriteAuxControl(a.control) \in Octet
         /\ a.counter \in Seq(Octet) /\ a.extendedSource \in Seq(Octet) /\ a.keySequence \in Octet
         /\ Len(a.counter) = 4 /\ Len(a.extendedSource) = 8 * a.control.extended
         /\ AreFields(<<WriteAuxControl(a.control)>>, a.counter, a.extendedSource, <<a.keySequence>>,
                      <<>>, <<>>, <<>>, <<>>)
         /\ Len(<<WriteAuxControl(a.control)>>) = 1 /\ Len(<<a.keySequence>>) = 1
<1> DEFINE o == WriteAuxControl(a.control)
<1>1. /\ a.control \in AuxControls /\ a.counter \in Seq(Octet) /\ a.extendedSource \in Seq(Octet) /\ a.keySequence \in Octet
      /\ Len(a.counter) = 4 /\ Len(a.extendedSource) = 8 * a.control.extended
  BY DEF IsAux, EuiLength
<1>2. o \in Octet
  BY <1>1, AuxControlWritten
<1> HIDE DEF o
<1>3. <<o>> \in Seq(Octet) /\ Len(<<o>>) = 1 /\ <<a.keySequence>> \in Seq(Octet) /\ Len(<<a.keySequence>>) = 1
  BY <1>1, <1>2
<1>4. AreFields(<<o>>, a.counter, a.extendedSource, <<a.keySequence>>, <<>>, <<>>, <<>>, <<>>)
  BY <1>1, <1>3, NoOctets, Zenon DEF AreFields
<1> QED BY <1>1, <1>2, <1>3, <1>4 DEF o

LEMMA AuxWritten ==
  ASSUME NEW a, IsAux(a)
  PROVE  WriteAux(a) \in Seq(Octet)
<1>1. WriteAux(a) = Chain(<<WriteAuxControl(a.control)>>, a.counter, a.extendedSource, <<a.keySequence>>,
                          <<>>, <<>>, <<>>, <<>>)
  BY AuxFields, AuxIsChain
<1> QED BY <1>1, AuxFields, ChainOctets

LEMMA AuxBack ==
  ASSUME NEW a, IsAux(a), NEW s \in Seq(Octet), Begins(s, WriteAux(a))
  PROVE  /\ ReadAux(s) = a /\ AuxLength(s) = Len(WriteAux(a)) /\ \A l : AuxOutcome(l, s) = "read"
<1> DEFINE c == a.control
           o == WriteAuxControl(c)
           p0 == <<>>
           p1 == <<o>>
           p2 == a.counter
           p3 == a.extendedSource
           p4 == <<a.keySequence>>
           e1 == 1
           e2 == 5
           e3 == 5 + 8 * c.extended
           e4 == e3 + 1
           e5 == e4
           e6 == e4
           e7 == e4
           e8 == e4
<1>0. Len(s) \in Nat
  BY LenProperties
<1>1. /\ c \in AuxControls /\ o \in Octet /\ p2 \in Seq(Octet) /\ p3 \in Seq(Octet) /\ a.keySequence \in Octet
      /\ Len(p2) = 4 /\ Len(p3) = 8 * c.extended
      /\ AreFields(p1, p2, p3, p4, p0, p0, p0, p0)
      /\ Len(p1) = 1 /\ Len(p4) = 1
  BY AuxFields
<1>f. AreFields(p1, p2, p3, p4, p0, p0, p0, p0)
  BY <1>1
<1>2. a = [control |-> c, counter |-> p2, extendedSource |-> p3, keySequence |-> a.keySequence]
  BY DEF IsAux
<1> HIDE DEF c, o
<1>3. c.extended \in 0 .. 1
  BY <1>1 DEF AuxControls
<1>4. e3 \in Nat /\ e4 \in Nat /\ 6 <= e4
  BY <1>3
<1>5. AreEnds8(e1, e2, e3, e4, e5, e6, e7, e8, p1, p2, p3, p4, p0, p0, p0, p0)
  <2>0. Len(p0) = 0 /\ e4 + 0 = e4 /\ 1 + 4 = 5
    BY <1>4, NoOctets
  <2> HIDE DEF p0, p1, p2, p3, p4
  <2> QED BY <1>1, <1>4, <2>0 DEF AreEnds8
<1> DEFINE w == Chain(p1, p2, p3, p4, p0, p0, p0, p0)
<1>6. WriteAux(a) = w
  BY <1>1, AuxIsChain DEF o, c
<1>7. /\ Slice(s, 0, 1) = p1 /\ Slice(s, 1, 5) = p2 /\ Slice(s, 5, e3) = p3 /\ Slice(s, e3, e4) = p4 /\ e4 <= Len(s)
  <2>1. Begins(s, w)
    BY <1>6
  <2> HIDE DEF p0, p1, p2, p3, p4, e1, e2, e3, e4, e5, e6, e7, e8
  <2>2. /\ Slice(s, 0, e1) = p1 /\ Slice(s, e1, e2) = p2 /\ Slice(s, e2, e3) = p3 /\ Slice(s, e3, e4) = p4
        /\ e8 <= Len(s)
    BY <1>f, <1>5, <2>1, ChainRead
  <2> QED BY <2>2 DEF e1, e2, e8
<1>8. Len(w) = e4
  <2>0. Len(p0) = 0
    BY NoOctets
  <2> HIDE DEF p0, p1, p2, p3, p4
  <2>1. Len(w) = Len(p1) + Len(p2) + Len(p3) + Len(p4) + Len(p0) + Len(p0) + Len(p0) + Len(p0)
    BY <1>f, ChainOctets
  <2> HIDE DEF w
  <2> QED BY <1>1, <1>3, <2>0, <2>1
<1>9. s[1] = o
  <2>1. Slice(s, 0, 1) = <<s[1]>>
    <3>1. 0 \in Nat /\ 1 = 0 + 1 /\ 1 <= Len(s)
      BY <1>0, <1>4, <1>7
    <3> QED BY <3>1, OneSlice
  <2>2. <<s[1]>> = <<o>>
    BY <1>7, <2>1
  <2> QED BY <2>2
<1>10. s[e4] = a.keySequence
  <2>1. Slice(s, e3, e4) = <<s[e4]>>
    BY <1>4, <1>7, OneSlice
  <2>2. <<s[e4]>> = <<a.keySequence>>
    BY <1>7, <2>1
  <2> QED BY <2>2
<1>11. ReadAuxControl(s[1]) = c
  BY <1>1, <1>9, AuxControlWritten DEF o
<1>12. AuxLength(s) = e4
  <2>1. AuxLength(s) = 6 + 8 * c.extended
    BY <1>11, Zenon DEF AuxLength, EuiLength
  <2> QED BY <1>3, <2>1
<1>13. ReadAux(s) = a
  <2>1. ReadAux(s) = [control |-> c, counter |-> Slice(s, 1, 5), extendedSource |-> SubSeq(s, 6, e4 - 1), keySequence |-> s[e4]]
    BY <1>11, <1>12 DEF ReadAux, Slice
  <2>2. SubSeq(s, 6, e4 - 1) = Slice(s, 5, e3)
    <3>1. e4 - 1 = e3 /\ 5 + 1 = 6
      BY <1>4
    <3> HIDE DEF e3, e4
    <3> QED BY <3>1 DEF Slice
  <2> HIDE DEF e3, e4, p2, p3
  <2> QED BY <1>2, <1>7, <1>10, <2>1, <2>2, Zenon
<1>14. \A l : AuxOutcome(l, s) = "read"
  <2> HIDE DEF e4
  <2>1. ~(Len(s) < 6) /\ Len(s) >= e4
    BY <1>0, <1>4, <1>7
  <2> QED BY <1>12, <2>1 DEF AuxOutcome
<1> HIDE DEF w, e4
<1> QED BY <1>6, <1>8, <1>12, <1>13, <1>14
-------------------------------------------------------------------------------
(* APS frames and pieces of text. *)

\* What the reader makes of a frame that language w has written.
ApsAs(w, f) ==
    IF w = "python" THEN f
    ELSE [f EXCEPT !.cluster = Number(HighFirst(@, 2)), !.profile = Number(HighFirst(@, 2))]

LEMMA ApsNumberRead ==
  ASSUME NEW w \in Languages, NEW n \in U16
  PROVE  /\ ApsNumber(w, n) \in Seq(Octet) /\ Len(ApsNumber(w, n)) = 2
         /\ Number(ApsNumber(w, n)) = IF w = "python" THEN n ELSE Number(HighFirst(n, 2))
<1>1. CASE w = "rust"
  <2>1. ApsNumber(w, n) = HighFirst(n, 2) /\ w # "python"
    BY <1>1 DEF ApsNumber
  <2> QED BY <2>1, HighTwo
<1>2. CASE w = "python"
  <2>1. ApsNumber(w, n) = LowFirst(n, 2)
    BY <1>2 DEF ApsNumber
  <2> QED BY <1>2, <2>1, NumberWritten
<1> QED BY <1>1, <1>2 DEF Languages

LEMMA ApsExcept ==
  ASSUME NEW f, IsAps(f), NEW x, NEW y
  PROVE  [f EXCEPT !.cluster = x, !.profile = y] =
           [control |-> f.control, destination |-> f.destination, cluster |-> x, profile |-> y,
            source |-> f.source, counter |-> f.counter, asdu |-> f.asdu]
<1> DEFINE a == f.control
           b == f.destination
           c == f.cluster
           d == f.profile
           e == f.source
           k == f.counter
           z == f.asdu
           r == [control |-> a, destination |-> b, cluster |-> c, profile |-> d, source |-> e, counter |-> k, asdu |-> z]
<1>1. f = r
  BY DEF IsAps
<1> HIDE DEF a, b, c, d, e, k, z
<1> DEFINE q == [control |-> a, destination |-> b, cluster |-> x, profile |-> d, source |-> e, counter |-> k, asdu |-> z]
           t == [control |-> a, destination |-> b, cluster |-> x, profile |-> y, source |-> e, counter |-> k, asdu |-> z]
<1>2. [r EXCEPT !.cluster = x] = q
  OBVIOUS
<1>3. [q EXCEPT !.profile = y] = t
  OBVIOUS
<1> HIDE DEF r, q
<1>4. [f EXCEPT !.cluster = x, !.profile = y] = [[f EXCEPT !.cluster = x] EXCEPT !.profile = y]
  OBVIOUS
<1> QED BY <1>1, <1>2, <1>3, <1>4, Zenon DEF t, a, b, c, d, e, k, z

LEMMA ApsBack ==
  ASSUME NEW f, IsAps(f), NEW w \in Languages
  PROVE  /\ WriteAps(w, f) \in Seq(Octet) /\ Len(WriteAps(w, f)) >= 8
         /\ \A l : ReadAps(l, WriteAps(w, f)) = IF ApsKnown(l, f.control) THEN <<ApsAs(w, f)>> ELSE Absent
<1> DEFINE c == f.control
           o == WriteApsControl(c)
           p0 == <<>>
           p1 == <<o, f.destination>>
           p2 == ApsNumber(w, f.cluster)
           p3 == ApsNumber(w, f.profile)
           p4 == <<f.source, f.counter>>
           p5 == f.asdu
           e1 == 2
           e2 == 4
           e3 == 6
           e4 == 8
           e5 == 8 + Len(p5)
           e6 == e5
           e7 == e5
           e8 == e5
           s == Chain(p1, p2, p3, p4, p5, p0, p0, p0)
<1>1. /\ c \in ApsControls /\ f.destination \in Octet /\ f.cluster \in U16 /\ f.profile \in U16
      /\ f.source \in Octet /\ f.counter \in Octet /\ p5 \in Seq(Octet)
      /\ f = [control |-> c, destination |-> f.destination, cluster |-> f.cluster, profile |-> f.profile,
              source |-> f.source, counter |-> f.counter, asdu |-> p5]
  BY DEF IsAps, ApsControls
<1> HIDE DEF c
<1>2. o \in Octet /\ ReadApsControl(o) = c
  BY <1>1, ApsControlWritten
<1> HIDE DEF o
<1>3. /\ p1 \in Seq(Octet) /\ Len(p1) = 2 /\ p4 \in Seq(Octet) /\ Len(p4) = 2
      /\ p2 \in Seq(Octet) /\ Len(p2) = 2 /\ p3 \in Seq(Octet) /\ Len(p3) = 2
      /\ Len(p5) \in Nat /\ p0 \in Seq(Octet) /\ Len(p0) = 0
  BY <1>1, <1>2, OctetPair, ApsNumberRead, LenProperties
<1> HIDE DEF p0, p1, p2, p3, p4, p5
<1>4. AreFields(p1, p2, p3, p4, p5, p0, p0, p0)
  BY <1>1, <1>3 DEF AreFields
<1>5. AreEnds8(e1, e2, e3, e4, e5, e6, e7, e8, p1, p2, p3, p4, p5, p0, p0, p0)
  BY <1>3 DEF AreEnds8
<1> HIDE DEF s
<1>6. s \in Seq(Octet) /\ Len(s) = e5
  <2>1. s \in Seq(Octet) /\ Len(s) = Len(p1) + Len(p2) + Len(p3) + Len(p4) + Len(p5) + Len(p0) + Len(p0) + Len(p0)
    BY <1>4, ChainOctets DEF s
  <2> QED BY <1>3, <2>1
<1>7. WriteAps(w, f) = s
  <2> DEFINE v == Cat(Cat(Cat(Cat(p1, p2), p3), p4), p5)
  <2>1. WriteAps(w, f) = v
    BY Zenon DEF WriteAps, Cat, p1, p2, p3, p4, p5, o, c
  <2>2. v \in Seq(Octet)
    BY <1>1, <1>3, CatOctets
  <2>3. s = Cat(Cat(Cat(v, p0), p0), p0)
    BY Zenon DEF s, Chain
  <2> HIDE DEF v
  <2>4. Cat(v, p0) = v
    BY <2>2, CatEmpty DEF p0
  <2> QED BY <2>1, <2>3, <2>4
<1>8. Begins(s, s) /\ Len(s) \in Nat /\ Len(s) >= 8
  <2>1. Len(s) \in Nat /\ Len(s) >= 8
    BY <1>3, <1>6
  <2> HIDE DEF e5
  <2> QED BY <2>1 DEF Begins
<1>9. Slice(s, 0, 2) = p1 /\ Slice(s, 2, 4) = p2 /\ Slice(s, 4, 6) = p3 /\ Slice(s, 6, 8) = p4 /\ Slice(s, 8, e5) = p5
  <2>1. Begins(s, Chain(p1, p2, p3, p4, p5, p0, p0, p0))
    BY <1>8, Zenon DEF s
  <2> HIDE DEF e1, e2, e3, e4, e5, e6, e7, e8
  <2>2. /\ Slice(s, 0, e1) = p1 /\ Slice(s, e1, e2) = p2 /\ Slice(s, e2, e3) = p3 /\ Slice(s, e3, e4) = p4
        /\ Slice(s, e4, e5) = p5
    BY <1>4, <1>5, <1>6, <2>1, ChainRead
  <2> QED BY <2>2 DEF e1, e2, e3, e4
<1>10. s[1] = o /\ s[2] = f.destination /\ s[7] = f.source /\ s[8] = f.counter
  <2>1. 0 \in Nat /\ 2 = 0 + 2 /\ 2 <= Len(s) /\ 0 + 1 = 1 /\ 0 + 2 = 2
        /\ 6 \in Nat /\ 8 = 6 + 2 /\ 8 <= Len(s) /\ 6 + 1 = 7 /\ 6 + 2 = 8
    BY <1>8
  <2>2. Slice(s, 0, 2) = <<s[1], s[2]>> /\ Slice(s, 6, 8) = <<s[7], s[8]>>
    <3> HIDE DEF e5
    <3>1. Slice(s, 0, 2) = <<s[0 + 1], s[0 + 2]>>
      BY <1>6, <2>1, PairSlice
    <3>2. Slice(s, 6, 8) = <<s[6 + 1], s[6 + 2]>>
      BY <1>6, <2>1, PairSlice
    <3> QED BY <2>1, <3>1, <3>2
  <2>3. <<s[1], s[2]>> = <<o, f.destination>> /\ <<s[7], s[8]>> = <<f.source, f.counter>>
    BY <1>9, <2>2 DEF p1, p4
  <2> QED BY <2>3
<1>11. SubSeq(s, 3, 4) = p2 /\ SubSeq(s, 5, 6) = p3 /\ SubSeq(s, 9, Len(s)) = p5
  <2> HIDE DEF e5
  <2> QED BY <1>6, <1>9 DEF Slice
<1>12. Number(p2) = (IF w = "python" THEN f.cluster ELSE Number(HighFirst(f.cluster, 2)))
       /\ Number(p3) = (IF w = "python" THEN f.profile ELSE Number(HighFirst(f.profile, 2)))
  BY <1>1, ApsNumberRead DEF p2, p3
<1> DEFINE g == [control |-> c, destination |-> f.destination, cluster |-> Number(p2), profile |-> Number(p3),
                 source |-> f.source, counter |-> f.counter, asdu |-> p5]
<1>13. ApsAs(w, f) = g
  <2>1. CASE w = "python"
    BY <1>1, <1>12, <2>1 DEF ApsAs
  <2>2. CASE w # "python"
    <3>1. ApsAs(w, f) = [f EXCEPT !.cluster = Number(HighFirst(f.cluster, 2)), !.profile = Number(HighFirst(f.profile, 2))]
      BY <2>2 DEF ApsAs
    <3>2. Number(p2) = Number(HighFirst(f.cluster, 2)) /\ Number(p3) = Number(HighFirst(f.profile, 2))
      BY <1>12, <2>2
    <3>3. ApsAs(w, f) = [f EXCEPT !.cluster = Number(p2), !.profile = Number(p3)]
      BY <3>1, <3>2
    <3>4. ApsAs(w, f) = g
      <4> DEFINE x == Number(p2)
                 y == Number(p3)
      <4> HIDE DEF x, y
      <4>1. [f EXCEPT !.cluster = x, !.profile = y] =
              [control |-> c, destination |-> f.destination, cluster |-> x, profile |-> y,
               source |-> f.source, counter |-> f.counter, asdu |-> p5]
        BY ApsExcept DEF c, p5
      <4> QED BY <3>3, <4>1 DEF x, y
    <3> QED BY <3>4
  <2> QED BY <2>1, <2>2
<1>14. ASSUME NEW l PROVE ReadAps(l, s) = IF ApsKnown(l, c) THEN <<g>> ELSE Absent
  <2> HIDE DEF e5
  <2>1. ~(Len(s) < ApsHeaderLength)
    BY <1>8 DEF ApsHeaderLength
  <2>2. ReadApsControl(s[1]) = c
    BY <1>2, <1>10
  <2> QED BY <1>10, <1>11, <2>1, <2>2, Zenon DEF ReadAps
<1> HIDE DEF g, e5
<1> QED BY <1>6, <1>7, <1>8, <1>13, <1>14 DEF c

LEMMA MinOfTwo ==
  ASSUME NEW a \in Int, NEW b \in Int
  PROVE  Min({a, b}) = IF a <= b THEN a ELSE b
  BY DEF Min

\* A payload in pieces is the payload again.
LEMMA TextOfPieces ==
  ASSUME NEW o \in Seq(Octet)
  PROVE  Text(Pieces(o)) = o
<1> DEFINE n == Len(o)
           m == (n + 3) \div 4
           q == Pieces(o)
           X(i) == SubSeq(o, 4 * (i - 1) + 1, Min({4 * i, n}))
           Of(i) == (CHOOSE atom \in q[i] : TRUE)[2]
           t == Text(q)
<1>1. n \in Nat /\ \A k \in 1 .. n : o[k] \in Octet
  BY LenProperties, ElementOfSeq
<1>2. q = [i \in 1 .. m |-> {<<"text", X(i)>>}]
  BY Zenon DEF Pieces, PieceLength
<1> HIDE DEF n, X
<1>3. m \in Nat /\ Len(q) = m /\ \A i \in 1 .. m : q[i] = {<<"text", X(i)>>}
  BY <1>1, <1>2
<1> HIDE DEF q
<1>4. ASSUME NEW i \in 1 .. m PROVE Of(i) = X(i)
  <2>1. (CHOOSE atom \in q[i] : TRUE) = <<"text", X(i)>>
    BY <1>3
  <2>2. Of(i) = <<"text", X(i)>>[2]
    BY <2>1, Zenon
  <2> QED BY <2>2
<1>5. ASSUME NEW i \in 1 .. m
      PROVE  /\ Len(X(i)) = (IF 4 * i <= n THEN 4 ELSE n - 4 * (i - 1))
             /\ \A k \in 1 .. Len(X(i)) : X(i)[k] = o[4 * (i - 1) + k]
  <2> DEFINE a == 4 * (i - 1)
             b == Min({4 * i, n})
             x == Slice(o, a, b)
  <2>1. b = IF 4 * i <= n THEN 4 * i ELSE n
    <3>1. 4 * i \in Int /\ n \in Int
      BY <1>1
    <3> QED BY <3>1, MinOfTwo
  <2>2. X(i) = x
    BY Zenon DEF Slice, X, n
  <2> HIDE DEF b
  <2>3. a \in Nat /\ b \in Nat /\ a <= b /\ b <= n /\ b - a = IF 4 * i <= n THEN 4 ELSE n - 4 * (i - 1)
    BY <1>1, <2>1
  <2> HIDE DEF a
  <2>4. Len(x) = b - a /\ \A k \in 1 .. b - a : x[k] = o[a + k]
    BY <2>3, SliceElements DEF n
  <2> QED BY <2>2, <2>3, <2>4 DEF a
<1> DEFINE e == IF m = 0 THEN 0 ELSE 4 * (m - 1) + Len(Of(m))
           F(j) == Of(1 + (j - 1) \div 4)[1 + ((j - 1) % 4)]
<1>6. t = [j \in 1 .. e |-> F(j)]
  <2>1. t = [j \in 1 .. (IF Len(q) = 0 THEN 0 ELSE 4 * (Len(q) - 1) + Len(Of(Len(q)))) |-> F(j)]
    BY Zenon DEF Text, PieceLength
  <2> HIDE DEF F, Of, t
  <2> QED BY <1>3, <2>1
<1>7. e = n
  <2>1. CASE m = 0
    BY <1>1, <2>1
  <2>2. CASE m # 0
    <3>1. m \in 1 .. m /\ 4 * (m - 1) < n /\ n <= 4 * m
      BY <1>1, <2>2
    <3>2. Of(m) = X(m) /\ Len(X(m)) = IF 4 * m <= n THEN 4 ELSE n - 4 * (m - 1)
      BY <1>4, <1>5, <3>1
    <3> HIDE DEF Of
    <3> QED BY <1>1, <2>2, <3>1, <3>2
  <2> QED BY <2>1, <2>2
<1>8. ASSUME NEW j \in 1 .. n PROVE F(j) = o[j]
  <2> DEFINE i == 1 + (j - 1) \div 4
             k == 1 + ((j - 1) % 4)
  <2>1. i \in 1 .. m /\ k \in 1 .. 4 /\ 4 * (i - 1) + k = j
    BY <1>1
  <2>2. F(j) = Of(i)[k]
    OBVIOUS
  <2> HIDE DEF F, i, k, Of, m
  <2>3. Of(i) = X(i) /\ Len(X(i)) = (IF 4 * i <= n THEN 4 ELSE n - 4 * (i - 1))
        /\ \A z \in 1 .. Len(X(i)) : X(i)[z] = o[4 * (i - 1) + z]
    BY <1>4, <1>5, <2>1
  <2>4. k \in 1 .. Len(X(i))
    <3>1. i \in Nat
      BY <1>3, <2>1
    <3> QED BY <1>1, <2>1, <2>3, <3>1
  <2> QED BY <2>1, <2>2, <2>3, <2>4
<1> HIDE DEF F, e
<1>9. t \in Seq(Octet) /\ Len(t) = n /\ \A j \in 1 .. n : t[j] = o[j]
  BY <1>1, <1>6, <1>7, <1>8
<1> HIDE DEF t
<1>10. t = o
  BY <1>9, SeqEqual DEF n
<1> QED BY <1>10 DEF t, q
-------------------------------------------------------------------------------
(* Pieces of payload, and the MAC. *)

IsSeq(p) == \E S : p \in Seq(S)

LEMMA IsSeqIs ==
  ASSUME NEW p, IsSeq(p)
  PROVE  Len(p) \in Nat /\ DOMAIN p = 1 .. Len(p) /\ p = [i \in 1 .. Len(p) |-> p[i]]
<1>1. PICK S : p \in Seq(S)
  BY DEF IsSeq
<1> QED BY <1>1

LEMMA IsSeqOf ==
  ASSUME NEW n \in Nat, NEW p, p = [i \in 1 .. n |-> p[i]]
  PROVE  IsSeq(p) /\ Len(p) = n
<1> DEFINE S == {p[i] : i \in 1 .. n}
<1>1. p \in [1 .. n -> S]
  OBVIOUS
<1> HIDE DEF S
<1>2. p \in Seq(S) /\ Len(p) = n
  BY <1>1
<1> QED BY <1>2 DEF IsSeq

LEMMA SamePieces ==
  ASSUME NEW p, NEW q, IsSeq(p), IsSeq(q), Len(p) = Len(q), \A i \in 1 .. Len(p) : p[i] = q[i]
  PROVE  p = q
<1>1. p = [i \in 1 .. Len(p) |-> p[i]] /\ q = [i \in 1 .. Len(q) |-> q[i]]
  BY IsSeqIs
<1> QED BY <1>1

LEMMA SymTwice == \A A, B : SymDiff(SymDiff(A, B), B) = A
  BY DEF SymDiff

LEMMA SymElement == \A A, B, a : a \in SymDiff(A, B) => a \in A \/ a \in B
  BY DEF SymDiff

\* Encryption of pieces of text.
CryptText(k, f, text) ==
    [i \in DOMAIN text |-> SymDiff(text[i], KeyStream(k, f, 1 + (i - 1) \div 4, (i - 1) % 4))]

LEMMA CryptIs ==
  \A k, f, tag, text :
     /\ Crypt(k, f, tag, text).tag = SymDiff(tag, KeyStream(k, f, 0, 0))
     /\ Crypt(k, f, tag, text).text = CryptText(k, f, text)
  BY DEF Crypt, CryptText

LEMMA CryptTextIs ==
  ASSUME NEW k, NEW f, NEW text, IsSeq(text)
  PROVE  /\ IsSeq(CryptText(k, f, text)) /\ Len(CryptText(k, f, text)) = Len(text)
         /\ \A i \in 1 .. Len(text) : CryptText(k, f, text)[i] =
              SymDiff(text[i], KeyStream(k, f, 1 + (i - 1) \div 4, (i - 1) % 4))
         /\ CryptText(k, f, CryptText(k, f, text)) = text
<1> DEFINE n == Len(text)
           K(i) == KeyStream(k, f, 1 + (i - 1) \div 4, (i - 1) % 4)
           c == CryptText(k, f, text)
           d == CryptText(k, f, c)
<1>1. n \in Nat /\ DOMAIN text = 1 .. n /\ text = [i \in 1 .. n |-> text[i]]
  BY IsSeqIs
<1> HIDE DEF n
<1>2. c = [i \in 1 .. n |-> SymDiff(text[i], K(i))]
  BY <1>1, Zenon DEF CryptText
<1> HIDE DEF K, c
<1>3. c = [i \in 1 .. n |-> c[i]] /\ DOMAIN c = 1 .. n /\ \A i \in 1 .. n : c[i] = SymDiff(text[i], K(i))
  BY <1>2
<1>4. IsSeq(c) /\ Len(c) = n
  BY <1>1, <1>3, IsSeqOf
<1>5. d = [i \in 1 .. n |-> SymDiff(c[i], K(i))]
  BY <1>3, Zenon DEF CryptText, K
<1>6. \A i \in 1 .. n : SymDiff(c[i], K(i)) = text[i]
  BY <1>3, SymTwice, Zenon
<1>7. d = text
  BY <1>1, <1>5, <1>6
<1> HIDE DEF d
<1> QED BY <1>3, <1>4, <1>7 DEF c, d, n, K

\* What the MAC is computed from, beside the text.
Headers(f) == Cat(WriteNwk(f.nwk), WriteAux(Modified(f.aux)))
MacAtom(k, f, text) == <<"mac", k, Headers(f), text, Nonce(f)>>

LEMMA MacIs == \A k, f, text : Mac(k, f, text) = {MacAtom(k, f, text)}
  BY Zenon DEF Mac, MacAtom, Headers, Cat

LEMMA MacAtomIs ==
  ASSUME NEW k, NEW f, NEW t, NEW m, NEW g, NEW u, MacAtom(k, f, t) = MacAtom(m, g, u)
  PROVE  k = m /\ Headers(f) = Headers(g) /\ t = u /\ Nonce(f) = Nonce(g)
<1> DEFINE x == Headers(f)
           y == Headers(g)
           v == Nonce(f)
           w == Nonce(g)
<1>1. <<"mac", k, x, t, v>> = <<"mac", m, y, u, w>>
  BY Zenon DEF MacAtom
<1> HIDE DEF x, y, v, w
<1>2. k = m /\ x = y /\ t = u /\ v = w
  BY <1>1
<1> QED BY <1>2 DEF x, y, v, w

IsMac(a) == a[1] = "mac"

LEMMA MacAtomIsMac == \A k, f, t : IsMac(MacAtom(k, f, t))
<1> TAKE k, f, t
<1> DEFINE x == Headers(f)
           v == Nonce(f)
<1>1. MacAtom(k, f, t) = <<"mac", k, x, t, v>>
  BY Zenon DEF MacAtom
<1> HIDE DEF x, v
<1>2. <<"mac", k, x, t, v>>[1] = "mac"
  OBVIOUS
<1> QED BY <1>1, <1>2, Zenon DEF IsMac

LEMMA KeyStreamNoMac == \A k, f, b, p : \A a \in KeyStream(k, f, b, p) : ~IsMac(a)
<1> TAKE k, f, b, p
<1> DEFINE v == Nonce(f)
           y == <<"key stream", k, v, b, p>>
<1>1. KeyStream(k, f, b, p) = {y}
  BY Zenon DEF KeyStream
<1> HIDE DEF v
<1>2. y[1] = "key stream" /\ "key stream" # "mac"
  OBVIOUS
<1> HIDE DEF y
<1> QED BY <1>1, <1>2 DEF IsMac

\* Only the headers of a frame matter.
Alike(f, g) == f.nwk = g.nwk /\ f.aux = g.aux

LEMMA AlikeFrames ==
  ASSUME NEW f, NEW g, Alike(f, g)
  PROVE  /\ Headers(f) = Headers(g) /\ Nonce(f) = Nonce(g) /\ IsSecured(f) = IsSecured(g)
         /\ \A l : CanAuthenticate(l, f) = CanAuthenticate(l, g)
         /\ \A k, b, p : KeyStream(k, f, b, p) = KeyStream(k, g, b, p)
         /\ \A k, t : MacAtom(k, f, t) = MacAtom(k, g, t)
         /\ \A k, t : CryptText(k, f, t) = CryptText(k, g, t)
<1>0. f.nwk = g.nwk /\ f.aux = g.aux
  BY DEF Alike
<1>1. Headers(f) = Headers(g) /\ Nonce(f) = Nonce(g) /\ IsSecured(f) = IsSecured(g)
  BY <1>0, Zenon DEF Headers, Nonce, Source, IsSecured
<1>2. \A l : CanAuthenticate(l, f) = CanAuthenticate(l, g)
  BY <1>0, Zenon DEF CanAuthenticate, Source
<1>3. \A k, b, p : KeyStream(k, f, b, p) = KeyStream(k, g, b, p)
  BY <1>1, Zenon DEF KeyStream
<1>4. \A k, t : MacAtom(k, f, t) = MacAtom(k, g, t)
  BY <1>1, Zenon DEF MacAtom
<1>5. \A k, t : CryptText(k, f, t) = CryptText(k, g, t)
  BY <1>3, Zenon DEF CryptText
<1> QED BY <1>1, <1>2, <1>3, <1>4, <1>5

LEMMA AppendPiece ==
  ASSUME NEW p, IsSeq(p), NEW e
  PROVE  /\ IsSeq(Append(p, e)) /\ Len(Append(p, e)) = Len(p) + 1
         /\ \A i \in 1 .. Len(p) : Append(p, e)[i] = p[i]
         /\ Append(p, e)[Len(p) + 1] = e
<1>1. PICK S : p \in Seq(S)
  BY DEF IsSeq
<1> DEFINE T == S \cup {e}
<1>2. p \in Seq(T) /\ e \in T
  BY <1>1, SeqMonotonic
<1> HIDE DEF T
<1>3. /\ Append(p, e) \in Seq(T) /\ Len(Append(p, e)) = Len(p) + 1
      /\ \A i \in 1 .. Len(p) : Append(p, e)[i] = p[i]
      /\ Append(p, e)[Len(p) + 1] = e
  BY <1>2, AppendProperties
<1>4. IsSeq(Append(p, e))
  BY <1>3 DEF IsSeq
<1> QED BY <1>3, <1>4

LEMMA FirstPieces ==
  ASSUME NEW p, IsSeq(p), NEW n \in 0 .. Len(p)
  PROVE  /\ IsSeq(SubSeq(p, 1, n)) /\ Len(SubSeq(p, 1, n)) = n
         /\ \A i \in 1 .. n : SubSeq(p, 1, n)[i] = p[i]
<1>1. PICK S : p \in Seq(S)
  BY DEF IsSeq
<1>2. Len(p) \in Nat
  BY <1>1, LenProperties
<1>3. \A i \in 1 .. n : p[i] \in S
  <2>1. \A i \in 1 .. n : i \in 1 .. Len(p)
    BY <1>2
  <2> QED BY <1>1, <2>1, ElementOfSeq
<1>4. 1 \in Int /\ n \in Int /\ (IF 1 <= n THEN n - 1 + 1 ELSE 0) = n /\ n - 1 + 1 = n /\ \A i \in 1 .. n : 1 + i - 1 = i
  BY <1>2
<1> DEFINE x == SubSeq(p, 1, n)
<1>5. /\ x \in Seq(S) /\ Len(x) = (IF 1 <= n THEN n - 1 + 1 ELSE 0)
      /\ \A i \in 1 .. n - 1 + 1 : x[i] = p[1 + i - 1]
  BY <1>3, <1>4, SubSeqProperties
<1> HIDE DEF x
<1>6. x \in Seq(S) /\ Len(x) = n /\ \A i \in 1 .. n : x[i] = p[i]
  BY <1>4, <1>5
<1> QED BY <1>6 DEF IsSeq, x

\* The last piece is the tag.
TagIs(k, f, text) == SymDiff({MacAtom(k, f, text)}, KeyStream(k, f, 0, 0))

\* The tag is as long as any whole piece: there is no text in it.
LEMMA TagOctets == \A k, f, text : PieceOctets(TagIs(k, f, text)) = PieceLength
<1> TAKE k, f, text
<1>1. \A a \in TagIs(k, f, text) : a \in Mac(k, f, text) \/ a \in KeyStream(k, f, 0, 0)
  BY MacIs, SymElement DEF TagIs
<1>2. \A a \in Mac(k, f, text) : a[1] = "mac"
  <2>1. \A n, h : \A a \in {<<"mac", k, h, text, n>>} : a[1] = "mac"
    OBVIOUS
  <2> QED BY <2>1, Zenon DEF Mac
<1>3. \A a \in KeyStream(k, f, 0, 0) : a[1] = "key stream"
  <2>1. \A x, n : \A a \in {<<x, k, n, 0, 0>>} : a[1] = x
    OBVIOUS
  <2> QED BY <2>1, Zenon DEF KeyStream
<1>4. "mac" # "text" /\ "key stream" # "text"
  BY Zenon
<1>5. {a \in TagIs(k, f, text) : a[1] = "text"} = {}
  BY <1>1, <1>2, <1>3, <1>4, Zenon
<1> QED BY <1>5 DEF PieceOctets

LEMMA EncryptIs ==
  ASSUME NEW k, NEW f, NEW text, IsSeq(text)
  PROVE  /\ Encrypt(k, f, text) = Append(CryptText(k, f, text), TagIs(k, f, text))
         /\ IsSeq(Encrypt(k, f, text)) /\ Len(Encrypt(k, f, text)) = Len(text) + 1
         /\ \A i \in 1 .. Len(text) : Encrypt(k, f, text)[i] = CryptText(k, f, text)[i]
         /\ Encrypt(k, f, text)[Len(text) + 1] = TagIs(k, f, text)
         /\ SubSeq(Encrypt(k, f, text), 1, Len(text)) = CryptText(k, f, text)
<1> DEFINE c == CryptText(k, f, text)
           e == TagIs(k, f, text)
           p == Encrypt(k, f, text)
           x == SubSeq(p, 1, Len(text))
<1>1. p = Append(c, e)
  BY CryptIs, MacIs, Zenon DEF Encrypt, TagIs
<1>2. IsSeq(c) /\ Len(c) = Len(text) /\ Len(text) \in Nat
  BY CryptTextIs, IsSeqIs
<1> HIDE DEF c, e, p
<1>3. /\ IsSeq(p) /\ Len(p) = Len(text) + 1 /\ (\A i \in 1 .. Len(text) : p[i] = c[i])
      /\ p[Len(text) + 1] = e
  BY <1>1, <1>2, AppendPiece
<1>4. Len(text) \in 0 .. Len(p)
  BY <1>2, <1>3
<1>5. IsSeq(x) /\ Len(x) = Len(text) /\ \A i \in 1 .. Len(text) : x[i] = p[i]
  BY <1>3, <1>4, FirstPieces
<1> HIDE DEF x
<1>6. \A i \in 1 .. Len(x) : x[i] = c[i]
  BY <1>3, <1>5
<1>7. x = c
  BY <1>2, <1>5, <1>6, SamePieces
<1> QED BY <1>1, <1>3, <1>7 DEF c, e, p, x

LEMMA DecryptIs ==
  ASSUME NEW k, NEW f, IsSeq(f.pieces)
  PROVE  Decrypt(k, f) =
           LET n == Len(f.pieces)
               t == CryptText(k, f, SubSeq(f.pieces, 1, n - 1))
           IN  IF n > 0 /\ SymDiff(f.pieces[n], KeyStream(k, f, 0, 0)) = {MacAtom(k, f, t)} THEN <<t>> ELSE Absent
<1> DEFINE n == Len(f.pieces)
           s == SubSeq(f.pieces, 1, n - 1)
           t == CryptText(k, f, s)
           p == Crypt(k, f, f.pieces[n], s)
<1>1. Decrypt(k, f) = IF n > 0 /\ p.tag = Mac(k, f, p.text) THEN <<p.text>> ELSE Absent
  BY Zenon DEF Decrypt
<1>2. p.text = t /\ p.tag = SymDiff(f.pieces[n], KeyStream(k, f, 0, 0))
  BY CryptIs, Zenon
<1>3. Mac(k, f, t) = {MacAtom(k, f, t)}
  BY MacIs, Zenon
<1> HIDE DEF s, p, t, n
<1>4. Decrypt(k, f) = IF n > 0 /\ SymDiff(f.pieces[n], KeyStream(k, f, 0, 0)) = {MacAtom(k, f, t)} THEN <<t>> ELSE Absent
  BY <1>1, <1>2, <1>3, Zenon
<1> QED BY <1>4, Zenon DEF n, t, s

\* What was encrypted is decrypted.
LEMMA DecryptOwn ==
  ASSUME NEW k, NEW f, NEW g, Alike(f, g), NEW text, IsSeq(text), f.pieces = Encrypt(k, g, text)
  PROVE  Decrypt(k, f) = <<text>>
<1> DEFINE n == Len(f.pieces)
           s == SubSeq(f.pieces, 1, n - 1)
           t == CryptText(k, f, s)
           c == CryptText(k, f, text)
<1>0. Len(text) \in Nat
  BY IsSeqIs
<1>1. /\ IsSeq(f.pieces) /\ n = Len(text) + 1 /\ f.pieces[n] = TagIs(k, g, text)
      /\ SubSeq(f.pieces, 1, Len(text)) = CryptText(k, g, text)
  BY EncryptIs
<1>2. CryptText(k, g, text) = c /\ TagIs(k, g, text) = TagIs(k, f, text)
  <2>1. CryptText(k, g, text) = c /\ MacAtom(k, g, text) = MacAtom(k, f, text)
        /\ KeyStream(k, g, 0, 0) = KeyStream(k, f, 0, 0)
    BY AlikeFrames
  <2> QED BY <2>1, Zenon DEF TagIs
<1>3. n > 0 /\ n - 1 = Len(text)
  <2> HIDE DEF n
  <2> QED BY <1>0, <1>1
<1>4. s = c
  BY <1>1, <1>2, <1>3
<1> HIDE DEF s
<1>5. t = text
  BY <1>4, CryptTextIs
<1>6. SymDiff(f.pieces[n], KeyStream(k, f, 0, 0)) = {MacAtom(k, f, text)}
  BY <1>1, <1>2, SymTwice, Zenon DEF TagIs
<1>7. Decrypt(k, f) = IF n > 0 /\ SymDiff(f.pieces[n], KeyStream(k, f, 0, 0)) = {MacAtom(k, f, t)} THEN <<t>> ELSE Absent
  BY <1>1, DecryptIs, Zenon DEF s
<1> HIDE DEF n, t
<1> QED BY <1>3, <1>5, <1>6, <1>7

\* What is decrypted has its MAC in the last piece.
LEMMA DecryptMac ==
  ASSUME NEW k, NEW f, IsSeq(f.pieces), IsPresent(Decrypt(k, f))
  PROVE  \E t : /\ Decrypt(k, f) = <<t>> /\ Len(f.pieces) \in 1 .. Len(f.pieces)
                /\ MacAtom(k, f, t) \in f.pieces[Len(f.pieces)]
<1> DEFINE n == Len(f.pieces)
           t == CryptText(k, f, SubSeq(f.pieces, 1, n - 1))
           K == KeyStream(k, f, 0, 0)
           a == MacAtom(k, f, t)
<1>0. n \in Nat
  BY IsSeqIs
<1>1. Decrypt(k, f) = IF n > 0 /\ SymDiff(f.pieces[n], K) = {a} THEN <<t>> ELSE Absent
  BY DecryptIs, Zenon
<1> HIDE DEF t, a, K, n
<1>2. Decrypt(k, f) = <<t>> /\ n > 0 /\ SymDiff(f.pieces[n], K) = {a}
  BY <1>1, Zenon DEF IsPresent
<1>3. a \in f.pieces[n] \/ a \in K
  <2>1. a \in SymDiff(f.pieces[n], K)
    BY <1>2
  <2> QED BY <2>1, SymElement
<1>4. a \notin K
  BY MacAtomIsMac, KeyStreamNoMac, Zenon DEF a, K
<1>5. n \in 1 .. n
  BY <1>0, <1>2
<1> QED BY <1>2, <1>3, <1>4, <1>5, Zenon DEF n, a

\* The MACs among the atoms of pieces are all a.
OnlyMac(p, a) == \A i \in 1 .. Len(p) : \A b \in p[i] : IsMac(b) => b = a
NoMac(p) == \A i \in 1 .. Len(p) : \A b \in p[i] : ~IsMac(b)

LEMMA EncryptMac ==
  ASSUME NEW k, NEW f, NEW text, IsSeq(text), NoMac(text)
  PROVE  OnlyMac(Encrypt(k, f, text), MacAtom(k, f, text))
<1> DEFINE p == Encrypt(k, f, text)
           n == Len(text)
           a == MacAtom(k, f, text)
<1>1. n \in Nat
  BY IsSeqIs
<1>2. /\ Len(p) = n + 1 /\ p[n + 1] = SymDiff({a}, KeyStream(k, f, 0, 0))
      /\ \A i \in 1 .. n : p[i] = SymDiff(text[i], KeyStream(k, f, 1 + (i - 1) \div 4, (i - 1) % 4))
  <2>1. /\ Len(p) = n + 1 /\ p[n + 1] = TagIs(k, f, text)
        /\ \A i \in 1 .. n : p[i] = CryptText(k, f, text)[i]
    BY EncryptIs
  <2>2. \A i \in 1 .. n : CryptText(k, f, text)[i] =
          SymDiff(text[i], KeyStream(k, f, 1 + (i - 1) \div 4, (i - 1) % 4))
    BY CryptTextIs
  <2> HIDE DEF p, n
  <2> QED BY <2>1, <2>2, Zenon DEF TagIs
<1> HIDE DEF p, n, a
<1>3. ASSUME NEW i \in 1 .. n, NEW b \in p[i] PROVE ~IsMac(b)
  <2> DEFINE x == 1 + (i - 1) \div 4
             y == (i - 1) % 4
  <2>1. p[i] = SymDiff(text[i], KeyStream(k, f, x, y))
    BY <1>2
  <2> HIDE DEF x, y
  <2>2. b \in text[i] \/ b \in KeyStream(k, f, x, y)
    BY <2>1, SymElement
  <2> QED BY <2>2, KeyStreamNoMac, Zenon DEF NoMac, n
<1>4. ASSUME NEW b \in p[n + 1], IsMac(b) PROVE b = a
  <2>1. b \in {a} \/ b \in KeyStream(k, f, 0, 0)
    BY <1>2, SymElement
  <2> QED BY <1>4, <2>1, KeyStreamNoMac
<1>5. \A i \in 1 .. n + 1 : i \in 1 .. n \/ i = n + 1
  BY <1>1
<1>6. \A i \in 1 .. Len(p) : \A b \in p[i] : IsMac(b) => b = a
  BY <1>2, <1>3, <1>4, <1>5
<1> QED BY <1>6, Zenon DEF OnlyMac, p, a
-------------------------------------------------------------------------------
(* Both headers. *)

LEMMA BeginsCat ==
  ASSUME NEW u \in Seq(Octet), NEW v \in Seq(Octet)
  PROVE  Begins(Cat(u, v), u) /\ Begins(Cat(u, v), Cat(u, v)) /\ Begins(v, v)
<1>1. Cat(u, v) \in Seq(Octet) /\ Len(Cat(u, v)) = Len(u) + Len(v) /\ \A k \in 1 .. Len(u) : Cat(u, v)[k] = u[k]
  BY CatOctets
<1>2. Len(u) \in Nat /\ Len(v) \in Nat /\ Len(Cat(u, v)) \in Nat
  BY <1>1, LenProperties
<1> QED BY <1>1, <1>2 DEF Begins

LEMMA BeginsOn ==
  ASSUME NEW s \in Seq(Octet), NEW u \in Seq(Octet), NEW v \in Seq(Octet), NEW a, a = Len(u),
         Begins(s, u), Begins(Slice(s, a, Len(s)), v)
  PROVE  Begins(s, Cat(u, v))
<1> DEFINE x == Slice(s, a, Len(s))
           w == Cat(u, v)
<1>1. Len(s) \in Nat /\ Len(u) \in Nat /\ Len(v) \in Nat /\ a \in Nat /\ a <= Len(s)
  BY LenProperties DEF Begins
<1>2. x \in Seq(Octet) /\ Len(x) = Len(s) - a /\ \A k \in 1 .. Len(s) - a : x[k] = s[a + k]
  <2> DEFINE n == Len(s)
  <2>1. n \in Nat /\ a \in Nat /\ a <= n /\ n <= Len(s)
    BY <1>1
  <2> HIDE DEF n
  <2>2. Slice(s, a, n) \in Seq(Octet) /\ Len(Slice(s, a, n)) = n - a /\ \A k \in 1 .. n - a : Slice(s, a, n)[k] = s[a + k]
    BY <2>1, SliceElements
  <2> QED BY <2>2, Zenon DEF n
<1> HIDE DEF x
<1>3. Len(w) = a + Len(v) /\ (\A k \in 1 .. a : w[k] = u[k]) /\ \A k \in 1 .. Len(v) : w[a + k] = v[k]
  <2>1. Len(w) = Len(u) + Len(v) /\ (\A k \in 1 .. Len(u) : w[k] = u[k]) /\ \A k \in 1 .. Len(v) : w[Len(u) + k] = v[k]
    BY CatOctets
  <2> HIDE DEF w
  <2> QED BY <2>1, Zenon
<1> HIDE DEF w
<1>4. Len(v) <= Len(x) /\ \A k \in 1 .. Len(v) : x[k] = v[k]
  BY DEF Begins, x
<1>5. \A k \in 1 .. a : s[k] = u[k]
  BY DEF Begins
<1>6. ASSUME NEW k \in 1 .. a + Len(v) PROVE s[k] = w[k]
  <2>1. CASE k <= a
    <3>1. k \in 1 .. a
      BY <1>1, <2>1
    <3> QED BY <1>3, <1>5, <3>1
  <2>2. CASE ~(k <= a)
    <3> DEFINE j == k - a
    <3>1. j \in 1 .. Len(v) /\ a + j = k /\ j \in 1 .. Len(s) - a
      BY <1>1, <1>2, <1>4, <2>2
    <3> HIDE DEF j
    <3>2. w[a + j] = v[j] /\ x[j] = v[j] /\ x[j] = s[a + j]
      BY <1>2, <1>3, <1>4, <3>1
    <3> QED BY <3>1, <3>2
  <2> QED BY <2>1, <2>2
<1>7. Len(w) <= Len(s)
  BY <1>1, <1>2, <1>3, <1>4
<1>8. Begins(s, w)
  BY <1>3, <1>6, <1>7 DEF Begins
<1> QED BY <1>8 DEF w

LEMMA ModifiedIsAux ==
  ASSUME NEW a, IsAux(a)
  PROVE  IsAux(Modified(a))
<1> DEFINE c == a.control
           d == [c EXCEPT !.level = Level]
           m == Modified(a)
<1>1. a \in [control : AuxControls, counter : Seq(Octet), extendedSource : Seq(Octet), keySequence : Octet]
      /\ Len(a.counter) = 4 /\ Len(a.extendedSource) = EuiLength * c.extended
  BY Zenon DEF IsAux
<1>2. m = [a EXCEPT !.control = d]
  BY DEF Modified
<1>3. c \in AuxControls
  BY <1>1
<1>4. d \in AuxControls /\ d.extended = c.extended
  BY <1>3 DEF AuxControls, Level
<1> HIDE DEF m, d
<1>5. m \in [control : AuxControls, counter : Seq(Octet), extendedSource : Seq(Octet), keySequence : Octet]
      /\ m.counter = a.counter /\ m.extendedSource = a.extendedSource /\ m.control = d
  BY <1>1, <1>2, <1>4
<1> QED BY <1>1, <1>4, <1>5, Zenon DEF IsAux, m

LEMMA HeadersTell ==
  ASSUME NEW f, NEW g, IsNwk(f.nwk), IsAux(f.aux), IsNwk(g.nwk), IsAux(g.aux), Headers(f) = Headers(g)
  PROVE  f.nwk = g.nwk /\ Modified(f.aux) = Modified(g.aux)
<1> DEFINE u == WriteNwk(f.nwk)
           v == WriteAux(Modified(f.aux))
           x == WriteNwk(g.nwk)
           y == WriteAux(Modified(g.aux))
           h == Cat(u, v)
<1>1. u \in Seq(Octet) /\ v \in Seq(Octet) /\ x \in Seq(Octet) /\ y \in Seq(Octet)
  BY NwkWritten, AuxWritten, ModifiedIsAux
<1>2. h = Cat(x, y)
  BY Zenon DEF Headers
<1>3. h \in Seq(Octet) /\ Begins(h, u) /\ Begins(h, x) /\ Begins(v, v)
  <2> HIDE DEF u, v, x, y
  <2>1. h \in Seq(Octet)
    BY <1>1, CatOctets
  <2>2. Begins(h, u) /\ Begins(v, v)
    BY <1>1, BeginsCat
  <2>3. Begins(Cat(x, y), x)
    BY <1>1, BeginsCat
  <2> QED BY <1>2, <2>1, <2>2, <2>3, Zenon
<1>4. f.nwk = g.nwk
  <2> HIDE DEF h
  <2>1. ReadNwk(h) = f.nwk
    BY <1>3, NwkBack
  <2>2. ReadNwk(h) = g.nwk
    BY <1>3, NwkBack
  <2> QED BY <2>1, <2>2
<1>5. v = y
  <2>1. u = x
    BY <1>4
  <2> HIDE DEF u, v, x, y
  <2> QED BY <1>1, <1>2, <2>1, CatSplit
<1>6. Modified(f.aux) = Modified(g.aux)
  <2>1. ReadAux(v) = Modified(f.aux)
    BY <1>1, <1>3, ModifiedIsAux, AuxBack
  <2>2. Begins(v, WriteAux(Modified(g.aux)))
    BY <1>3, <1>5
  <2>3. ReadAux(v) = Modified(g.aux)
    BY <1>1, <2>2, ModifiedIsAux, AuxBack
  <2> QED BY <2>1, <2>3
<1> QED BY <1>4, <1>6

\* What the reader finds behind the network header.
RestOf(o) == SubSeq(o, NwkLength(o) + 1, Len(o))
LeftOf(o) == SubSeq(RestOf(o), AuxLength(RestOf(o)) + 1, Len(RestOf(o)))
FrameOf(w) == [nwk |-> ReadNwk(w.octets), aux |-> ReadAux(RestOf(w.octets)), pieces |-> w.pieces]

IsFrame(f) == IsNwk(f.nwk) /\ (IsSecured(f) => IsAux(f.aux))
HeaderOctets(f) == WriteNwk(f.nwk) \o (IF IsSecured(f) THEN WriteAux(f.aux) ELSE <<>>)

\* The octets of a frame that arrives as it was sent.
LEMMA OwnOctets ==
  ASSUME NEW f, IsFrame(f), NEW o, o = HeaderOctets(f)
  PROVE  /\ o \in Seq(Octet) /\ ReadNwk(o) = f.nwk /\ ReadNwkControl(o) = f.nwk.control
         /\ \A l : NwkKnown(l, f.nwk.control) => NwkOutcome(l, o) = "read"
         /\ RestOf(o) = IF IsSecured(f) THEN WriteAux(f.aux) ELSE <<>>
         /\ (IsSecured(f) => ReadAux(RestOf(o)) = f.aux /\ LeftOf(o) = <<>> /\ \A l : AuxOutcome(l, RestOf(o)) = "read")
<1> DEFINE u == WriteNwk(f.nwk)
           v == IF IsSecured(f) THEN WriteAux(f.aux) ELSE <<>>
           x == RestOf(o)
           a == Len(u)
           b == Len(u) + Len(v)
<1>1. IsNwk(f.nwk) /\ (IsSecured(f) => IsAux(f.aux))
  BY DEF IsFrame
<1>2. u \in Seq(Octet) /\ v \in Seq(Octet)
  <2>1. u \in Seq(Octet)
    BY <1>1, NwkWritten
  <2>2. CASE IsSecured(f)
    BY <1>1, <2>1, <2>2, AuxWritten
  <2>3. CASE ~IsSecured(f)
    BY <2>1, <2>3, NoOctets
  <2> QED BY <2>2, <2>3
<1>3. o = Cat(u, v)
  BY Zenon DEF HeaderOctets, Cat
<1> HIDE DEF u, v
<1>4. o \in Seq(Octet) /\ Len(o) = b /\ Begins(o, u) /\ Begins(o, Cat(u, v))
  BY <1>2, <1>3, CatOctets, BeginsCat
<1>5. /\ ReadNwk(o) = f.nwk /\ ReadNwkControl(o) = f.nwk.control /\ NwkLength(o) = a
      /\ \A l : NwkKnown(l, f.nwk.control) => NwkOutcome(l, o) = "read"
  <2>1. Begins(o, WriteNwk(f.nwk))
    BY <1>4 DEF u
  <2> QED BY <1>1, <1>4, <2>1, NwkBack DEF u
<1>6. x = v
  <2>1. Slice(o, a, b) = v
    BY <1>2, <1>4, PartSlice
  <2>2. x = Slice(o, a, b)
    BY <1>4, <1>5, Zenon DEF RestOf, Slice
  <2> QED BY <2>1, <2>2
<1>7. ASSUME IsSecured(f)
      PROVE  ReadAux(x) = f.aux /\ LeftOf(o) = <<>> /\ \A l : AuxOutcome(l, x) = "read"
  <2>1. x = WriteAux(f.aux) /\ IsAux(f.aux)
    BY <1>1, <1>6, <1>7 DEF v
  <2> HIDE DEF x
  <2>2. x \in Seq(Octet) /\ Begins(x, x) /\ Len(x) \in Nat
    BY <2>1, AuxWritten, BeginsCat, LenProperties
  <2>3. ReadAux(x) = f.aux /\ AuxLength(x) = Len(x) /\ \A l : AuxOutcome(l, x) = "read"
    <3>1. Begins(x, WriteAux(f.aux))
      BY <2>1, <2>2
    <3>2. ReadAux(x) = f.aux /\ AuxLength(x) = Len(WriteAux(f.aux)) /\ \A l : AuxOutcome(l, x) = "read"
      BY <2>1, <2>2, <3>1, AuxBack
    <3> QED BY <2>1, <3>2
  <2>4. SubSeq(x, Len(x) + 1, Len(x)) = <<>>
    <3>1. Slice(x, Len(x), Len(x)) = <<>>
      BY <2>2, EmptySlice
    <3> QED BY <3>1, Zenon DEF Slice
  <2>5. LeftOf(o) = <<>>
    BY <2>3, <2>4, Zenon DEF LeftOf, x
  <2> QED BY <2>3, <2>5
<1> HIDE DEF x
<1> QED BY <1>4, <1>5, <1>6, <1>7 DEF x, v

\* The headers that were read are those the octets begin with.
LEMMA OctetsRead ==
  ASSUME NEW o \in Seq(Octet), NEW l, NwkOutcome(l, o) = "read"
  PROVE  /\ IsNwk(ReadNwk(o)) /\ NwkKnown(l, ReadNwk(o).control) /\ ReadNwk(o).control = ReadNwkControl(o)
         /\ Begins(o, WriteNwk(ReadNwk(o))) /\ WriteNwk(ReadNwk(o)) \in Seq(Octet)
         /\ (AuxOutcome(l, RestOf(o)) = "read" =>
               /\ IsAux(ReadAux(RestOf(o)))
               /\ Cat(WriteNwk(ReadNwk(o)), WriteAux(ReadAux(RestOf(o)))) \in Seq(Octet)
               /\ Begins(o, Cat(WriteNwk(ReadNwk(o)), WriteAux(ReadAux(RestOf(o))))))
<1> DEFINE h == ReadNwk(o)
           u == WriteNwk(h)
           a == NwkLength(o)
           x == RestOf(o)
           v == WriteAux(ReadAux(x))
<1>1. /\ IsNwk(h) /\ h.control = ReadNwkControl(o) /\ NwkKnown(l, h.control)
      /\ a \in Nat /\ a <= Len(o) /\ u \in Seq(Octet) /\ Len(u) = a /\ Begins(o, u)
  BY NwkForth
<1> HIDE DEF h, u, a
<1>2. x = Slice(o, a, Len(o))
  BY Zenon DEF RestOf, Slice, a
<1>3. x \in Seq(Octet)
  <2>1. Len(o) \in Nat /\ Len(o) <= Len(o)
    BY LenProperties
  <2>2. Slice(o, a, Len(o)) \in Seq(Octet)
    BY <1>1, <2>1, SliceElements
  <2> QED BY <1>2, <2>2
<1> HIDE DEF x
<1>4. ASSUME AuxOutcome(l, x) = "read"
      PROVE  IsAux(ReadAux(x)) /\ Cat(u, v) \in Seq(Octet) /\ Begins(o, Cat(u, v))
  <2>1. IsAux(ReadAux(x)) /\ v \in Seq(Octet) /\ Begins(x, v)
    BY <1>3, <1>4, AuxForth
  <2> HIDE DEF v
  <2>2. Cat(u, v) \in Seq(Octet)
    BY <1>1, <2>1, CatOctets
  <2>3. Begins(Slice(o, a, Len(o)), v)
    BY <1>2, <2>1
  <2>4. Begins(o, Cat(u, v))
    BY <1>1, <2>1, <2>3, BeginsOn
  <2> QED BY <2>1, <2>2, <2>4
<1> QED BY <1>1, <1>4 DEF h, u, x
-------------------------------------------------------------------------------
(* The payload, and the lists of keys. *)

LEMMA PiecesAre ==
  ASSUME NEW o \in Seq(Octet)
  PROVE  IsSeq(Pieces(o)) /\ NoMac(Pieces(o))
<1> DEFINE n == (Len(o) + 3) \div PieceLength
           X(i) == SubSeq(o, PieceLength * (i - 1) + 1, Min({PieceLength * i, Len(o)}))
           p == Pieces(o)
<1>1. Len(o) \in Nat
  BY LenProperties
<1>2. n \in Nat
  BY <1>1 DEF PieceLength
<1>3. p = [i \in 1 .. n |-> {<<"text", X(i)>>}]
  BY Zenon DEF Pieces
<1> HIDE DEF n, X, p
<1>4. p = [i \in 1 .. n |-> p[i]] /\ \A i \in 1 .. n : p[i] = {<<"text", X(i)>>}
  BY <1>3
<1>5. IsSeq(p) /\ Len(p) = n
  BY <1>2, <1>4, IsSeqOf
<1>6. ASSUME NEW i \in 1 .. n, NEW b \in p[i] PROVE ~IsMac(b)
  <2> DEFINE x == X(i)
  <2>1. b = <<"text", x>>
    BY <1>4
  <2> HIDE DEF x
  <2>2. b[1] = "text"
    BY <2>1
  <2> QED BY <2>2 DEF IsMac
<1> QED BY <1>5, <1>6 DEF NoMac, p

LEMMA NoPieces == Pieces(<<>>) = <<>>
<1> DEFINE e == <<>>
           X(i) == SubSeq(e, PieceLength * (i - 1) + 1, Min({PieceLength * i, Len(e)}))
           p == Pieces(e)
<1>1. e \in Seq(Octet) /\ Len(e) = 0
  BY NoOctets
<1>2. (0 + 3) \div PieceLength = 0
  BY DEF PieceLength
<1>3. p = [i \in 1 .. 0 |-> {<<"text", X(i)>>}]
  <2> HIDE DEF e
  <2> QED BY <1>1, <1>2, Zenon DEF Pieces
<1> HIDE DEF X, p
<1>4. p = [i \in 1 .. 0 |-> p[i]]
  BY <1>3
<1>5. IsSeq(p) /\ Len(p) = 0
  BY <1>4, IsSeqOf
<1>6. IsSeq(e) /\ Len(e) = 0
  BY <1>1 DEF IsSeq
<1>7. \A i \in 1 .. 0 : p[i] = e[i]
  OBVIOUS
<1> HIDE DEF e
<1>8. p = e
  BY <1>5, <1>6, <1>7, SamePieces
<1> QED BY <1>8 DEF p, e

\* The payload that is given.
PayloadOctets(l, f) == IF IsPresent(f.aps) THEN WriteAps(l, f.aps[1]) ELSE f.octets

LEMMA PayloadIs ==
  ASSUME NEW f \in NwkFrames, NEW l \in Languages
  PROVE  /\ IsFrame(f)
         /\ (IsPresent(f.aps) => IsAps(f.aps[1]) /\ f.aps = <<f.aps[1]>>)
         /\ PayloadOctets(l, f) \in Seq(Octet) /\ Payload(l, f) = Pieces(PayloadOctets(l, f))
         /\ IsSeq(Payload(l, f)) /\ NoMac(Payload(l, f)) /\ Text(Payload(l, f)) = PayloadOctets(l, f)
<1> DEFINE o == PayloadOctets(l, f)
<1>1. IsFrame(f)
  BY SecurityAssumption DEF IsFrame, IsSecured
<1>2. IF IsPresent(f.aps) THEN IsAps(f.aps[1]) /\ f.aps = <<f.aps[1]>> ELSE f.octets \in Seq(Octet)
  BY SecurityAssumption, Zenon
<1>3. o \in Seq(Octet)
  <2>1. CASE IsPresent(f.aps)
    BY <1>2, <2>1, ApsBack DEF PayloadOctets
  <2>2. CASE ~IsPresent(f.aps)
    BY <1>2, <2>2, Zenon DEF PayloadOctets
  <2> QED BY <2>1, <2>2
<1>4. Payload(l, f) = Pieces(o)
  BY Zenon DEF Payload, PayloadOctets
<1> HIDE DEF o
<1>5. IsSeq(Pieces(o)) /\ NoMac(Pieces(o)) /\ Text(Pieces(o)) = o
  BY <1>3, PiecesAre, TextOfPieces
<1> QED BY <1>1, <1>2, <1>3, <1>4, <1>5, Zenon DEF o

\* Both scripts only move their keys.
IsList(list) == IsSeq(list) /\ \A k \in Keys : \E i \in 1 .. Len(list) : list[i] = k

LEMMA KeyListIs == IsList(KeyList)
<1>1. KeyList \in Seq(ToSet(KeyList)) /\ Keys \subseteq ToSet(KeyList)
  BY SecurityAssumption, Zenon
<1>2. IsSeq(KeyList)
  BY <1>1 DEF IsSeq
<1>3. DOMAIN KeyList = 1 .. Len(KeyList)
  BY <1>2, IsSeqIs
<1>4. \A k \in Keys : \E i \in DOMAIN KeyList : KeyList[i] = k
  BY <1>1 DEF ToSet
<1> QED BY <1>2, <1>3, <1>4 DEF IsList

LEMMA Removed ==
  ASSUME NEW list, IsSeq(list), NEW i \in 1 .. Len(list)
  PROVE  LET x == <<list[i]>> \o RemoveAt(list, i)
         IN  /\ IsSeq(x) /\ x[1] = list[i] /\ Len(x) \in Nat /\ 1 \in 1 .. Len(x)
             /\ \A j \in 1 .. Len(list) : \E m \in 1 .. Len(x) : x[m] = list[j]
<1> DEFINE n == Len(list)
           e == list[i]
           a == SubSeq(list, 1, i - 1)
           b == SubSeq(list, i + 1, n)
           r == RemoveAt(list, i)
           d == <<e>>
           x == d \o r
<1>1. PICK S : list \in Seq(S)
  BY DEF IsSeq
<1>2. n \in Nat /\ i \in 1 .. n /\ \A j \in 1 .. n : list[j] \in S
  BY <1>1, LenProperties, ElementOfSeq
<1>3. e \in S
  BY <1>2
<1>4. a \in Seq(S) /\ Len(a) = i - 1 /\ \A j \in 1 .. i - 1 : a[j] = list[j]
  <2>1. /\ 1 \in Int /\ i - 1 \in Int /\ (IF 1 <= i - 1 THEN i - 1 - 1 + 1 ELSE 0) = i - 1 /\ i - 1 - 1 + 1 = i - 1
        /\ (\A j \in 1 .. i - 1 : 1 + j - 1 = j) /\ \A j \in 1 .. i - 1 : list[j] \in S
    BY <1>2
  <2>2. /\ a \in Seq(S) /\ Len(a) = (IF 1 <= i - 1 THEN i - 1 - 1 + 1 ELSE 0)
        /\ \A j \in 1 .. i - 1 - 1 + 1 : a[j] = list[1 + j - 1]
    BY <2>1, SubSeqProperties
  <2> HIDE DEF a
  <2> QED BY <2>1, <2>2
<1>5. b \in Seq(S) /\ Len(b) = n - i /\ \A j \in 1 .. n - i : b[j] = list[i + j]
  <2>1. /\ i + 1 \in Int /\ n \in Int /\ (IF i + 1 <= n THEN n - (i + 1) + 1 ELSE 0) = n - i /\ n - (i + 1) + 1 = n - i
        /\ (\A j \in 1 .. n - i : i + 1 + j - 1 = i + j) /\ \A j \in i + 1 .. n : list[j] \in S
    BY <1>2
  <2> DEFINE m == i + 1
             y == SubSeq(list, m, n)
  <2>2. m \in Int /\ n \in Int /\ \A j \in m .. n : list[j] \in S
    BY <2>1
  <2> HIDE DEF m, n
  <2>3. y \in Seq(S) /\ Len(y) = (IF m <= n THEN n - m + 1 ELSE 0) /\ \A j \in 1 .. n - m + 1 : y[j] = list[m + j - 1]
    BY <2>2, SubSeqProperties
  <2>4. b = y
    BY DEF m
  <2> HIDE DEF b, y
  <2>5. /\ b \in Seq(S) /\ Len(b) = (IF i + 1 <= n THEN n - (i + 1) + 1 ELSE 0)
        /\ \A j \in 1 .. n - (i + 1) + 1 : b[j] = list[i + 1 + j - 1]
    BY <2>3, <2>4 DEF m
  <2> QED BY <2>1, <2>5
<1>6. r = a \o b
  BY Zenon DEF RemoveAt
<1>7. d \in Seq(S) /\ Len(d) = 1 /\ d[1] = e
  BY <1>3
<1> HIDE DEF n, e, a, b, d, r
<1>8. r \in Seq(S) /\ Len(r) = (i - 1) + (n - i) /\ \A j \in 1 .. (i - 1) + (n - i) : r[j] = IF j <= i - 1 THEN a[j] ELSE b[j - (i - 1)]
  <2>1. /\ a \o b \in Seq(S) /\ Len(a \o b) = Len(a) + Len(b)
        /\ \A j \in 1 .. Len(a) + Len(b) : (a \o b)[j] = IF j <= Len(a) THEN a[j] ELSE b[j - Len(a)]
    BY <1>4, <1>5, ConcatProperties
  <2>2. Len(a) = i - 1 /\ Len(b) = n - i
    BY <1>4, <1>5
  <2> QED BY <1>6, <2>1, <2>2, Zenon
<1>9. (i - 1) + (n - i) = n - 1
  BY <1>2
<1>10. x \in Seq(S) /\ Len(x) = 1 + (n - 1) /\ \A j \in 1 .. 1 + (n - 1) : x[j] = IF j <= 1 THEN d[j] ELSE r[j - 1]
  <2>1. /\ x \in Seq(S) /\ Len(x) = Len(d) + Len(r)
        /\ \A j \in 1 .. Len(d) + Len(r) : x[j] = IF j <= Len(d) THEN d[j] ELSE r[j - Len(d)]
    BY <1>7, <1>8, ConcatProperties
  <2>2. Len(d) = 1 /\ Len(r) = n - 1
    BY <1>7, <1>8, <1>9
  <2> HIDE DEF x
  <2> QED BY <2>1, <2>2, Zenon
<1> HIDE DEF x
<1>11. Len(x) = n /\ x[1] = e /\ 1 \in 1 .. n
  BY <1>2, <1>7, <1>10
<1>12. ASSUME NEW j \in 1 .. n PROVE \E m \in 1 .. n : x[m] = list[j]
  <2>1. CASE j < i
    <3>1. j + 1 \in 1 .. 1 + (n - 1) /\ ~(j + 1 <= 1) /\ (j + 1) - 1 = j /\ j \in 1 .. i - 1 /\ j \in 1 .. (i - 1) + (n - i) /\ j + 1 \in 1 .. n /\ j <= i - 1
      BY <1>2, <2>1
    <3>2. x[j + 1] = r[j] /\ r[j] = a[j] /\ a[j] = list[j]
      BY <1>4, <1>8, <1>10, <3>1
    <3> QED BY <3>1, <3>2
  <2>2. CASE j = i
    BY <1>11, <2>2 DEF e
  <2>3. CASE j > i
    <3>1. j \in 1 .. 1 + (n - 1) /\ ~(j <= 1) /\ j - 1 \in 1 .. (i - 1) + (n - i) /\ ~(j - 1 <= i - 1) /\ (j - 1) - (i - 1) = j - i
          /\ j - i \in 1 .. n - i /\ i + (j - i) = j
      BY <1>2, <2>3
    <3>2. x[j] = r[j - 1] /\ r[j - 1] = b[j - i] /\ b[j - i] = list[j]
      BY <1>5, <1>8, <1>10, <3>1
    <3> QED BY <3>2
  <2> QED BY <1>2, <2>1, <2>2, <2>3
<1>13. IsSeq(x)
  BY <1>10 DEF IsSeq
<1>14. IsSeq(x) /\ x[1] = e /\ Len(x) \in Nat /\ 1 \in 1 .. Len(x) /\ \A j \in 1 .. n : \E m \in 1 .. Len(x) : x[m] = list[j]
  <2> QED BY <1>2, <1>11, <1>12, <1>13
<1> QED BY <1>14, Zenon DEF x, d, r, e, n

LEMMA KeysMoved ==
  ASSUME NEW l, NEW list, IsList(list), NEW i \in 1 .. Len(list)
  PROVE  IsList(KeysAfter(l, list, i)) /\ KeysAfter(l, list, i)[1] = list[i]
<1> DEFINE x == KeysAfter(l, list, i)
           n == Len(list)
<1>1. IsSeq(list) /\ n \in Nat /\ DOMAIN list = 1 .. n /\ list = [j \in 1 .. n |-> list[j]] /\ 1 \in 1 .. n
      /\ \A k \in Keys : \E j \in 1 .. n : list[j] = k
  BY IsSeqIs DEF IsList
<1>2. CASE l = "rust"
  <2>1. x = [list EXCEPT ![1] = list[i], ![i] = list[1]]
    BY <1>2, Zenon DEF KeysAfter
  <2> HIDE DEF x, n
  <2>2. x = [j \in 1 .. n |-> IF j = i THEN list[1] ELSE IF j = 1 THEN list[i] ELSE list[j]]
    BY <1>1, <2>1 DEF n
  <2>3. x = [j \in 1 .. n |-> x[j]]
    BY <2>2
  <2>4. IsSeq(x) /\ Len(x) = n
    BY <1>1, <2>3, IsSeqOf
  <2>5. i \in 1 .. n
    BY DEF n
  <2>6. x[1] = list[i] /\ x[i] = list[1] /\ \A j \in 1 .. n : j # i /\ j # 1 => x[j] = list[j]
    BY <1>1, <2>2, <2>5
  <2>7. \A j \in 1 .. n : \E m \in 1 .. n : x[m] = list[j]
    <3> TAKE j \in 1 .. n
    <3>1. CASE j = 1
      BY <2>5, <2>6, <3>1
    <3>2. CASE j = i
      BY <1>1, <2>6, <3>2
    <3>3. CASE j # 1 /\ j # i
      BY <2>6, <3>3
    <3> QED BY <3>1, <3>2, <3>3
  <2>8. \A k \in Keys : \E m \in 1 .. Len(x) : x[m] = k
    <3> TAKE k \in Keys
    <3>1. PICK j \in 1 .. n : list[j] = k
      BY <1>1, Zenon
    <3>2. PICK m \in 1 .. n : x[m] = list[j]
      BY <2>7, Zenon
    <3> QED BY <2>4, <3>1, <3>2
  <2> QED BY <2>4, <2>6, <2>8 DEF IsList, x
<1>3. CASE l # "rust"
  <2>1. x = <<list[i]>> \o RemoveAt(list, i)
    BY <1>3, Zenon DEF KeysAfter
  <2>2. IsSeq(x) /\ x[1] = list[i] /\ \A j \in 1 .. n : \E m \in 1 .. Len(x) : x[m] = list[j]
    <3> DEFINE y == <<list[i]>> \o RemoveAt(list, i)
    <3>1. IsSeq(y) /\ y[1] = list[i] /\ \A j \in 1 .. n : \E m \in 1 .. Len(y) : y[m] = list[j]
      BY <1>1, Removed, Zenon
    <3> HIDE DEF x, y, n
    <3>2. x = y
      BY <2>1 DEF y
    <3> QED BY <3>1, <3>2
  <2> HIDE DEF x, n
  <2>3. \A k \in Keys : \E m \in 1 .. Len(x) : x[m] = k
    <3> TAKE k \in Keys
    <3>1. PICK j \in 1 .. n : list[j] = k
      BY <1>1, Zenon
    <3>2. PICK m \in 1 .. Len(x) : x[m] = list[j]
      BY <2>2, Zenon
    <3> QED BY <3>1, <3>2
  <2> QED BY <2>2, <2>3 DEF IsList, x
<1> QED BY <1>2, <1>3

\* The first key that fits.
LEMMA MinProperties ==
  ASSUME NEW S \in SUBSET Nat, S # {}
  PROVE  Min(S) \in S /\ \A y \in S : Min(S) <= y
<1> DEFINE R == OpToRel(<, Nat)
<1>1. PICK x \in S : \A y \in S : ~ (<<y, x>> \in R)
  <2>1. IsWellFoundedOn(R, Nat)
    BY NatLessThanWellFounded
  <2> HIDE DEF R
  <2> QED BY <2>1, WFMin
<1>2. ASSUME NEW y \in S PROVE x <= y
  <2>1. ~(y < x)
    BY <1>1 DEF OpToRel
  <2> QED BY <2>1
<1>3. \E z \in S : \A y \in S : z <= y
  BY <1>2
<1> QED BY <1>3 DEF Min
-------------------------------------------------------------------------------
(* What a script makes of a frame. *)

\* A key that fits was found.
Fits(l, list, f, r) ==
    \E i \in 1 .. Len(list), outcome \in {"dead", "opened"} :
       /\ IsPresent(Decrypt(list[i], f))
       /\ r = Result(outcome, KeysAfter(l, list, i), <<f>>, Decrypt(list[i], f))

NoneFits(list, f, r) == r = Result("failed", list, <<f>>, Absent)

\* No header was read, or the script ended before it had tried a key.
Nothing(list, r) == \E outcome : outcome \notin {"opened", "unread", "ended"} /\ r = NoFrame(outcome, list)

LEMMA TryKeysIs ==
  ASSUME NEW l, NEW list, IsSeq(list), NEW f
  PROVE  NoneFits(list, f, TryKeys(l, list, f)) \/ Fits(l, list, f, TryKeys(l, list, f))
<1> DEFINE fits == {i \in DOMAIN list : IsPresent(Decrypt(list[i], f))}
           i == Min(fits)
           text == Decrypt(list[i], f)
           outcome == IF l = "python" /\ ~PythonAsserts(list[i], f, text[1]) THEN "dead" ELSE "opened"
           r == TryKeys(l, list, f)
<1>1. r = IF fits = {} THEN Result("failed", list, <<f>>, Absent) ELSE Result(outcome, KeysAfter(l, list, i), <<f>>, text)
  BY Zenon DEF TryKeys
<1>2. CASE fits = {}
  BY <1>1, <1>2, Zenon DEF NoneFits
<1>3. CASE fits # {}
  <2>1. DOMAIN list = 1 .. Len(list)
    BY IsSeqIs
  <2>2. fits \in SUBSET Nat
    <3>1. fits \subseteq DOMAIN list
      OBVIOUS
    <3> HIDE DEF fits
    <3> QED BY <2>1, <3>1
  <2>3. i \in fits
    <3> HIDE DEF fits
    <3> QED BY <1>3, <2>2, MinProperties
  <2>4. i \in 1 .. Len(list) /\ IsPresent(Decrypt(list[i], f))
    BY <2>1, <2>3, Zenon
  <2>5. r = Result(outcome, KeysAfter(l, list, i), <<f>>, text)
    BY <1>1, <1>3, Zenon
  <2>6. outcome \in {"dead", "opened"}
    OBVIOUS
  <2> HIDE DEF i, outcome, r
  <2> QED BY <2>4, <2>5, <2>6, Zenon DEF Fits, r
<1> QED BY <1>2, <1>3

LEMMA SecuredIs ==
  ASSUME NEW l, NEW list, IsSeq(list), NEW f, NEW left
  PROVE  \/ Nothing(list, Secured(l, list, f, left))
         \/ NoneFits(list, f, Secured(l, list, f, left))
         \/ Fits(l, list, f, Secured(l, list, f, left))
<1> DEFINE r == Secured(l, list, f, left)
           x == NoFrame("dead", list)
           y == Result("failed", list, <<f>>, Absent)
           z == TryKeys(l, list, f)
           short == ~HasTag(left, f.pieces)
           can == CanAuthenticate(l, f)
<1>1. r = CASE ~can -> x [] can /\ l = "rust" /\ short -> x [] can /\ left # <<>> -> y [] OTHER -> z
  BY Zenon DEF Secured
<1>2. NoneFits(list, f, z) \/ Fits(l, list, f, z)
  BY TryKeysIs
<1>3. Nothing(list, x)
  BY Zenon DEF Nothing
<1>4. NoneFits(list, f, y)
  BY Zenon DEF NoneFits
<1> HIDE DEF x, y, z, short, can, r
<1>5. r = x \/ r = y \/ r = z
  BY <1>1
<1> QED BY <1>2, <1>3, <1>4, <1>5, Zenon DEF r

IsPlain(l, list, w, r) ==
    /\ NwkOutcome(l, w.octets) = "read" /\ l # "python"
    /\ ReadNwk(w.octets).control.security # 1
    /\ r = Result("plain", list, <<[nwk |-> ReadNwk(w.octets)]>>, <<Pieces(RestOf(w.octets)) \o w.pieces>>)

IsSecuredBy(l, list, w, r) ==
    /\ NwkOutcome(l, w.octets) = "read" /\ AuxOutcome(l, RestOf(w.octets)) = "read"
    /\ ReadNwk(w.octets).control.security = 1
    /\ r = Secured(l, list, FrameOf(w), LeftOf(w.octets))

\* Handle, with its parts by name.
LEMMA HandleParts ==
  ASSUME NEW l, NEW list, NEW w
  PROVE  Handle(l, list, w) =
           LET o == w.octets
               read == NwkOutcome(l, o)
               secured == ReadNwk(o).control.security = 1
               readAux == AuxOutcome(l, RestOf(o))
           IN  CASE read # "read" ->
                      IF w.pieces = <<>> \/ ~NwkKnown(l, ReadNwkControl(o)) THEN Unread(l, read, list)
                      ELSE UnknownOctets(l, list)
                 [] read = "read" /\ ~secured ->
                      IF l = "python" THEN {NoFrame("dead", list)}
                      ELSE {Result("plain", list, <<[nwk |-> ReadNwk(o)]>>, <<Pieces(RestOf(o)) \o w.pieces>>)}
                 [] read = "read" /\ secured /\ readAux # "read" ->
                      IF w.pieces = <<>> THEN Unread(l, readAux, list) ELSE UnknownOctets(l, list)
                 [] OTHER -> {Secured(l, list, FrameOf(w), LeftOf(o))}
  BY Zenon DEF Handle, RestOf, LeftOf, FrameOf

LEMMA UnreadIs ==
  ASSUME NEW l, NEW failure, NEW list
  PROVE  /\ \A r \in Unread(l, failure, list) : Nothing(list, r)
         /\ \A r \in UnknownOctets(l, list) : Nothing(list, r)
<1>1. ASSUME NEW r \in Unread(l, failure, list) PROVE Nothing(list, r)
  <2> DEFINE outcome == IF l = "rust" /\ failure = "error" THEN "skipped" ELSE "dead"
  <2>1. r = NoFrame(outcome, list)
    BY Zenon DEF Unread
  <2>2. outcome \notin {"opened", "unread", "ended"}
    OBVIOUS
  <2> HIDE DEF outcome
  <2> QED BY <2>1, <2>2, Zenon DEF Nothing
<1>2. ASSUME NEW r \in UnknownOctets(l, list) PROVE Nothing(list, r)
  <2>1. PICK outcome \in {"failed", "dead"} \cup (IF l = "rust" THEN {"skipped"} ELSE {}) : r = NoFrame(outcome, list)
    BY Zenon DEF UnknownOctets
  <2>2. outcome \notin {"opened", "unread", "ended"}
    OBVIOUS
  <2> QED BY <2>1, <2>2, Zenon DEF Nothing
<1> QED BY <1>1, <1>2

LEMMA HandleIs ==
  ASSUME NEW l, NEW list, NEW w, NEW r \in Handle(l, list, w)
  PROVE  Nothing(list, r) \/ IsPlain(l, list, w, r) \/ IsSecuredBy(l, list, w, r)
<1> DEFINE o == w.octets
           read == NwkOutcome(l, o)
           secured == ReadNwk(o).control.security = 1
           readAux == AuxOutcome(l, RestOf(o))
           A == IF w.pieces = <<>> \/ ~NwkKnown(l, ReadNwkControl(o)) THEN Unread(l, read, list)
                ELSE UnknownOctets(l, list)
           p == Result("plain", list, <<[nwk |-> ReadNwk(o)]>>, <<Pieces(RestOf(o)) \o w.pieces>>)
           B == IF l = "python" THEN {NoFrame("dead", list)} ELSE {p}
           C == IF w.pieces = <<>> THEN Unread(l, readAux, list) ELSE UnknownOctets(l, list)
           s == Secured(l, list, FrameOf(w), LeftOf(o))
<1>1. Handle(l, list, w) =
        CASE read # "read" -> A [] read = "read" /\ ~secured -> B
          [] read = "read" /\ secured /\ readAux # "read" -> C [] OTHER -> {s}
  BY HandleParts, Zenon
<1>2. \A x \in A : Nothing(list, x)
  BY UnreadIs, Zenon
<1>3. \A x \in C : Nothing(list, x)
  BY UnreadIs, Zenon
<1>4. Nothing(list, NoFrame("dead", list))
  BY Zenon DEF Nothing
<1> HIDE DEF A, C, s, p, read, secured, readAux
<1>5. \/ r \in A
      \/ r \in B /\ read = "read" /\ ~secured
      \/ r \in C
      \/ r = s /\ read = "read" /\ secured /\ readAux = "read"
  <2> HIDE DEF B
  <2>1. CASE read # "read"
    BY <1>1, <2>1
  <2>2. CASE read = "read" /\ ~secured
    BY <1>1, <2>2
  <2>3. CASE read = "read" /\ secured /\ readAux # "read"
    BY <1>1, <2>3
  <2>4. CASE read = "read" /\ secured /\ readAux = "read"
    <3>1. Handle(l, list, w) = {s}
      BY <1>1, <2>4
    <3> QED BY <2>4, <3>1
  <2> QED BY <2>1, <2>2, <2>3, <2>4
<1>6. CASE r \in B /\ read = "read" /\ ~secured
  <2>1. r = NoFrame("dead", list) \/ (l # "python" /\ r = p)
    BY <1>6
  <2>2. CASE l # "python" /\ r = p
    BY <1>6, <2>2, Zenon DEF IsPlain, p, read, secured
  <2> QED BY <1>4, <2>1, <2>2
<1>7. CASE r = s /\ read = "read" /\ secured /\ readAux = "read"
  BY <1>7, Zenon DEF IsSecuredBy, s, read, secured, readAux
<1> QED BY <1>2, <1>3, <1>5, <1>6, <1>7, Zenon

\* Whatever it was, the list keeps its keys and the frame is taken.
LEMMA ResultFields ==
  ASSUME NEW outcome, NEW list, NEW frame, NEW text, NEW r, r = Result(outcome, list, frame, text)
  PROVE  r.outcome = outcome /\ r.keys = list /\ r.frame = frame /\ r.text = text
<1>1. r = [outcome |-> outcome, keys |-> list, frame |-> frame, text |-> text]
  BY Zenon DEF Result
<1> QED BY <1>1

LEMMA NoFrameFields ==
  ASSUME NEW outcome, NEW list, NEW r, r = NoFrame(outcome, list)
  PROVE  r.outcome = outcome /\ r.keys = list /\ r.frame = Absent /\ r.text = Absent
<1>1. r = Result(outcome, list, Absent, Absent)
  BY Zenon DEF NoFrame
<1> QED BY <1>1, ResultFields

LEMMA HandledKeys ==
  ASSUME NEW l, NEW list, IsList(list), NEW w, NEW r \in Handle(l, list, w)
  PROVE  IsList(r.keys) /\ r.outcome \notin {"unread", "ended"}
<1>0. IsSeq(list)
  BY DEF IsList
<1>1. CASE Nothing(list, r)
  <2>1. PICK outcome : outcome \notin {"opened", "unread", "ended"} /\ r = NoFrame(outcome, list)
    BY <1>1 DEF Nothing
  <2>2. r.outcome = outcome /\ r.keys = list
    BY <2>1, NoFrameFields
  <2> QED BY <2>1, <2>2
<1>2. CASE IsPlain(l, list, w, r)
  <2>1. r.outcome = "plain" /\ r.keys = list
    <3> DEFINE f == <<[nwk |-> ReadNwk(w.octets)]>>
               t == <<Pieces(RestOf(w.octets)) \o w.pieces>>
    <3>1. r = Result("plain", list, f, t)
      BY <1>2, Zenon DEF IsPlain
    <3> HIDE DEF f, t
    <3> QED BY <3>1, ResultFields
  <2> QED BY <2>1
<1>3. CASE NoneFits(list, FrameOf(w), r)
  <2>1. r.outcome = "failed" /\ r.keys = list
    <3> DEFINE f == <<FrameOf(w)>>
    <3>1. r = Result("failed", list, f, Absent)
      BY <1>3, Zenon DEF NoneFits
    <3> HIDE DEF f
    <3> QED BY <3>1, ResultFields
  <2> QED BY <2>1
<1>4. CASE Fits(l, list, FrameOf(w), r)
  <2> DEFINE d(i) == Decrypt(list[i], FrameOf(w))
  <2>1. PICK i \in 1 .. Len(list), outcome \in {"dead", "opened"} :
          r = Result(outcome, KeysAfter(l, list, i), <<FrameOf(w)>>, d(i))
    BY <1>4, Zenon DEF Fits
  <2>2. r.outcome = outcome /\ r.keys = KeysAfter(l, list, i)
    <3> DEFINE f == <<FrameOf(w)>>
               t == d(i)
               x == KeysAfter(l, list, i)
    <3>1. r = Result(outcome, x, f, t)
      BY <2>1, Zenon
    <3> HIDE DEF f, t, x
    <3>2. r.outcome = outcome /\ r.keys = x
      BY <3>1, ResultFields
    <3> QED BY <3>2 DEF x
  <2>3. IsList(KeysAfter(l, list, i))
    BY KeysMoved
  <2> QED BY <2>1, <2>2, <2>3
<1>5. CASE IsSecuredBy(l, list, w, r)
  <2>1. r = Secured(l, list, FrameOf(w), LeftOf(w.octets))
    BY <1>5, Zenon DEF IsSecuredBy
  <2>2. Nothing(list, r) \/ NoneFits(list, FrameOf(w), r) \/ Fits(l, list, FrameOf(w), r)
    BY <1>0, <2>1, SecuredIs, Zenon
  <2> QED BY <1>1, <1>3, <1>4, <2>2
<1> QED BY <1>1, <1>2, <1>5, HandleIs
-------------------------------------------------------------------------------
(* What the air may do. *)

IsWire(w) == w = [octets |-> w.octets, pieces |-> w.pieces] /\ w.octets \in Seq(Octet) /\ IsSeq(w.pieces)

\* The air makes no MAC.
MacsOf(q, p) == \A i \in 1 .. Len(q) : \A b \in q[i] : IsMac(b) => \E j \in 1 .. Len(p) : b \in p[j]

LEMMA WireFields ==
  ASSUME NEW o \in Seq(Octet), NEW p, IsSeq(p), NEW w, w = [octets |-> o, pieces |-> p]
  PROVE  IsWire(w) /\ w.octets = o /\ w.pieces = p
<1>1. w.octets = o /\ w.pieces = p
  OBVIOUS
<1> QED BY <1>1, Zenon DEF IsWire

LEMMA SomeMacs == \A p : MacsOf(p, p)
  BY DEF MacsOf

LEMMA Flipped ==
  ASSUME NEW o \in Octet, NEW bits
  PROVE  Flip(o, bits) \in Octet
<1> DEFINE V(i) == IF i \in bits THEN 1 - Bits(o, i, 1) ELSE Bits(o, i, 1)
           Of(i) == 2^i * (IF i \in bits THEN 1 - Bits(o, i, 1) ELSE Bits(o, i, 1))
<1>1. \A i \in 0 .. 7 : V(i) \in 0 .. 1
  <2> TAKE i \in 0 .. 7
  <2> DEFINE b == Bits(o, i, 1)
  <2>1. b \in 0 .. 1
    BY BitIs
  <2> HIDE DEF b
  <2>2. 1 - b \in 0 .. 1
    BY <2>1
  <2> QED BY <2>1, <2>2 DEF b
<1>2. \A i : Of(i) = 2^i * V(i)
  OBVIOUS
<1>3. Flip(o, bits) = Of(0) + Of(1) + Of(2) + Of(3) + Of(4) + Of(5) + Of(6) + Of(7)
  BY Zenon DEF Flip
<1> HIDE DEF V, Of
<1> DEFINE v0 == V(0)
           v1 == V(1)
           v2 == V(2)
           v3 == V(3)
           v4 == V(4)
           v5 == V(5)
           v6 == V(6)
           v7 == V(7)
<1>4. /\ v0 \in 0 .. 1 /\ v1 \in 0 .. 1 /\ v2 \in 0 .. 1 /\ v3 \in 0 .. 1
      /\ v4 \in 0 .. 1 /\ v5 \in 0 .. 1 /\ v6 \in 0 .. 1 /\ v7 \in 0 .. 1
  BY <1>1
<1>5. /\ Of(0) = 1 * v0 /\ Of(1) = 2 * v1 /\ Of(2) = 4 * v2 /\ Of(3) = 8 * v3
      /\ Of(4) = 16 * v4 /\ Of(5) = 32 * v5 /\ Of(6) = 64 * v6 /\ Of(7) = 128 * v7
  BY <1>2, Powers, Zenon
<1> HIDE DEF v0, v1, v2, v3, v4, v5, v6, v7
<1> DEFINE n == 1 * v0 + 2 * v1 + 4 * v2 + 8 * v3 + 16 * v4 + 32 * v5 + 64 * v6 + 128 * v7
<1>6. Flip(o, bits) = n
  BY <1>3, <1>5, Zenon
<1>7. n \in 0 .. 255
  BY <1>4
<1> HIDE DEF n
<1> QED BY <1>6, <1>7 DEF Octet

FlipAt(w, i, b) == [w EXCEPT !.octets[i] = Flip(w.octets[i], b)]
NoiseAt(w, i) == [w EXCEPT !.pieces[i] = Noise(w.pieces[i])]
SwapAt(w, i, j) == [w EXCEPT !.pieces[i] = w.pieces[j], !.pieces[j] = w.pieces[i]]
EndAt(w, n) == [w EXCEPT !.pieces = SubSeq(w.pieces, 1, n)]
StartAt(w, n) == [octets |-> SubSeq(w.octets, 1, n), pieces |-> <<>>]

LEMMA ChangesAre ==
  \A w : Changed(w) =
         {FlipAt(w, i, b) : i \in DOMAIN w.octets, b \in Bursts}
    \cup {NoiseAt(w, i) : i \in DOMAIN w.pieces}
    \cup {SwapAt(w, i, j) : i, j \in DOMAIN w.pieces}
    \cup {EndAt(w, n) : n \in 0 .. Len(w.pieces) - 1}
    \cup {StartAt(w, n) : n \in 0 .. Len(w.octets) - 1}
  BY SMT DEF Changed, FlipAt, NoiseAt, SwapAt, EndAt, StartAt

LEMMA ChangeIs ==
  ASSUME NEW w, NEW x \in Changed(w)
  PROVE  \/ \E i \in DOMAIN w.octets, b \in Bursts : x = FlipAt(w, i, b)
         \/ \E i \in DOMAIN w.pieces : x = NoiseAt(w, i)
         \/ \E i \in DOMAIN w.pieces, j \in DOMAIN w.pieces : x = SwapAt(w, i, j)
         \/ \E n \in 0 .. Len(w.pieces) - 1 : x = EndAt(w, n)
         \/ \E n \in 0 .. Len(w.octets) - 1 : x = StartAt(w, n)
  BY ChangesAre

LEMMA WireChanged ==
  ASSUME NEW w, IsWire(w), NEW x \in Changed(w)
  PROVE  IsWire(x) /\ MacsOf(x.pieces, w.pieces)
<1> DEFINE o == w.octets
           p == w.pieces
<1>1. w = [octets |-> o, pieces |-> p] /\ o \in Seq(Octet) /\ IsSeq(p)
  BY DEF IsWire
<1>2. Len(p) \in Nat /\ DOMAIN p = 1 .. Len(p) /\ p = [i \in 1 .. Len(p) |-> p[i]]
  BY <1>1, IsSeqIs
<1>3. Len(o) \in Nat /\ DOMAIN o = 1 .. Len(o) /\ \A i \in 1 .. Len(o) : o[i] \in Octet
  BY <1>1, LenProperties, ElementOfSeq
<1> DEFINE Flips == \E i \in DOMAIN w.octets, b \in Bursts : x = FlipAt(w, i, b)
           Noises == \E i \in DOMAIN w.pieces : x = NoiseAt(w, i)
           Swaps == \E i \in DOMAIN w.pieces, j \in DOMAIN w.pieces :
                      x = SwapAt(w, i, j)
           Ends == \E n \in 0 .. Len(w.pieces) - 1 : x = EndAt(w, n)
           Starts == \E n \in 0 .. Len(w.octets) - 1 : x = StartAt(w, n)
<1>4. Flips \/ Noises \/ Swaps \/ Ends \/ Starts
  BY ChangeIs, Zenon
<1>5. CASE Flips
  <2>1. PICK i \in DOMAIN w.octets, b \in Bursts : x = [w EXCEPT !.octets[i] = Flip(w.octets[i], b)]
    BY <1>5, Zenon DEF FlipAt
  <2> DEFINE v == Flip(o[i], b)
             q == [o EXCEPT ![i] = v]
  <2>2. x = [w EXCEPT !.octets = q]
    BY <2>1, Zenon
  <2>3. v \in Octet
    BY <1>3, Flipped
  <2> HIDE DEF v
  <2>4. q \in Seq(Octet)
    <3> HIDE DEF o
    <3> QED BY <1>1, <1>3, <2>3
  <2> HIDE DEF o, p, q
  <2>5. x = [octets |-> q, pieces |-> p]
    BY <1>1, <2>2
  <2>6. IsWire(x) /\ x.pieces = p
    BY <1>1, <2>4, <2>5, WireFields
  <2> QED BY <2>6, SomeMacs DEF p
<1>6. CASE Noises
  <2>1. PICK i \in DOMAIN w.pieces : x = [w EXCEPT !.pieces[i] = Noise(w.pieces[i])]
    BY <1>6, Zenon DEF NoiseAt
  <2> DEFINE v == Noise(p[i])
             q == [p EXCEPT ![i] = v]
  <2>2. x = [w EXCEPT !.pieces = q]
    BY <2>1, Zenon
  <2>3. ASSUME NEW b \in v, IsMac(b) PROVE b \in p[i]
    <3> DEFINE m == <<"noise">>
    <3>1. b \in p[i] \/ b \in {m}
      BY <2>3, SymElement DEF Noise
    <3>2. m[1] = "noise"
      OBVIOUS
    <3> HIDE DEF m
    <3>3. CASE b = m
      BY <2>3, <3>2, <3>3 DEF IsMac
    <3> QED BY <3>1, <3>3
  <2> HIDE DEF v, o, p
  <2>4. q = [k \in 1 .. Len(p) |-> IF k = i THEN v ELSE p[k]]
    BY <1>2
  <2> HIDE DEF q
  <2>5. i \in 1 .. Len(p)
    BY <1>2 DEF p
  <2>6. q = [k \in 1 .. Len(p) |-> q[k]] /\ \A k \in 1 .. Len(p) : q[k] = IF k = i THEN v ELSE p[k]
    BY <2>4
  <2>7. IsSeq(q) /\ Len(q) = Len(p)
    BY <1>2, <2>6, IsSeqOf
  <2>8. MacsOf(q, p)
    <3> SUFFICES ASSUME NEW k \in 1 .. Len(p), NEW b \in q[k], IsMac(b) PROVE \E j \in 1 .. Len(p) : b \in p[j]
      BY <2>7 DEF MacsOf
    <3>1. CASE k = i
      BY <2>3, <2>5, <2>6, <3>1
    <3>2. CASE k # i
      BY <2>6, <3>2
    <3> QED BY <3>1, <3>2
  <2>9. x = [octets |-> o, pieces |-> q]
    BY <1>1, <2>2
  <2>10. IsWire(x) /\ x.pieces = q
    BY <1>1, <2>7, <2>9, WireFields
  <2> QED BY <2>8, <2>10 DEF p
<1>7. CASE Swaps
  <2>1. PICK i \in DOMAIN w.pieces, j \in DOMAIN w.pieces :
          x = [w EXCEPT !.pieces[i] = w.pieces[j], !.pieces[j] = w.pieces[i]]
    BY <1>7, Zenon DEF SwapAt
  <2> DEFINE q == [[p EXCEPT ![i] = p[j]] EXCEPT ![j] = p[i]]
             y == [w EXCEPT !.pieces[i] = w.pieces[j]]
             r == [p EXCEPT ![i] = p[j]]
  <2>2. x = [octets |-> o, pieces |-> q]
    <3>1. y = [octets |-> o, pieces |-> r]
      <4>1. y = [w EXCEPT !.pieces = r]
        BY Zenon
      <4> HIDE DEF y, r, o, p
      <4> QED BY <1>1, <4>1
    <3>2. x = [y EXCEPT !.pieces[j] = w.pieces[i]]
      BY <2>1, Zenon
    <3> HIDE DEF y, r
    <3>3. x = [y EXCEPT !.pieces = [y.pieces EXCEPT ![j] = w.pieces[i]]]
      BY <3>2, Zenon
    <3>4. y.pieces = r
      <4> HIDE DEF o, p
      <4> QED BY <3>1
    <3>5. x = [y EXCEPT !.pieces = q]
      BY <3>3, <3>4, Zenon DEF r
    <3> HIDE DEF q, o, p
    <3> QED BY <3>1, <3>5
  <2>3. i \in 1 .. Len(p) /\ j \in 1 .. Len(p)
    BY <1>2
  <2> HIDE DEF o, p
  <2>4. q = [k \in 1 .. Len(p) |-> IF k = j THEN p[i] ELSE IF k = i THEN p[j] ELSE p[k]]
    BY <1>2
  <2> HIDE DEF q
  <2>5. q = [k \in 1 .. Len(p) |-> q[k]] /\ \A k \in 1 .. Len(p) : q[k] = IF k = j THEN p[i] ELSE IF k = i THEN p[j] ELSE p[k]
    BY <2>4
  <2>6. IsSeq(q) /\ Len(q) = Len(p)
    BY <1>2, <2>5, IsSeqOf
  <2>7. MacsOf(q, p)
    <3> SUFFICES ASSUME NEW k \in 1 .. Len(p), NEW b \in q[k] PROVE \E m \in 1 .. Len(p) : b \in p[m]
      BY <2>6 DEF MacsOf
    <3> QED BY <2>3, <2>5
  <2>8. IsWire(x) /\ x.pieces = q
    BY <1>1, <2>2, <2>6, WireFields
  <2> QED BY <2>7, <2>8 DEF p
<1>8. CASE Ends
  <2>1. PICK n \in 0 .. Len(w.pieces) - 1 : x = [w EXCEPT !.pieces = SubSeq(w.pieces, 1, n)]
    BY <1>8, Zenon DEF EndAt
  <2> DEFINE q == SubSeq(p, 1, n)
  <2>2. x = [w EXCEPT !.pieces = q]
    BY <2>1, Zenon
  <2>3. n \in 0 .. Len(p) - 1
    OBVIOUS
  <2> HIDE DEF o, p
  <2>4. n \in 0 .. Len(p)
    BY <1>2, <2>3
  <2>5. IsSeq(q) /\ Len(q) = n /\ \A i \in 1 .. n : q[i] = p[i]
    BY <1>1, <2>4, FirstPieces
  <2> HIDE DEF q
  <2>6. x = [octets |-> o, pieces |-> q]
    BY <1>1, <2>2
  <2>7. \A i \in 1 .. n : i \in 1 .. Len(p)
    BY <1>2, <2>4
  <2>8. MacsOf(q, p)
    BY <2>5, <2>7 DEF MacsOf
  <2>9. IsWire(x) /\ x.pieces = q
    BY <1>1, <2>5, <2>6, WireFields
  <2> QED BY <2>8, <2>9 DEF p
<1>9. CASE Starts
  <2>1. PICK n \in 0 .. Len(w.octets) - 1 : x = [octets |-> SubSeq(w.octets, 1, n), pieces |-> <<>>]
    BY <1>9, Zenon DEF StartAt
  <2> DEFINE q == Slice(o, 0, n)
             e == <<>>
  <2>2. n \in 0 .. Len(o) - 1
    OBVIOUS
  <2>3. 0 + 1 = 1
    OBVIOUS
  <2>4. q = SubSeq(w.octets, 1, n)
    BY <2>3, Zenon DEF Slice
  <2>5. x = [octets |-> q, pieces |-> e]
    BY <2>1, <2>4, Zenon
  <2> HIDE DEF o, p
  <2>6. n \in 0 .. Len(o) /\ 0 \in Nat
    BY <1>3, <2>2
  <2>7. q \in Seq(Octet)
    BY <1>1, <2>6, SliceLength
  <2>8. e \in Seq(Octet) /\ Len(e) = 0
    BY NoOctets
  <2> HIDE DEF q, e
  <2>9. IsSeq(e)
    BY <2>8 DEF IsSeq
  <2>10. IsWire(x) /\ x.pieces = e
    BY <2>5, <2>7, <2>9, WireFields
  <2>11. MacsOf(e, p)
    BY <2>8 DEF MacsOf
  <2> QED BY <2>10, <2>11 DEF p
<1> HIDE DEF Flips, Noises, Swaps, Ends, Starts
<1> QED BY <1>4, <1>5, <1>6, <1>7, <1>8, <1>9
-------------------------------------------------------------------------------
(* The invariant. *)

\* The only MAC on the air is that of the frame that was sent.
MacsAre(x, p) ==
    IF IsSecured(x.given) THEN OnlyMac(p, MacAtom(x.key, x.given, Payload(x.sealer, x.given))) ELSE NoMac(p)

IsSent(x) ==
    /\ x.given \in NwkFrames /\ x.key \in Keys /\ x.sealer \in Languages
    /\ CanWrite(x.sealer, x.given) /\ x.wire = Write(x.sealer, x.key, x.given)

WireInv == IsWire(wire)
SentInv == sent # Absent => IsSent(sent[1]) /\ MacsAre(sent[1], wire.pieces)
KeysInv == keys = [l \in Languages |-> keys[l]] /\ \A l \in Languages : IsList(keys[l])

\* What was taken is what the script makes of the frame, with its keys in some order.
ResultInv ==
    /\ result = [l \in Languages |-> result[l]]
    /\ \A l \in Languages : Taken(l) => \E list : IsList(list) /\ result[l] \in Handle(l, list, wire)

SecurityInv == WireInv /\ SentInv /\ KeysInv /\ ResultInv

LEMMA SecurityInitInv == SecurityInit => SecurityInv
<1> SUFFICES ASSUME SecurityInit PROVE SecurityInv
  OBVIOUS
<1> DEFINE e == <<>>
<1>1. wire = [octets |-> e, pieces |-> e] /\ sent = Absent /\ keys = [l \in Languages |-> KeyList] /\ result = Unseen
  BY Zenon DEF SecurityInit
<1>2. e \in Seq(Octet)
  BY NoOctets
<1> HIDE DEF e
<1>3. IsSeq(e)
  BY <1>2 DEF IsSeq
<1>4. WireInv
  BY <1>1, <1>2, <1>3, WireFields DEF WireInv
<1>5. SentInv
  BY <1>1, Zenon DEF SentInv
<1>6. KeysInv
  <2>1. \A l \in Languages : keys[l] = KeyList
    BY <1>1
  <2>2. keys = [l \in Languages |-> keys[l]]
    BY <1>1
  <2> QED BY <2>1, <2>2, KeyListIs DEF KeysInv
<1>7. ResultInv
  <2>1. result = [l \in Languages |-> NoFrame("unread", KeyList)]
    BY <1>1, Zenon DEF Unseen
  <2>2. result = [l \in Languages |-> result[l]]
    BY <2>1
  <2>3. \A l \in Languages : ~Taken(l)
    BY <1>1, Zenon DEF Taken
  <2> QED BY <2>2, <2>3, Zenon DEF ResultInv
<1> QED BY <1>4, <1>5, <1>6, <1>7 DEF SecurityInv

LEMMA WriteIs ==
  ASSUME NEW l \in Languages, NEW k, NEW f \in NwkFrames
  PROVE  /\ IsWire(Write(l, k, f)) /\ Write(l, k, f).octets = HeaderOctets(f)
         /\ Write(l, k, f).pieces = IF IsSecured(f) THEN Encrypt(k, f, Payload(l, f)) ELSE Payload(l, f)
         /\ \A x : x.given = f /\ x.key = k /\ x.sealer = l => MacsAre(x, Write(l, k, f).pieces)
<1> DEFINE o == HeaderOctets(f)
           t == Payload(l, f)
           p == IF IsSecured(f) THEN Encrypt(k, f, t) ELSE t
           w == Write(l, k, f)
<1>1. w = [octets |-> o, pieces |-> p]
  BY Zenon DEF Write, HeaderOctets
<1>2. o \in Seq(Octet)
  <2>1. IsFrame(f)
    BY PayloadIs
  <2> HIDE DEF o
  <2> QED BY <2>1, OwnOctets DEF o
<1>3. IsSeq(t) /\ NoMac(t)
  BY PayloadIs
<1>4. IsSeq(p) /\ (IsSecured(f) => OnlyMac(p, MacAtom(k, f, t))) /\ (~IsSecured(f) => NoMac(p))
  <2>1. CASE IsSecured(f)
    <3>1. p = Encrypt(k, f, t)
      BY <2>1, Zenon
    <3> HIDE DEF t, p
    <3> QED BY <1>3, <2>1, <3>1, EncryptIs, EncryptMac
  <2>2. CASE ~IsSecured(f)
    BY <1>3, <2>2, Zenon
  <2> QED BY <2>1, <2>2
<1> HIDE DEF o, p, w
<1>5. IsWire(w) /\ w.octets = o /\ w.pieces = p
  BY <1>1, <1>2, <1>4, WireFields
<1>6. ASSUME NEW x, x.given = f /\ x.key = k /\ x.sealer = l PROVE MacsAre(x, w.pieces)
  BY <1>4, <1>5, <1>6, Zenon DEF MacsAre
<1> QED BY <1>5, <1>6, Zenon DEF o, p, w

LEMMA SendFrameInv ==
  ASSUME SecurityInv, NEW l \in Languages, NEW k \in Keys, NEW f \in NwkFrames, SendFrame(l, k, f)
  PROVE  SecurityInv'
<1> DEFINE y == Write(l, k, f)
           x == [given |-> f, key |-> k, sealer |-> l, wire |-> y]
           O(m) == IF result[m].outcome \in {"dead", "ended"} THEN "ended" ELSE "unread"
<1>1. /\ sent' = <<x>> /\ wire' = y /\ keys' = keys /\ CanWrite(l, f)
      /\ result' = [m \in Languages |-> NoFrame(O(m), keys[m])]
  BY Zenon DEF SendFrame
<1>2. IsWire(y) /\ \A z : z.given = f /\ z.key = k /\ z.sealer = l => MacsAre(z, y.pieces)
  BY WriteIs
<1>3. WireInv'
  BY <1>1, <1>2, Zenon DEF WireInv
<1>4. IsSent(x) /\ MacsAre(x, y.pieces)
  <2> HIDE DEF y
  <2>1. x.given = f /\ x.key = k /\ x.sealer = l /\ x.wire = y
    OBVIOUS
  <2> HIDE DEF x
  <2> QED BY <1>1, <1>2, <2>1, Zenon DEF IsSent, y
<1>5. SentInv'
  <2> HIDE DEF x, y
  <2>1. sent'[1] = x
    BY <1>1
  <2> QED BY <1>1, <1>4, <2>1, Zenon DEF SentInv
<1>6. KeysInv'
  BY <1>1, Zenon DEF SecurityInv, KeysInv
<1>7. ResultInv'
  <2> DEFINE R(m) == NoFrame(O(m), keys[m])
  <2>1. \A m : R(m).outcome = O(m)
    BY NoFrameFields
  <2>2. \A m : O(m) \in {"unread", "ended"}
    OBVIOUS
  <2> HIDE DEF O
  <2>3. result' = [m \in Languages |-> R(m)]
    BY <1>1, Zenon
  <2> HIDE DEF R
  <2>4. result' = [m \in Languages |-> result'[m]] /\ \A m \in Languages : result'[m] = R(m)
    BY <2>3
  <2>5. \A m \in Languages : ~Taken(m)'
    BY <2>1, <2>2, <2>4 DEF Taken
  <2> QED BY <2>4, <2>5, Zenon DEF ResultInv
<1> QED BY <1>3, <1>5, <1>6, <1>7 DEF SecurityInv

LEMMA MacsKept ==
  ASSUME NEW x, NEW p, NEW q, MacsAre(x, p), MacsOf(q, p)
  PROVE  MacsAre(x, q)
<1> DEFINE a == MacAtom(x.key, x.given, Payload(x.sealer, x.given))
<1>1. CASE IsSecured(x.given)
  <2>1. OnlyMac(p, a)
    BY <1>1, Zenon DEF MacsAre
  <2> HIDE DEF a
  <2>2. OnlyMac(q, a)
    BY <2>1 DEF OnlyMac, MacsOf
  <2> QED BY <1>1, <2>2, Zenon DEF MacsAre, a
<1>2. CASE ~IsSecured(x.given)
  <2>1. NoMac(p)
    BY <1>2, Zenon DEF MacsAre
  <2>2. NoMac(q)
    BY <2>1 DEF NoMac, MacsOf
  <2> QED BY <1>2, <2>2, Zenon DEF MacsAre
<1> QED BY <1>1, <1>2

LEMMA ChangeInv ==
  ASSUME SecurityInv, Change
  PROVE  SecurityInv'
<1>1. /\ sent' = sent /\ keys' = keys /\ result' = result /\ wire' \in Changed(wire)
      /\ \A l \in Languages : result[l].outcome \in {"unread", "ended"}
  BY Zenon DEF Change
<1>2. IsWire(wire)
  BY DEF SecurityInv, WireInv
<1>3. IsWire(wire') /\ MacsOf(wire'.pieces, wire.pieces)
  BY <1>1, <1>2, WireChanged
<1>4. WireInv'
  BY <1>3 DEF WireInv
<1>5. SentInv'
  <2> SUFFICES ASSUME sent # Absent PROVE IsSent(sent[1]) /\ MacsAre(sent[1], wire'.pieces)
    BY <1>1, Zenon DEF SentInv
  <2>1. IsSent(sent[1]) /\ MacsAre(sent[1], wire.pieces)
    BY Zenon DEF SecurityInv, SentInv
  <2> QED BY <1>3, <2>1, MacsKept
<1>6. KeysInv'
  BY <1>1, Zenon DEF SecurityInv, KeysInv
<1>7. ResultInv'
  <2>1. \A l \in Languages : ~Taken(l)'
    BY <1>1, Zenon DEF Taken
  <2> QED BY <1>1, <2>1, Zenon DEF SecurityInv, ResultInv
<1> QED BY <1>4, <1>5, <1>6, <1>7 DEF SecurityInv

LEMMA DumpInv ==
  ASSUME SecurityInv, NEW l \in Languages, Dump(l)
  PROVE  SecurityInv'
<1>1. sent' = sent /\ wire' = wire
  BY Zenon DEF Dump
<1>2. PICK r \in Handle(l, keys[l], wire) : result' = [result EXCEPT ![l] = r] /\ keys' = [keys EXCEPT ![l] = r.keys]
  BY Zenon DEF Dump
<1>3. /\ keys = [m \in Languages |-> keys[m]] /\ (\A m \in Languages : IsList(keys[m]))
      /\ result = [m \in Languages |-> result[m]]
  BY Zenon DEF SecurityInv, KeysInv, ResultInv
<1> DEFINE q == r.keys
<1>4. IsList(q)
  BY <1>3, HandledKeys
<1> HIDE DEF q
<1>5. KeysInv'
  <2>1. keys' = [keys EXCEPT ![l] = q]
    BY <1>2 DEF q
  <2>2. keys' = [m \in Languages |-> keys'[m]] /\ \A m \in Languages : keys'[m] = IF m = l THEN q ELSE keys[m]
    BY <1>3, <2>1
  <2>3. \A m \in Languages : IsList(keys'[m])
    BY <1>3, <1>4, <2>2
  <2> QED BY <2>2, <2>3 DEF KeysInv
<1>6. ResultInv'
  <2>1. result' = [m \in Languages |-> result'[m]] /\ result'[l] = r /\ \A m \in Languages : m # l => result'[m] = result[m]
    BY <1>2, <1>3
  <2>2. ASSUME NEW m \in Languages, Taken(m)' PROVE \E list : IsList(list) /\ result'[m] \in Handle(m, list, wire')
    <3>1. CASE m = l
      BY <1>1, <1>2, <1>3, <2>1, <3>1, Zenon
    <3>2. CASE m # l
      <4>1. Taken(m)
        BY <1>1, <2>1, <2>2, <3>2, Zenon DEF Taken
      <4>2. \E list : IsList(list) /\ result[m] \in Handle(m, list, wire)
        BY <4>1, Zenon DEF SecurityInv, ResultInv
      <4> QED BY <1>1, <2>1, <3>2, <4>2, Zenon
    <3> QED BY <3>1, <3>2
  <2> QED BY <2>1, <2>2, Zenon DEF ResultInv
<1>7. WireInv' /\ SentInv'
  BY <1>1, Zenon DEF SecurityInv, WireInv, SentInv
<1> QED BY <1>5, <1>6, <1>7 DEF SecurityInv

LEMMA SecurityStep == SecurityInv /\ [SecurityNext]_securityVars => SecurityInv'
<1> SUFFICES ASSUME SecurityInv, [SecurityNext]_securityVars PROVE SecurityInv'
  OBVIOUS
<1>1. CASE \E l \in Languages, k \in Keys, f \in NwkFrames : SendFrame(l, k, f)
  BY <1>1, SendFrameInv
<1>2. CASE Change
  BY <1>2, ChangeInv
<1>3. CASE \E l \in Languages : Dump(l)
  BY <1>3, DumpInv
<1>4. CASE UNCHANGED securityVars
  <2>1. sent' = sent /\ wire' = wire /\ keys' = keys /\ result' = result
    BY <1>4 DEF securityVars
  <2> QED BY <2>1, Zenon DEF SecurityInv, WireInv, SentInv, KeysInv, ResultInv, Taken
<1> QED BY <1>1, <1>2, <1>3, <1>4, Zenon DEF SecurityNext

LEMMA SecurityAlways == SecuritySpec => []SecurityInv
  BY SecurityInitInv, SecurityStep, PTL DEF SecuritySpec
-------------------------------------------------------------------------------
(* The properties. *)

\* A key that fits is the one that was used, and the text that was encrypted.
LEMMA KeyIs ==
  ASSUME NEW x, IsSent(x), NEW f, IsSeq(f.pieces), MacsAre(x, f.pieces), NEW k, IsPresent(Decrypt(k, f))
  PROVE  /\ IsSecured(x.given) /\ k = x.key /\ Decrypt(k, f) = <<Payload(x.sealer, x.given)>>
         /\ Headers(f) = Headers(x.given)
<1> DEFINE g == x.given
           u == Payload(x.sealer, g)
           a == MacAtom(x.key, g, u)
           p == f.pieces
           d == Decrypt(k, f)
<1>1. PICK t : d = <<t>> /\ Len(p) \in 1 .. Len(p) /\ MacAtom(k, f, t) \in p[Len(p)]
  BY DecryptMac
<1> DEFINE b == MacAtom(k, f, t)
<1>2. IsMac(b)
  BY MacAtomIsMac, Zenon
<1>3. IsSecured(g) /\ b = a
  <2>1. IF IsSecured(g) THEN OnlyMac(p, a) ELSE NoMac(p)
    BY Zenon DEF MacsAre
  <2> HIDE DEF a, b, p, d
  <2>2. CASE IsSecured(g)
    BY <1>1, <1>2, <2>1, <2>2 DEF OnlyMac, b
  <2>3. CASE ~IsSecured(g)
    BY <1>1, <1>2, <2>1, <2>3 DEF NoMac, b
  <2> QED BY <2>2, <2>3
<1>4. k = x.key /\ Headers(f) = Headers(g) /\ t = u
  <2> HIDE DEF g, u, d, p
  <2> QED BY <1>3, MacAtomIs
<1> HIDE DEF u, d, a, b, p
<1>5. d = <<u>>
  BY <1>1, <1>4
<1> QED BY <1>3, <1>4, <1>5, Zenon DEF u, d, g

LEMMA FitsIs ==
  ASSUME NEW w, IsWire(w), NEW x, IsSent(x), MacsAre(x, w.pieces), NEW l, NEW list, IsList(list), NEW r,
         NwkOutcome(l, w.octets) = "read", AuxOutcome(l, RestOf(w.octets)) = "read", Fits(l, list, FrameOf(w), r)
  PROVE  /\ r.keys[1] = x.key /\ r.text = <<Payload(x.sealer, x.given)>> /\ r.frame = <<FrameOf(w)>>
         /\ FrameOf(w).nwk = x.given.nwk /\ Modified(FrameOf(w).aux) = Modified(x.given.aux)
<1> DEFINE f == FrameOf(w)
           o == w.octets
<1>1. f.nwk = ReadNwk(o) /\ f.aux = ReadAux(RestOf(o)) /\ f.pieces = w.pieces
  BY DEF FrameOf
<1>2. IsNwk(f.nwk) /\ IsAux(f.aux)
  <2>1. o \in Seq(Octet)
    BY DEF IsWire
  <2> HIDE DEF o, f
  <2>2. IsNwk(ReadNwk(o)) /\ IsAux(ReadAux(RestOf(o)))
    BY <2>1, OctetsRead DEF o
  <2> QED BY <1>1, <2>2
<1>3. IsSeq(f.pieces) /\ MacsAre(x, f.pieces)
  BY <1>1, Zenon DEF IsWire
<1> HIDE DEF f, o
<1>4. PICK i \in 1 .. Len(list), outcome \in {"dead", "opened"} :
        IsPresent(Decrypt(list[i], f)) /\ r = Result(outcome, KeysAfter(l, list, i), <<f>>, Decrypt(list[i], f))
  BY Zenon DEF Fits, f
<1> DEFINE k == list[i]
           d == Decrypt(k, f)
           y == KeysAfter(l, list, i)
           z == <<f>>
<1>5. y[1] = k
  BY KeysMoved
<1>6. r.keys = y /\ r.frame = z /\ r.text = d
  <2>1. r = Result(outcome, y, z, d)
    BY <1>4, Zenon
  <2> HIDE DEF y, z, d
  <2> QED BY <2>1, ResultFields
<1>7. IsPresent(Decrypt(k, f))
  BY <1>4, Zenon
<1> HIDE DEF k, y, z
<1>8. IsSecured(x.given) /\ k = x.key /\ d = <<Payload(x.sealer, x.given)>> /\ Headers(f) = Headers(x.given)
  BY <1>3, <1>7, KeyIs
<1>9. IsNwk(x.given.nwk) /\ IsAux(x.given.aux)
  <2>1. IsFrame(x.given)
    BY PayloadIs, Zenon DEF IsSent
  <2> QED BY <1>8, <2>1, Zenon DEF IsFrame
<1>10. f.nwk = x.given.nwk /\ Modified(f.aux) = Modified(x.given.aux)
  BY <1>2, <1>8, <1>9, HeadersTell
<1> QED BY <1>5, <1>6, <1>8, <1>10, Zenon DEF z, f

\* What was made of a frame that was taken.
LEMMA TakenIs ==
  ASSUME SecurityInv, NEW l \in Languages, Taken(l)
  PROVE  /\ IsWire(wire) /\ IsSent(sent[1]) /\ MacsAre(sent[1], wire.pieces)
         /\ \E list : IsList(list) /\ result[l] \in Handle(l, list, wire)
  BY Zenon DEF SecurityInv, WireInv, SentInv, ResultInv, Taken

LEMMA TakenCases ==
  ASSUME NEW l, NEW list, IsList(list), NEW w, NEW r \in Handle(l, list, w)
  PROVE  \/ Nothing(list, r) \/ IsPlain(l, list, w, r)
         \/ /\ NwkOutcome(l, w.octets) = "read" /\ AuxOutcome(l, RestOf(w.octets)) = "read"
            /\ ReadNwk(w.octets).control.security = 1
            /\ NoneFits(list, FrameOf(w), r) \/ Fits(l, list, FrameOf(w), r)
<1>1. CASE IsSecuredBy(l, list, w, r)
  <2>1. r = Secured(l, list, FrameOf(w), LeftOf(w.octets))
    BY <1>1, Zenon DEF IsSecuredBy
  <2>2. Nothing(list, r) \/ NoneFits(list, FrameOf(w), r) \/ Fits(l, list, FrameOf(w), r)
    <3>1. IsSeq(list)
      BY DEF IsList
    <3> QED BY <2>1, <3>1, SecuredIs, Zenon
  <2> QED BY <1>1, <2>2, Zenon DEF IsSecuredBy
<1> QED BY <1>1, HandleIs, Zenon

PlainText(w) == Pieces(RestOf(w.octets)) \o w.pieces

LEMMA PlainFields ==
  ASSUME NEW l, NEW list, NEW w, NEW r, IsPlain(l, list, w, r)
  PROVE  /\ r.outcome = "plain" /\ r.frame = <<[nwk |-> ReadNwk(w.octets)]>>
         /\ r.text = <<PlainText(w)>>
<1> DEFINE f == <<[nwk |-> ReadNwk(w.octets)]>>
           t == <<PlainText(w)>>
<1>1. r = Result("plain", list, f, t)
  BY Zenon DEF IsPlain, PlainText
<1> HIDE DEF f, t
<1>2. r.outcome = "plain" /\ r.frame = f /\ r.text = t
  BY <1>1, ResultFields
<1> QED BY <1>2, Zenon DEF f, t

LEMMA NoneFields ==
  ASSUME NEW list, NEW f, NEW r, NoneFits(list, f, r)
  PROVE  r.outcome = "failed" /\ r.frame = <<f>> /\ r.text = Absent
<1> DEFINE z == <<f>>
<1>1. r = Result("failed", list, z, Absent)
  BY Zenon DEF NoneFits
<1> HIDE DEF z
<1>2. r.outcome = "failed" /\ r.frame = z /\ r.text = Absent
  BY <1>1, ResultFields
<1> QED BY <1>2 DEF z

LEMMA NothingFields ==
  ASSUME NEW list, NEW r, Nothing(list, r)
  PROVE  r.outcome # "opened" /\ ~IsPresent(r.frame) /\ ~IsPresent(r.text)
<1>1. PICK outcome : outcome \notin {"opened", "unread", "ended"} /\ r = NoFrame(outcome, list)
  BY DEF Nothing
<1>2. r.outcome = outcome /\ r.frame = Absent /\ r.text = Absent
  BY <1>1, NoFrameFields
<1> QED BY <1>1, <1>2 DEF IsPresent

LEMMA NothingElse == SecurityInv => NothingElseOpens
<1> SUFFICES ASSUME SecurityInv, NEW l \in Languages, Taken(l), result[l].outcome = "opened"
             PROVE  /\ result[l].keys[1] = sent[1].key /\ result[l].text = <<GivenText>>
                    /\ result[l].frame[1].nwk = Given.nwk
                    /\ Modified(result[l].frame[1].aux) = Modified(Given.aux)
  BY Zenon DEF NothingElseOpens
<1> DEFINE r == result[l]
           x == sent[1]
           f == FrameOf(wire)
<1>1. PICK list : IsList(list) /\ r \in Handle(l, list, wire)
  BY TakenIs
<1>2. IsWire(wire) /\ IsSent(x) /\ MacsAre(x, wire.pieces)
  BY TakenIs
<1> HIDE DEF r, x, f
<1>3. r.outcome = "opened"
  BY DEF r
<1>4. ~Nothing(list, r) /\ ~IsPlain(l, list, wire, r) /\ ~NoneFits(list, f, r)
  <2>1. ~Nothing(list, r)
    BY <1>3, NothingFields
  <2>2. ~IsPlain(l, list, wire, r)
    BY <1>3, PlainFields, Zenon
  <2>3. ~NoneFits(list, f, r)
    BY <1>3, NoneFields
  <2> QED BY <2>1, <2>2, <2>3
<1>5. NwkOutcome(l, wire.octets) = "read" /\ AuxOutcome(l, RestOf(wire.octets)) = "read" /\ Fits(l, list, f, r)
  BY <1>1, <1>4, TakenCases, Zenon DEF f
<1>6. /\ r.keys[1] = x.key /\ r.text = <<Payload(x.sealer, x.given)>> /\ r.frame = <<f>>
      /\ f.nwk = x.given.nwk /\ Modified(f.aux) = Modified(x.given.aux)
  BY <1>1, <1>2, <1>5, FitsIs, Zenon DEF f
<1>7. r.frame[1] = f
  BY <1>6
<1> QED BY <1>6, <1>7, Zenon DEF r, x, Given, GivenText

\* A prefix, as the library has it.
LEMMA PrefixOf ==
  ASSUME NEW o \in Seq(Octet), NEW u \in Seq(Octet), Begins(o, u)
  PROVE  IsPrefix(u, o)
<1> DEFINE n == Len(u)
           a == Slice(u, 0, n)
           b == Slice(o, 0, n)
<1>1. n \in Nat /\ Len(o) \in Nat /\ n <= Len(o) /\ n <= Len(u) /\ \A k \in 1 .. n : o[k] = u[k]
  BY LenProperties DEF Begins
<1> HIDE DEF n
<1>2. 0 \in Nat /\ 0 <= n /\ n - 0 = n /\ \A k \in 1 .. n : 0 + k = k
  BY <1>1
<1>3. a \in Seq(Octet) /\ Len(a) = n /\ \A k \in 1 .. n : a[k] = u[k]
  <2>1. a \in Seq(Octet) /\ Len(a) = n - 0 /\ \A k \in 1 .. n - 0 : a[k] = u[0 + k]
    BY <1>1, <1>2, SliceElements
  <2> HIDE DEF a
  <2> QED BY <1>2, <2>1
<1>4. b \in Seq(Octet) /\ Len(b) = n /\ \A k \in 1 .. n : b[k] = o[k]
  <2>1. b \in Seq(Octet) /\ Len(b) = n - 0 /\ \A k \in 1 .. n - 0 : b[k] = o[0 + k]
    BY <1>1, <1>2, SliceElements
  <2> HIDE DEF b
  <2> QED BY <1>2, <2>1
<1> HIDE DEF a, b
<1>5. a = b
  BY <1>1, <1>3, <1>4, SeqEqual
<1>6. SubSeq(u, 1, n) = SubSeq(o, 1, n)
  <2>1. 0 + 1 = 1
    OBVIOUS
  <2> QED BY <1>5, <2>1, Zenon DEF a, b, Slice
<1> QED BY <1>1, <1>6, Zenon DEF IsPrefix, n

LEMMA HeadersKept == SecurityInv => HeadersSurvive
<1> SUFFICES ASSUME SecurityInv, NEW l \in Languages, Taken(l), IsPresent(result[l].frame)
             PROVE  IsPrefix(HeaderOctets(result[l].frame[1]), wire.octets)
  BY Zenon DEF HeadersSurvive, HeaderOctets
<1> DEFINE r == result[l]
           f == FrameOf(wire)
           o == wire.octets
           h == ReadNwk(o)
<1>1. PICK list : IsList(list) /\ r \in Handle(l, list, wire)
  BY TakenIs
<1>2. IsPresent(r.frame)
  OBVIOUS
<1>3. o \in Seq(Octet)
  BY TakenIs, Zenon DEF IsWire
<1> SUFFICES IsPrefix(HeaderOctets(r.frame[1]), o)
  OBVIOUS
<1> HIDE DEF r, f, o, h
<1>4. ~Nothing(list, r)
  BY <1>2, NothingFields
<1>5. CASE IsPlain(l, list, wire, r)
  <2> DEFINE g == [nwk |-> h]
  <2>1. r.frame = <<g>> /\ NwkOutcome(l, o) = "read" /\ h.control.security # 1
    BY <1>5, PlainFields, Zenon DEF IsPlain, h, o
  <2>2. g.nwk = h
    OBVIOUS
  <2> HIDE DEF g
  <2>3. r.frame[1] = g
    BY <2>1
  <2>4. HeaderOctets(g) = Cat(WriteNwk(h), <<>>)
    <3>1. ~IsSecured(g)
      BY <2>1, <2>2, Zenon DEF IsSecured
    <3> QED BY <2>2, <3>1, Zenon DEF HeaderOctets, Cat
  <2>5. Begins(o, WriteNwk(h)) /\ WriteNwk(h) \in Seq(Octet)
    BY <1>3, <2>1, OctetsRead DEF h
  <2>6. Cat(WriteNwk(h), <<>>) = WriteNwk(h)
    BY <2>5, CatEmpty
  <2> QED BY <1>3, <2>3, <2>4, <2>5, <2>6, PrefixOf
<1>6. CASE /\ NwkOutcome(l, o) = "read" /\ AuxOutcome(l, RestOf(o)) = "read" /\ h.control.security = 1
           /\ NoneFits(list, f, r) \/ Fits(l, list, f, r)
  <2>1. r.frame = <<f>>
    <3>1. CASE NoneFits(list, f, r)
      BY <3>1, NoneFields
    <3>2. CASE Fits(l, list, f, r)
      <4>1. IsWire(wire) /\ IsSent(sent[1]) /\ MacsAre(sent[1], wire.pieces)
        BY TakenIs
      <4> QED BY <1>1, <1>6, <3>2, <4>1, FitsIs, Zenon DEF f, o
    <3> QED BY <1>6, <3>1, <3>2
  <2>2. r.frame[1] = f
    BY <2>1
  <2>3. f.nwk = h /\ f.aux = ReadAux(RestOf(o))
    BY DEF f, FrameOf, h, o
  <2> DEFINE c == Cat(WriteNwk(h), WriteAux(ReadAux(RestOf(o))))
  <2>4. HeaderOctets(f) = c
    <3>1. IsSecured(f)
      BY <1>6, <2>3, Zenon DEF IsSecured
    <3> QED BY <2>3, <3>1, Zenon DEF HeaderOctets, Cat
  <2>5. Begins(o, c) /\ c \in Seq(Octet)
    BY <1>3, <1>6, OctetsRead DEF h
  <2> HIDE DEF c
  <2> QED BY <1>3, <2>2, <2>4, <2>5, PrefixOf
<1> QED BY <1>1, <1>4, <1>5, <1>6, TakenCases, Zenon DEF f, h, o
-------------------------------------------------------------------------------
(* What arrives as it was sent. *)

AsSent(x, w) == w = x.wire

\* The octets and the pieces of what was sent.
LEMMA SentIs ==
  ASSUME NEW x, IsSent(x), NEW w, AsSent(x, w)
  PROVE  /\ IsFrame(x.given) /\ w.octets = HeaderOctets(x.given)
         /\ w.pieces = IF IsSecured(x.given) THEN Encrypt(x.key, x.given, Payload(x.sealer, x.given))
                       ELSE Payload(x.sealer, x.given)
<1>1. x.given \in NwkFrames /\ x.sealer \in Languages /\ w = Write(x.sealer, x.key, x.given)
  BY Zenon DEF IsSent, AsSent
<1> DEFINE g == x.given
           l == x.sealer
           k == x.key
<1> HIDE DEF g, l, k
<1>2. g \in NwkFrames /\ l \in Languages /\ w = Write(l, k, g)
  BY <1>1, Zenon DEF g, l, k
<1>3. IsFrame(g)
  BY <1>2, PayloadIs
<1>4. /\ Write(l, k, g).octets = HeaderOctets(g)
      /\ Write(l, k, g).pieces = IF IsSecured(g) THEN Encrypt(k, g, Payload(l, g)) ELSE Payload(l, g)
  BY <1>2, WriteIs
<1> QED BY <1>2, <1>3, <1>4, Zenon DEF g, l, k

LEMMA PresentOne == \A t : IsPresent(<<t>>)
  BY DEF IsPresent, Absent

\* A secured frame that arrives as it was sent, and is known, is tried with the keys.
LEMMA HandleOwn ==
  ASSUME NEW x, IsSent(x), IsSecured(x.given), NEW w, AsSent(x, w), NEW l, NEW list,
         NwkKnown(l, x.given.nwk.control), CanAuthenticate(l, x.given)
  PROVE  /\ Alike(FrameOf(w), x.given)
         /\ Handle(l, list, w) = {TryKeys(l, list, FrameOf(w))}
<1> DEFINE g == x.given
           o == w.octets
           p == w.pieces
           f == FrameOf(w)
           left == LeftOf(o)
<1>1. IsFrame(g) /\ o = HeaderOctets(g) /\ p = Encrypt(x.key, g, Payload(x.sealer, g))
  BY SentIs, Zenon
<1>2. /\ ReadNwk(o) = g.nwk /\ NwkOutcome(l, o) = "read" /\ ReadAux(RestOf(o)) = g.aux
      /\ left = <<>> /\ AuxOutcome(l, RestOf(o)) = "read"
  <2> HIDE DEF g, o, left
  <2>1. IsSecured(g) /\ NwkKnown(l, g.nwk.control)
    BY DEF g
  <2> QED BY <1>1, <2>1, OwnOctets, Zenon DEF left
<1>3. f.nwk = g.nwk /\ f.aux = g.aux /\ f.pieces = p
  <2>1. f = [nwk |-> ReadNwk(o), aux |-> ReadAux(RestOf(o)), pieces |-> p]
    BY Zenon DEF FrameOf
  <2> HIDE DEF f, g, o, p
  <2> QED BY <1>2, <2>1
<1>4. Alike(f, g)
  BY <1>3, Zenon DEF Alike
<1>5. HasTag(left, p)
  <2> DEFINE t == Payload(x.sealer, g)
             e == TagIs(x.key, g, t)
  <2>1. IsSeq(t)
    BY PayloadIs, Zenon DEF IsSent
  <2>2. PieceOctets(e) = PieceLength
    BY TagOctets
  <2> HIDE DEF t, p, g, e, left
  <2>3. Len(t) \in Nat /\ Len(p) = Len(t) + 1 /\ p[Len(t) + 1] = e
    BY <1>1, <2>1, IsSeqIs, EncryptIs DEF t, e
  <2>4. CASE Len(t) = 0
    <3>1. Len(p) = 1 /\ p[1] = e /\ Len(left) = 0
      BY <1>2, <2>3, <2>4
    <3> QED BY <2>2, <3>1 DEF HasTag, PieceLength
  <2>5. CASE Len(t) > 0
    BY <2>3, <2>5 DEF HasTag
  <2> QED BY <2>3, <2>4, <2>5
<1> DEFINE short == ~HasTag(left, f.pieces)
           can == CanAuthenticate(l, f)
           n == NoFrame("dead", list)
           m == Result("failed", list, <<f>>, Absent)
           z == TryKeys(l, list, f)
           s == Secured(l, list, f, left)
<1>6. can
  BY <1>4, AlikeFrames
<1>7. ~short
  <2> HIDE DEF p, f, left
  <2> QED BY <1>3, <1>5
<1>8. s = CASE ~can -> n [] can /\ l = "rust" /\ short -> n [] can /\ left # <<>> -> m [] OTHER -> z
  BY Zenon DEF Secured
<1>9. s = z
  <2> HIDE DEF can, short, n, m, z, s, left
  <2> QED BY <1>2, <1>6, <1>7, <1>8
<1>10. Handle(l, list, w) = {s}
  <2> DEFINE read == NwkOutcome(l, o)
             secured == ReadNwk(o).control.security = 1
             readAux == AuxOutcome(l, RestOf(o))
             A == IF w.pieces = <<>> \/ ~NwkKnown(l, ReadNwkControl(o)) THEN Unread(l, read, list)
                  ELSE UnknownOctets(l, list)
             B == IF l = "python" THEN {NoFrame("dead", list)}
                  ELSE {Result("plain", list, <<[nwk |-> ReadNwk(o)]>>, <<Pieces(RestOf(o)) \o w.pieces>>)}
             C == IF w.pieces = <<>> THEN Unread(l, readAux, list) ELSE UnknownOctets(l, list)
  <2>1. Handle(l, list, w) =
          CASE read # "read" -> A [] read = "read" /\ ~secured -> B
            [] read = "read" /\ secured /\ readAux # "read" -> C [] OTHER -> {s}
    BY HandleParts, Zenon
  <2>2. read = "read" /\ readAux = "read" /\ secured
    BY <1>2, Zenon DEF IsSecured
  <2> HIDE DEF A, B, C, s, read, secured, readAux
  <2> QED BY <2>1, <2>2
<1> QED BY <1>4, <1>9, <1>10, Zenon

Openable(l, x) ==
    /\ IsSecured(x.given) /\ NwkKnown(l, x.given.nwk.control) /\ CanAuthenticate(l, x.given)
    /\ ~(/\ l = "python" /\ x.given.nwk.control.type = 0
         /\ Len(Text(Payload(x.sealer, x.given))) < ApsHeaderLength)

\* It is decrypted, and Python's assertions hold.
LEMMA OpenedOwn ==
  ASSUME NEW x, IsSent(x), NEW w, AsSent(x, w), MacsAre(x, w.pieces), NEW l, NEW list, IsList(list), Openable(l, x)
  PROVE  /\ TryKeys(l, list, FrameOf(w)).outcome = "opened"
         /\ TryKeys(l, list, FrameOf(w)).frame = <<FrameOf(w)>>
         /\ TryKeys(l, list, FrameOf(w)).text = <<Payload(x.sealer, x.given)>>
         /\ Encrypt(x.key, FrameOf(w), Payload(x.sealer, x.given)) = w.pieces
<1> DEFINE g == x.given
           t == Payload(x.sealer, g)
           f == FrameOf(w)
           fits == {j \in DOMAIN list : IsPresent(Decrypt(list[j], f))}
           i == Min(fits)
           k == list[i]
           d == Decrypt(k, f)
           outcome == IF l = "python" /\ ~PythonAsserts(k, f, d[1]) THEN "dead" ELSE "opened"
           y == KeysAfter(l, list, i)
           z == <<f>>
           r == TryKeys(l, list, f)
<1>0. /\ IsSecured(x.given) /\ NwkKnown(l, x.given.nwk.control) /\ CanAuthenticate(l, x.given)
      /\ ~(l = "python" /\ x.given.nwk.control.type = 0 /\ Len(Text(t)) < ApsHeaderLength)
  BY Zenon DEF Openable
<1>1. g \in NwkFrames /\ x.sealer \in Languages /\ x.key \in Keys
  BY Zenon DEF IsSent
<1>2. Alike(f, g) /\ IsSeq(t) /\ Text(t) \in Seq(Octet)
  <2>1. Alike(f, g)
    BY <1>0, HandleOwn, Zenon
  <2>2. IsSeq(t) /\ Text(t) = PayloadOctets(x.sealer, g) /\ PayloadOctets(x.sealer, g) \in Seq(Octet)
    BY <1>1, PayloadIs, Zenon
  <2> HIDE DEF t, f, g
  <2> QED BY <2>1, <2>2
<1>3. f.pieces = w.pieces /\ w.pieces = Encrypt(x.key, g, t)
  <2>1. f.pieces = w.pieces
    BY DEF FrameOf
  <2> QED BY <1>0, <2>1, SentIs, Zenon
<1>4. IsSeq(w.pieces)
  BY <1>2, <1>3, EncryptIs
<1> DEFINE Fit(j) == IsPresent(Decrypt(list[j], f))
<1>5. DOMAIN list = 1 .. Len(list)
  BY IsSeqIs DEF IsList
<1>6. \E j \in DOMAIN list : Fit(j)
  <2>1. PICK j \in 1 .. Len(list) : list[j] = x.key
    BY <1>1 DEF IsList
  <2>2. Decrypt(x.key, f) = <<t>>
    <3> HIDE DEF t, f, g
    <3> QED BY <1>2, <1>3, DecryptOwn
  <2> HIDE DEF f, t
  <2>3. IsPresent(Decrypt(x.key, f))
    BY <2>2, PresentOne, Zenon
  <2> QED BY <1>5, <2>1, <2>3
<1>7. r = IF fits = {} THEN Result("failed", list, <<f>>, Absent) ELSE Result(outcome, y, z, d)
  BY Zenon DEF TryKeys
<1>8. i \in DOMAIN list /\ Fit(i) /\ fits # {}
  <2> HIDE DEF Fit
  <2>1. fits = {j \in DOMAIN list : Fit(j)}
    BY DEF Fit
  <2> HIDE DEF fits
  <2>2. fits # {} /\ fits \in SUBSET Nat
    BY <1>5, <1>6, <2>1
  <2>3. Min(fits) \in fits
    BY <2>2, MinProperties
  <2> QED BY <2>1, <2>2, <2>3
<1>9. r = Result(outcome, y, z, d)
  BY <1>7, <1>8, Zenon
<1>10. k = x.key /\ d = <<t>>
  <2>1. IsPresent(Decrypt(k, f))
    BY <1>8
  <2>2. IsSeq(f.pieces) /\ MacsAre(x, f.pieces)
    BY <1>3, <1>4, Zenon
  <2> HIDE DEF f, k, i, g
  <2>3. k = x.key /\ Decrypt(k, f) = <<Payload(x.sealer, x.given)>>
    BY <2>1, <2>2, KeyIs
  <2> QED BY <2>3, Zenon DEF g
<1>11. Encrypt(x.key, f, t) = f.pieces
  <2>1. Encrypt(x.key, f, t) = Append(CryptText(x.key, f, t), TagIs(x.key, f, t))
    <3> HIDE DEF t, f
    <3> QED BY <1>2, EncryptIs
  <2>2. Encrypt(x.key, g, t) = Append(CryptText(x.key, g, t), TagIs(x.key, g, t))
    <3> HIDE DEF t, g
    <3> QED BY <1>2, EncryptIs
  <2> HIDE DEF t, f, g
  <2>3. CryptText(x.key, f, t) = CryptText(x.key, g, t) /\ MacAtom(x.key, f, t) = MacAtom(x.key, g, t)
        /\ KeyStream(x.key, f, 0, 0) = KeyStream(x.key, g, 0, 0)
    BY <1>2, AlikeFrames
  <2>4. TagIs(x.key, f, t) = TagIs(x.key, g, t)
    BY <2>3, Zenon DEF TagIs
  <2> QED BY <1>3, <2>1, <2>2, <2>3, <2>4, Zenon
<1>12. outcome = "opened"
  <2> SUFFICES ASSUME l = "python" PROVE PythonAsserts(k, f, d[1])
    BY Zenon
  <2>1. ASSUME f.nwk.control.type = 0 PROVE IsPresent(ReadAps("python", Text(t)))
    <3> DEFINE u == Text(t)
    <3>1. f.nwk = g.nwk
      BY <1>2, Zenon DEF Alike
    <3>2. ~(Len(u) < ApsHeaderLength)
      BY <1>0, <2>1, <3>1, Zenon
    <3>3. ApsKnown("python", ReadApsControl(u[1]))
      BY Zenon DEF ApsKnown
    <3> DEFINE v == [control |-> ReadApsControl(u[1]), destination |-> u[2],
                     cluster |-> Number(SubSeq(u, 3, 4)), profile |-> Number(SubSeq(u, 5, 6)),
                     source |-> u[7], counter |-> u[8], asdu |-> SubSeq(u, 9, Len(u))]
    <3> HIDE DEF u
    <3>4. ReadAps("python", u) = <<v>>
      BY <3>2, <3>3, Zenon DEF ReadAps
    <3> HIDE DEF v
    <3> QED BY <3>4, PresentOne, Zenon DEF u
  <2> HIDE DEF t, d, k, f, i
  <2>2. d[1] = t
    BY <1>10
  <2> QED BY <1>10, <1>11, <2>1, <2>2, Zenon DEF PythonAsserts
<1> HIDE DEF outcome, y, z, d, r
<1>13. r.outcome = outcome /\ r.frame = z /\ r.text = d
  BY <1>9, ResultFields
<1> QED BY <1>3, <1>10, <1>11, <1>12, <1>13, Zenon DEF r, z

LEMMA OpenedFrame ==
  ASSUME NEW x, IsSent(x), NEW w, AsSent(x, w), MacsAre(x, w.pieces), NEW l, NEW list, IsList(list), Openable(l, x),
         NEW r \in Handle(l, list, w)
  PROVE  /\ r.outcome = "opened" /\ r.frame[1].nwk = x.given.nwk /\ r.frame[1].aux = x.given.aux
         /\ r.text = <<Payload(x.sealer, x.given)>> /\ Encrypt(x.key, r.frame[1], r.text[1]) = w.pieces
<1> DEFINE f == FrameOf(w)
           t == Payload(x.sealer, x.given)
           q == TryKeys(l, list, f)
<1>1. Alike(f, x.given) /\ Handle(l, list, w) = {q}
  BY HandleOwn, Zenon DEF Openable
<1>2. q.outcome = "opened" /\ q.frame = <<f>> /\ q.text = <<t>> /\ Encrypt(x.key, f, t) = w.pieces
  BY OpenedOwn, Zenon
<1> HIDE DEF f, t, q
<1>3. r = q
  BY <1>1
<1>4. r.frame[1] = f /\ r.text[1] = t
  BY <1>2, <1>3
<1> QED BY <1>1, <1>2, <1>3, <1>4, Zenon DEF Alike, t

LEMMA Opens == SecurityInv => OpensWhatWasSealed
<1> SUFFICES ASSUME SecurityInv, NEW l \in Languages,
                    Taken(l), AsSent(sent[1], wire), Openable(l, sent[1])
             PROVE  /\ result[l].outcome = "opened"
                    /\ result[l].frame[1].nwk = Given.nwk /\ result[l].frame[1].aux = Given.aux
                    /\ result[l].text = <<GivenText>>
                    /\ Encrypt(sent[1].key, result[l].frame[1], result[l].text[1]) = wire.pieces
  BY Zenon DEF OpensWhatWasSealed, AsSent, Openable, EndsPython, Given, GivenText
<1> DEFINE r == result[l]
           x == sent[1]
<1>1. PICK list : IsList(list) /\ r \in Handle(l, list, wire)
  BY TakenIs
<1>2. IsSent(x) /\ MacsAre(x, wire.pieces)
  BY TakenIs
<1>3. AsSent(x, wire) /\ Openable(l, x)
  OBVIOUS
<1> SUFFICES /\ r.outcome = "opened" /\ r.frame[1].nwk = x.given.nwk /\ r.frame[1].aux = x.given.aux
             /\ r.text = <<Payload(x.sealer, x.given)>> /\ Encrypt(x.key, r.frame[1], r.text[1]) = wire.pieces
  BY Zenon DEF Given, GivenText
<1> HIDE DEF r, x
<1> QED BY <1>1, <1>2, <1>3, OpenedFrame

LEMMA ApsFrameIs ==
  ASSUME NEW x, IsSent(x), NEW w, AsSent(x, w), IsWire(w), MacsAre(x, w.pieces), IsPresent(x.given.aps),
         NEW l, NEW list, IsList(list), NEW r \in Handle(l, list, w), IsPresent(r.text)
  PROVE  ReadAps(l, Text(r.text[1])) =
           IF ApsKnown(l, x.given.aps[1].control) THEN <<ApsAs(x.sealer, x.given.aps[1])>> ELSE Absent
<1> DEFINE g == x.given
           t == Payload(x.sealer, g)
           o == w.octets
           f == FrameOf(w)
           a == g.aps[1]
<1>1. IsPresent(g.aps)
  OBVIOUS
<1>2. g \in NwkFrames /\ x.sealer \in Languages
  BY Zenon DEF IsSent
<1>3. /\ IsFrame(g) /\ IsAps(a) /\ Text(t) = WriteAps(x.sealer, a)
  <2>1. PayloadOctets(x.sealer, g) = WriteAps(x.sealer, a)
    BY <1>1, Zenon DEF PayloadOctets
  <2> QED BY <1>1, <1>2, <2>1, PayloadIs, Zenon
<1>4. IsFrame(g) /\ o = HeaderOctets(g)
  BY SentIs, Zenon
<1>5. r.text = <<t>>
  <2>1. ~Nothing(list, r)
    BY <1>1, NothingFields
  <2>2. CASE IsPlain(l, list, w, r)
    <3> HIDE DEF g, t, o
    <3>1. /\ r.text = <<Pieces(RestOf(o)) \o w.pieces>> /\ NwkOutcome(l, o) = "read"
          /\ ReadNwk(o).control.security # 1
      <4>1. NwkOutcome(l, o) = "read" /\ ReadNwk(o).control.security # 1
        BY <2>2, Zenon DEF IsPlain, o
      <4>2. r.text = <<PlainText(w)>>
        BY <2>2, PlainFields, Zenon
      <4> QED BY <4>1, <4>2, Zenon DEF o, PlainText
    <3>2. ReadNwk(o) = g.nwk /\ RestOf(o) = IF IsSecured(g) THEN WriteAux(g.aux) ELSE <<>>
      BY <1>4, OwnOctets
    <3>3. ~IsSecured(g) /\ RestOf(o) = <<>>
      BY <3>1, <3>2, Zenon DEF IsSecured
    <3>4. w.pieces = t
      BY <3>3, SentIs, Zenon DEF g, t
    <3>5. Pieces(RestOf(o)) = <<>>
      BY <3>3, NoPieces, Zenon
    <3>6. <<>> \o t = t
      <4>1. IsSeq(t)
        BY <1>2, PayloadIs DEF t
      <4>2. PICK S : t \in Seq(S)
        BY <4>1 DEF IsSeq
      <4> QED BY <4>2, ConcatEmptySeq
    <3> QED BY <3>1, <3>4, <3>5, <3>6, Zenon
  <2>3. CASE /\ NwkOutcome(l, o) = "read" /\ AuxOutcome(l, RestOf(o)) = "read"
             /\ NoneFits(list, f, r) \/ Fits(l, list, f, r)
    <3>1. ~NoneFits(list, f, r)
      BY <1>1, NoneFields DEF IsPresent
    <3> QED BY <2>3, <3>1, FitsIs, Zenon
  <2> QED BY <2>1, <2>2, <2>3, TakenCases, Zenon
<1>6. r.text[1] = t
  <2> HIDE DEF t
  <2> QED BY <1>5
<1> HIDE DEF a, t, g
<1>7. ReadAps(l, WriteAps(x.sealer, a)) = IF ApsKnown(l, a.control) THEN <<ApsAs(x.sealer, a)>> ELSE Absent
  BY <1>2, <1>3, ApsBack
<1> QED BY <1>3, <1>6, <1>7, Zenon DEF a, g

LEMMA ApsKept == SecurityInv => ApsSurvives
<1> SUFFICES ASSUME SecurityInv, NEW l \in Languages,
                    Taken(l), IsPresent(Given.aps), AsSent(sent[1], wire), IsPresent(result[l].text)
             PROVE  ReadAps(l, Text(result[l].text[1])) =
                      IF ApsKnown(l, Given.aps[1].control) THEN <<AsWritten(Given.aps[1])>> ELSE Absent
  BY Zenon DEF ApsSurvives, AsSent
<1> DEFINE r == result[l]
           x == sent[1]
           a == x.given.aps[1]
<1>1. PICK list : IsList(list) /\ r \in Handle(l, list, wire)
  BY TakenIs
<1>2. IsWire(wire) /\ IsSent(x) /\ MacsAre(x, wire.pieces)
  BY TakenIs
<1>3. AsSent(x, wire) /\ IsPresent(x.given.aps) /\ IsPresent(r.text)
  BY Zenon DEF Given
<1>4. AsWritten(a) = ApsAs(x.sealer, a)
  BY Zenon DEF AsWritten, ApsAs
<1> SUFFICES ReadAps(l, Text(r.text[1])) = IF ApsKnown(l, a.control) THEN <<ApsAs(x.sealer, a)>> ELSE Absent
  BY <1>4, Zenon DEF Given
<1> HIDE DEF r, x, a
<1>5. ReadAps(l, Text(r.text[1])) = IF ApsKnown(l, x.given.aps[1].control) THEN <<ApsAs(x.sealer, x.given.aps[1])>> ELSE Absent
  BY <1>1, <1>2, <1>3, ApsFrameIs
<1> QED BY <1>5, Zenon DEF a

\* A frame that arrives as it was sent is decrypted, by both scripts, with its key,
\* to the headers and the payload that were given, and encrypts to the same again, whatever
\* was decrypted before (dump_pcap.rs:123-133, zigbee_types.py:667-686).
THEOREM AlwaysOpens == SecuritySpec => []OpensWhatWasSealed
  BY SecurityAlways, Opens, PTL

\* Whatever the air did, a frame is only decrypted with the key it was encrypted with, to
\* its payload and its headers but for the level (zigbee_nwk.rs:630-654,
\* zigbee_types.py:507-542).
THEOREM NothingElseEverOpens == SecuritySpec => []NothingElseOpens
  BY SecurityAlways, NothingElse, PTL

\* Headers that were read, of whatever octets, are written again to the octets they were
\* read from: the MAC is of what arrived (zigbee_nwk.rs:473-474, zigbee_types.py:457).
THEOREM HeadersAlwaysSurvive == SecuritySpec => []HeadersSurvive
  BY SecurityAlways, HeadersKept, PTL

\* The APS frame of a payload that was sealed by one language is read by the other as it was
\* given, but for the two numbers that Rust swaps and for what Rust does not know
\* (zigbee_aps.rs:96-126, zigbee_types.py:603-632).
THEOREM ApsAlwaysSurvives == SecuritySpec => []ApsSurvives
  BY SecurityAlways, ApsKept, PTL
===============================================================================
