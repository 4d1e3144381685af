------------------------ MODULE InstanceListProofs -------------------------
(***************************************************************************)
(* The list of instances follows the daemon, for any number of remotes,    *)
(* changes, switches of the remote, readers and broken streams: no change  *)
(* goes by unnoticed, and what is acted on is news of the current remote.  *)
(***************************************************************************)
EXTENDS InstanceList, SequenceTheorems, TLAPS

(* A reader that has asked knows whom, and is never told of a change that  *)
(* has not been made.                                                      *)
ReadersKnow ==
  \A i \in Reader :
    /\ reader[i].stage \in {"asked", "answered"} => reader[i].remote \in Remote
    /\ reader[i].stage = "answered" => reader[i].version <= version[reader[i].remote]

Dialled == {"asking", "reading", "silent"}

(* A listener that has dialled knows whom, and has an event on its socket  *)
(* for each change at the most; before, there are none.                    *)
ListenersKnow ==
  \A e \in Epoch :
    /\ listener[e].stage \in Dialled => listener[e].remote \in Remote
    /\ listener[e].stage \in {"reading", "silent"}
         => events[e] <= version[listener[e].remote]
    /\ listener[e].stage \notin {"reading", "silent", "ended"} => events[e] = 0

(* Nothing has been heard of the epochs to come.                           *)
LaterIsSilent ==
  \A e \in Epoch : e > epoch =>
    listener[e] = NotOpen("none") /\ changes[e] = <<>> /\ ~aborted[e]

(* The listener of this epoch has dialled the remote that is current, and  *)
(* so has only sent news of that one.                                      *)
NewsIsCurrent ==
  /\ listener[epoch].stage \in Dialled => listener[epoch].remote = current
  /\ \A k \in DOMAIN changes[epoch] : changes[epoch][k] = current

Inv ==
  /\ TypeOK
  /\ ReadersKnow
  /\ ListenersKnow
  /\ LaterIsSilent
  /\ NewsIsCurrent
  /\ NoMissedChange

----------------------------------------------------------------------------
(* What is on its way: a reader that will bring the latest list, or word   *)
(* from the listener.                                                      *)

Brings(i) ==
  \/ reader[i].stage = "called"
  \/ reader[i].stage = "asked" /\ reader[i].remote = current
  \/ reader[i].stage = "failed"
  \/ /\ reader[i].stage = "answered"
     /\ reader[i].remote = current
     /\ reader[i].version = version[current]

WordComes ==
  listener[epoch].stage # "reading" \/ events[epoch] > 0 \/ changes[epoch] # <<>>

(* OnTheWay is a reader that brings the list, or word that comes.          *)
LEMMA OnTheWayParts ==
  /\ OnTheWay <=> (\E i \in Reader : Brings(i)) \/ WordComes
  /\ OnTheWay' <=> (\E i \in Reader : Brings(i)') \/ WordComes'
BY DEF OnTheWay, Brings, WordComes, Latest

Reading == [stage: {"idle", "called", "asked", "answered", "failed"},
            remote: Remote \union {None}, version: Change]

(* The records of the state, field by field.                               *)
LEMMA Fields ==
  ASSUME Inv
  PROVE  /\ \A i \in Reader :
              /\ reader[i].stage \in {"idle", "called", "asked", "answered", "failed"}
              /\ reader[i].remote \in Remote \union {None}
              /\ reader[i].version \in Change
         /\ \A e \in Epoch :
              /\ listener[e].stage \in ListenerStage
              /\ listener[e].remote \in Remote \union {None}
              /\ events[e] \in Nat /\ changes[e] \in Seq(Remote)
         /\ \A r \in Remote : version[r] \in Nat /\ version[r] <= MaxChange
         /\ current \in Remote /\ epoch \in Epoch /\ Latest.version \in Change
         /\ Epoch \subseteq Nat /\ MaxChange \in Nat
BY BoundAssumption DEF Inv, TypeOK, Change, Epoch, Latest

(* What a step keeps by leaving alone what it speaks of.                   *)
LEMMA ListenersUntouched ==
  ASSUME Inv, UNCHANGED <<version, current, epoch, listener, aborted, events, changes>>
  PROVE  ListenersKnow' /\ LaterIsSilent' /\ NewsIsCurrent'
BY DEF Inv, ListenersKnow, LaterIsSilent, NewsIsCurrent

(* The same of the readers.                                                *)
LEMMA ReadersUntouched ==
  ASSUME Inv, UNCHANGED <<version, reader>>
  PROVE  ReadersKnow'
BY DEF Inv, ReadersKnow

(* The same of what is on its way.                                         *)
LEMMA WordUntouched ==
  ASSUME Inv, UNCHANGED <<version, current, epoch, shown, reader, spoilt>>,
         WordComes => WordComes'
  PROVE  NoMissedChange'
<1>1. \A i \in Reader : Brings(i) => Brings(i)'
  BY DEF Brings
<1> QED  BY <1>1, OnTheWayParts DEF Inv, NoMissedChange, Latest

(* A listener enters a stage, and the others stay where they are.          *)
LEMMA ListenerEnters ==
  ASSUME Inv, NEW e \in Epoch, NEW stage \in ListenerStage,
         listener' = [listener EXCEPT ![e].stage = stage]
  PROVE  /\ listener' \in [Epoch -> [stage: ListenerStage, remote: Remote \union {None}]]
         /\ listener'[e].stage = stage /\ listener'[e].remote = listener[e].remote
         /\ \A d \in Epoch : d # e => listener'[d] = listener[d]
<1> DEFINE L == [stage: ListenerStage, remote: Remote \union {None}]
<1>1. listener \in [Epoch -> L]
  BY DEF Inv, TypeOK
<1>2. [listener[e] EXCEPT !.stage = stage] \in L
  BY <1>1
<1>3. /\ listener' \in [Epoch -> L]
      /\ listener'[e] = [listener[e] EXCEPT !.stage = stage]
      /\ \A d \in Epoch : d # e => listener'[d] = listener[d]
  <2> HIDE DEF L
  <2> QED  BY <1>1, <1>2, Zenon
<1>4. listener'[e].stage = stage /\ listener'[e].remote = listener[e].remote
  BY <1>1, <1>3
<1> QED  BY <1>3, <1>4

(* A task that is called will bring the latest list.                       *)
LEMMA RefreshKeeps ==
  ASSUME Inv, Refresh, UNCHANGED version
  PROVE  /\ ReadersKnow'
         /\ reader' \in [Reader -> Reading]
         /\ OnTheWay'
<1>1. PICK i \in Reader \ {Watchdog} :
        reader[i].stage = "idle" /\ reader' = [reader EXCEPT ![i].stage = "called"]
  BY DEF Refresh
<1>2. ReadersKnow'
  BY <1>1 DEF Inv, TypeOK, ReadersKnow
<1>3. reader' \in [Reader -> Reading]
  <2>1. reader \in [Reader -> Reading]
    BY DEF Inv, TypeOK, Reading
  <2>2. reader[i] \in Reading
    BY <2>1
  <2>3. [reader[i] EXCEPT !.stage = "called"] \in Reading
    BY <2>2 DEF Reading
  <2> QED  BY <1>1, <2>1, <2>3, Zenon
<1>4. reader'[i].stage = "called"
  BY <1>1 DEF Inv, TypeOK
<1>5. Brings(i)'
  BY <1>4 DEF Brings
<1> QED  BY <1>2, <1>3, <1>5, OnTheWayParts

----------------------------------------------------------------------------
(* The daemons.                                                            *)

(* What the daemon does by itself keeps the invariant.                     *)
LEMMA DaemonNext ==
  ASSUME Inv, \/ \E r \in Remote : InstanceChanges(r)
              \/ \E e \in Epoch : StreamGoesSilent(e)
  PROVE  Inv'
<1>1. ASSUME NEW r \in Remote, InstanceChanges(r)
      PROVE  Inv'
  <2>1. /\ version' = [version EXCEPT ![r] = @ + 1]
        /\ events' = [e \in Epoch |->
                       IF listener[e].stage = "reading" /\ listener[e].remote = r
                       THEN events[e] + 1 ELSE events[e]]
        /\ version[r] < MaxChange
        /\ UNCHANGED <<current, epoch, shown, reader, listener, aborted, changes,
                       hearing, breaks, spoilt>>
    BY <1>1 DEF InstanceChanges
  <2>2. /\ version' \in [Remote -> Change]
        /\ version'[r] = version[r] + 1
        /\ \A q \in Remote : q # r => version'[q] = version[q]
        /\ \A q \in Remote : version[q] <= version'[q] /\ version'[q] \in Nat
    <3>1. version \in [Remote -> Change] /\ \A q \in Remote : version[q] \in Nat
      BY Fields DEF Inv, TypeOK
    <3>2. version[r] + 1 \in Change
      BY <2>1, <3>1, BoundAssumption DEF Change
    <3>3. /\ version' \in [Remote -> Change]
          /\ version'[r] = version[r] + 1
          /\ \A q \in Remote : q # r => version'[q] = version[q]
      BY <2>1, <3>1, <3>2
    <3>4. ASSUME NEW q \in Remote
          PROVE  version[q] <= version'[q] /\ version'[q] \in Nat
      BY <3>1, <3>3
    <3> QED  BY <3>3, <3>4
  <2>3. ASSUME NEW e \in Epoch
        PROVE  /\ events'[e] \in Change
               /\ listener[e].stage \in {"reading", "silent"}
                    => events'[e] <= version'[listener[e].remote]
               /\ listener[e].stage \notin {"reading", "silent", "ended"} => events'[e] = 0
               /\ events'[e] >= events[e]
               /\ listener[e].stage = "reading" /\ listener[e].remote = r => events'[e] > 0
    <3>1. CASE listener[e].stage = "reading" /\ listener[e].remote = r
      <4>1. events'[e] = events[e] + 1 /\ events[e] <= version[r] /\ events[e] \in Nat
        BY <2>1, <3>1, Fields DEF Inv, ListenersKnow
      <4> QED  BY <2>1, <2>2, <3>1, <4>1, Fields, BoundAssumption DEF Change
    <3>2. CASE ~(listener[e].stage = "reading" /\ listener[e].remote = r)
      <4>1. events'[e] = events[e] /\ events[e] \in Change
        BY <2>1, <3>2 DEF Inv, TypeOK
      <4>2. listener[e].stage \in {"reading", "silent"}
              => listener[e].remote \in Remote /\ events[e] <= version[listener[e].remote]
        BY DEF Inv, ListenersKnow, Dialled
      <4>3. listener[e].stage \notin {"reading", "silent", "ended"} => events[e] = 0
        BY DEF Inv, ListenersKnow
      <4> QED  BY <2>2, <3>2, <4>1, <4>2, <4>3, Fields DEF Change
    <3> QED  BY <3>1, <3>2
  <2>4. TypeOK'
    <3>1. events' \in [Epoch -> Change]
      BY <2>1, <2>3
    <3> QED  BY <2>1, <2>2, <3>1 DEF Inv, TypeOK
  <2>5. ReadersKnow'
    <3> SUFFICES ASSUME NEW i \in Reader
                 PROVE  /\ reader[i].stage \in {"asked", "answered"} => reader[i].remote \in Remote
                        /\ reader[i].stage = "answered"
                             => reader[i].version <= version'[reader[i].remote]
      BY <2>1 DEF ReadersKnow
    <3>1. /\ reader[i].stage \in {"asked", "answered"} => reader[i].remote \in Remote
          /\ reader[i].stage = "answered" => reader[i].version <= version[reader[i].remote]
      BY DEF Inv, ReadersKnow
    <3>2. reader[i].version \in Nat
      BY Fields DEF Change
    <3> QED  BY <2>2, <3>1, <3>2, Fields
  <2>6. ListenersKnow'
    BY <2>1, <2>3 DEF Inv, ListenersKnow
  <2>7. LaterIsSilent' /\ NewsIsCurrent'
    BY <2>1 DEF Inv, LaterIsSilent, NewsIsCurrent
  <2>8. NoMissedChange'
    <3>1. CASE r = current
      <4>1. listener[epoch].stage = "reading" => listener[epoch].remote = current
        BY DEF Inv, NewsIsCurrent, Dialled
      <4>2. WordComes'
        BY <2>1, <2>3, <3>1, <4>1, Fields DEF WordComes
      <4> QED  BY <4>2, OnTheWayParts DEF NoMissedChange
    <3>2. CASE r # current
      <4>1. version'[current] = version[current]
        BY <2>2, <3>2, Fields
      <4>2. \A i \in Reader : Brings(i) => Brings(i)'
        BY <2>1, <4>1 DEF Brings
      <4>3. WordComes => WordComes'
        BY <2>1, <2>3, Fields DEF WordComes, Change
      <4>4. Latest' = Latest
        BY <2>1, <4>1 DEF Latest
      <4> QED  BY <2>1, <4>2, <4>3, <4>4, OnTheWayParts DEF Inv, NoMissedChange
    <3> QED  BY <3>1, <3>2
  <2> QED  BY <2>4, <2>5, <2>6, <2>7, <2>8 DEF Inv
<1>2. ASSUME NEW e \in Epoch, StreamGoesSilent(e)
      PROVE  Inv'
  <2>1. /\ breaks < MaxBreak /\ breaks' = breaks + 1
        /\ listener[e].stage = "reading"
        /\ listener' = [listener EXCEPT ![e].stage = "silent"]
        /\ UNCHANGED <<version, current, epoch, shown, reader, aborted, events,
                       changes, hearing, spoilt>>
    BY <1>2 DEF StreamGoesSilent
  <2>2. /\ listener'[e].stage = "silent" /\ listener'[e].remote = listener[e].remote
        /\ \A d \in Epoch : d # e => listener'[d] = listener[d]
        /\ listener' \in [Epoch -> [stage: ListenerStage, remote: Remote \union {None}]]
    BY <2>1, ListenerEnters DEF ListenerStage
  <2>3. TypeOK'
    BY <2>1, <2>2, BoundAssumption DEF Inv, TypeOK
  <2>4. ListenersKnow'
    BY <2>1, <2>2 DEF Inv, ListenersKnow, Dialled
  <2>5. LaterIsSilent'
    BY <2>1, <2>2 DEF Inv, LaterIsSilent, NotOpen
  <2>6. NewsIsCurrent'
    BY <2>1, <2>2, Fields DEF Inv, NewsIsCurrent, Dialled
  <2>7. WordComes => WordComes'
    BY <2>1, <2>2, Fields DEF WordComes
  <2> QED  BY <2>1, <2>3, <2>4, <2>5, <2>6, <2>7, ReadersUntouched, WordUntouched DEF Inv
<1> QED  BY <1>1, <1>2

----------------------------------------------------------------------------
(* The readers.                                                            *)

(* So do the calls of the user and of the watchdog.                        *)
LEMMA CallNext ==
  ASSUME Inv, UserRefreshes \/ WatchdogWakes
  PROVE  Inv'
<1>1. UNCHANGED <<version, current, epoch, shown, listener, aborted, events,
                  changes, hearing, breaks, spoilt>>
  BY DEF UserRefreshes, WatchdogWakes
<1>2. ListenersKnow' /\ LaterIsSilent' /\ NewsIsCurrent'
  BY <1>1, ListenersUntouched
<1>3. CASE UserRefreshes
  <2>1. /\ ReadersKnow' /\ OnTheWay'
        /\ reader' \in [Reader -> Reading]
    BY <1>1, <1>3, RefreshKeeps DEF UserRefreshes
  <2>2. TypeOK'
    BY <1>1, <2>1 DEF Inv, TypeOK, Reading
  <2> QED  BY <1>2, <2>1, <2>2 DEF Inv, NoMissedChange
<1>4. CASE WatchdogWakes
  <2>1. /\ Watchdog \in Reader
        /\ reader' = [reader EXCEPT ![Watchdog].stage = "called"]
    BY <1>4, BoundAssumption DEF WatchdogWakes, Watchdog, Reader
  <2>2. TypeOK' /\ ReadersKnow'
    <3>1. reader \in [Reader -> Reading]
      BY DEF Inv, TypeOK, Reading
    <3>2. [reader[Watchdog] EXCEPT !.stage = "called"] \in Reading
      BY <2>1, <3>1 DEF Reading
    <3>3. reader' \in [Reader -> Reading]
      BY <2>1, <3>1, <3>2
    <3>4. TypeOK'
      BY <1>1, <1>4, <3>3 DEF WatchdogWakes, Inv, TypeOK, Reading
    <3>5. ReadersKnow'
      BY <1>1, <2>1, <3>1 DEF Inv, ReadersKnow, Reading
    <3> QED  BY <3>4, <3>5
  <2>3. reader'[Watchdog].stage = "called"
    BY <2>1 DEF Inv, TypeOK
  <2>4. OnTheWay'
    BY <2>1, <2>3, OnTheWayParts DEF Brings
  <2> QED  BY <1>2, <2>2, <2>4 DEF Inv, NoMissedChange
<1> QED  BY <1>3, <1>4

(* What the others bring is not touched by what one reader does.           *)
LEMMA ReaderNext ==
  ASSUME Inv, NEW i \in Reader, ReaderStep(i)
  PROVE  Inv'
<1>1. UNCHANGED <<version, current, epoch, listener, aborted, events, changes,
                  hearing, breaks>>
  BY DEF ReaderStep, Ask, Answer, ReadFails, Show, ShowError
<1>11. reader \in [Reader -> Reading] /\ reader[i] \in Reading
  BY DEF Inv, TypeOK, Reading
<1>10. ASSUME NEW r \in Reading, reader' = [reader EXCEPT ![i] = r], UNCHANGED <<shown, spoilt>>
      PROVE  TypeOK'
  <2>1. reader' \in [Reader -> Reading]
    BY <1>11, <1>10
  <2> QED  BY <1>1, <1>10, <2>1 DEF Inv, TypeOK, Reading
<1>2. ListenersKnow' /\ LaterIsSilent' /\ NewsIsCurrent'
  BY <1>1, ListenersUntouched
<1>3. (WordComes => WordComes') /\ Latest' = Latest
  BY <1>1 DEF WordComes, Latest
<1>4. ASSUME \A j \in Reader : j # i => reader'[j] = reader[j],
             Brings(i) => OnTheWay' \/ shown' = Latest' \/ spoilt',
             UNCHANGED <<shown, spoilt>>
      PROVE  NoMissedChange'
  <2>1. \A j \in Reader : j # i => (Brings(j) => Brings(j)')
    BY <1>1, <1>4 DEF Brings
  <2> QED  BY <1>3, <1>4, <2>1, OnTheWayParts DEF Inv, NoMissedChange
<1>5. CASE Ask(i)
  <2>1. /\ reader[i].stage = "called" /\ UNCHANGED <<shown, spoilt>>
        /\ reader' = [reader EXCEPT ![i].stage = "asked", ![i].remote = current]
    BY <1>5 DEF Ask
  <2>2. /\ reader'[i].stage = "asked" /\ reader'[i].remote = current
        /\ \A j \in Reader : j # i => reader'[j] = reader[j]
    BY <2>1 DEF Inv, TypeOK
  <2>3. TypeOK'
    <3>1. [reader[i] EXCEPT !.stage = "asked", !.remote = current] \in Reading
      BY <1>11, Fields DEF Reading
    <3> QED  BY <1>11, <1>10, <2>1, <3>1
  <2>4. ReadersKnow'
    BY <1>1, <2>2, Fields DEF Inv, ReadersKnow
  <2>5. Brings(i)'
    BY <1>1, <2>2 DEF Brings
  <2>6. NoMissedChange'
    BY <2>5, OnTheWayParts DEF NoMissedChange
  <2> QED  BY <1>2, <2>3, <2>4, <2>6 DEF Inv
<1>6. CASE Answer(i)
  <2>1. /\ reader[i].stage = "asked" /\ UNCHANGED <<shown, spoilt>>
        /\ reader' = [reader EXCEPT ![i].stage = "answered",
                                    ![i].version = version[reader[i].remote]]
    BY <1>6 DEF Answer
  <2>2. reader[i].remote \in Remote /\ version[reader[i].remote] \in Change
    BY <2>1 DEF Inv, TypeOK, ReadersKnow
  <2>3. /\ reader'[i].stage = "answered" /\ reader'[i].remote = reader[i].remote
        /\ reader'[i].version = version[reader[i].remote]
        /\ \A j \in Reader : j # i => reader'[j] = reader[j]
    BY <2>1 DEF Inv, TypeOK
  <2>4. TypeOK'
    <3>1. [reader[i] EXCEPT !.stage = "answered", !.version = version[reader[i].remote]]
            \in Reading
      BY <1>11, <2>2 DEF Reading
    <3> QED  BY <1>11, <1>10, <2>1, <3>1
  <2>5. ReadersKnow'
    BY <1>1, <2>2, <2>3 DEF Inv, ReadersKnow, Change
  <2>6. Brings(i) => Brings(i)'
    BY <1>1, <2>1, <2>3 DEF Brings
  <2>7. NoMissedChange'
    BY <1>4, <2>1, <2>3, <2>6, OnTheWayParts
  <2> QED  BY <1>2, <2>4, <2>5, <2>7 DEF Inv
<1>7. CASE ReadFails(i)
  <2>1. UNCHANGED <<shown, spoilt>> /\ reader' = [reader EXCEPT ![i] = [Idle EXCEPT !.stage = "failed"]]
    BY <1>7 DEF ReadFails
  <2>2. /\ reader'[i].stage = "failed"
        /\ \A j \in Reader : j # i => reader'[j] = reader[j]
    BY <2>1 DEF Inv, TypeOK, Idle
  <2>3. TypeOK'
    <3>1. [Idle EXCEPT !.stage = "failed"] \in Reading
      BY BoundAssumption DEF Idle, Reading, Change
    <3> QED  BY <1>11, <1>10, <2>1, <3>1
  <2>4. ReadersKnow'
    BY <1>1, <2>2 DEF Inv, ReadersKnow
  <2>5. NoMissedChange'
    BY <2>2, OnTheWayParts DEF Brings, NoMissedChange
  <2> QED  BY <1>2, <2>3, <2>4, <2>5 DEF Inv
<1>8. CASE Show(i)
  <2> DEFINE answer == [remote |-> reader[i].remote, version |-> reader[i].version]
             goesBack == \/ answer.remote # current
                         \/ shown.remote = current /\ answer.version < shown.version
  <2>1. /\ reader[i].stage = "answered" /\ shown' = answer
        /\ reader' = [reader EXCEPT ![i] = Idle]
        /\ spoilt' = (answer # Latest /\ (spoilt \/ goesBack))
    BY <1>8 DEF Show
  <2>2. /\ reader'[i] = Idle
        /\ \A j \in Reader : j # i => reader'[j] = reader[j]
    BY <2>1 DEF Inv, TypeOK
  <2>3. TypeOK'
    <3>1. answer \in [remote: Remote \union {None}, version: Change]
      BY Fields
    <3>2. Idle \in [stage: {"idle", "called", "asked", "answered", "failed"},
                    remote: Remote \union {None}, version: Change]
      BY BoundAssumption DEF Idle, Change
    <3>3. spoilt' \in BOOLEAN
      BY <2>1
    <3> QED  BY <1>1, <2>1, <3>1, <3>2, <3>3 DEF Inv, TypeOK
  <2>4. ReadersKnow'
    BY <1>1, <2>2 DEF Inv, ReadersKnow, Idle
  <2>5. NoMissedChange'
    <3>1. CASE answer = Latest
      BY <1>3, <2>1, <3>1 DEF NoMissedChange
    <3>2. CASE answer # Latest /\ spoilt
      BY <2>1, <3>2 DEF NoMissedChange
    <3>3. CASE answer # Latest /\ shown = Latest
      <4>1. answer.remote = current => answer.version < version[current]
        <5>1. reader[i].version <= version[reader[i].remote] /\ reader[i].version \in Nat
          BY <2>1, Fields DEF Inv, ReadersKnow, Change
        <5>2. version[current] \in Nat
          BY Fields
        <5>3. answer.remote = current => answer.version # version[current]
          BY <3>3 DEF Latest
        <5> QED  BY <5>1, <5>2, <5>3
      <4>2. goesBack
        BY <3>3, <4>1 DEF Latest
      <4> QED  BY <2>1, <3>3, <4>2 DEF NoMissedChange
    <3>4. CASE answer # Latest /\ OnTheWay
      <4>1. ~Brings(i)
        BY <2>1, <3>4 DEF Brings, Latest
      <4>2. \A j \in Reader : j # i => (Brings(j) => Brings(j)')
        BY <1>1, <2>2 DEF Brings
      <4>3. OnTheWay'
        BY <1>3, <3>4, <4>1, <4>2, OnTheWayParts
      <4> QED  BY <4>3 DEF NoMissedChange
    <3> QED  BY <3>1, <3>2, <3>3, <3>4 DEF Inv, NoMissedChange
  <2> QED  BY <1>2, <2>3, <2>4, <2>5 DEF Inv
<1>9. CASE ShowError(i)
  <2>1. spoilt' = TRUE /\ UNCHANGED shown /\ reader' = [reader EXCEPT ![i] = Idle]
    BY <1>9 DEF ShowError
  <2>2. TypeOK' /\ ReadersKnow'
    BY <1>1, <2>1, BoundAssumption DEF Inv, TypeOK, ReadersKnow, Idle, Change
  <2> QED  BY <1>2, <2>1, <2>2 DEF Inv, NoMissedChange
<1> QED  BY <1>5, <1>6, <1>7, <1>8, <1>9 DEF ReaderStep

----------------------------------------------------------------------------
(* The listener.                                                           *)

(* tx.unbounded_send, for a listener that has an open stream.              *)
LEMMA SendKeeps ==
  ASSUME Inv, NEW e \in Epoch, NEW onwards \in {"reading", "silent"},
         listener[e].stage \in Dialled, SendChange(e, onwards)
  PROVE  /\ listener' \in [Epoch -> [stage: ListenerStage, remote: Remote \union {None}]]
         /\ changes' \in [Epoch -> Seq(Remote)]
         /\ \A d \in Epoch : d # e => listener'[d] = listener[d] /\ changes'[d] = changes[d]
         /\ \/ /\ listener'[e].stage = onwards /\ listener'[e].remote = listener[e].remote
               /\ changes'[e] = Append(changes[e], listener[e].remote)
               /\ changes'[e] # <<>>
            \/ listener'[e].stage = "ended" /\ changes'[e] = changes[e]
<1>0. listener[e].remote \in Remote /\ changes[e] \in Seq(Remote)
  BY DEF Inv, TypeOK, ListenersKnow
<1>1. CASE hearing[e]
  <2>1. /\ changes' = [changes EXCEPT ![e] = Append(changes[e], listener[e].remote)]
        /\ listener' = [listener EXCEPT ![e].stage = onwards]
    BY <1>1 DEF SendChange
  <2>2. Append(changes[e], listener[e].remote) \in Seq(Remote)
        /\ Append(changes[e], listener[e].remote) # <<>>
    BY <1>0, AppendProperties
  <2> QED  BY <2>1, <2>2 DEF Inv, TypeOK, ListenerStage
<1>2. CASE ~hearing[e]
  <2>1. /\ listener' = [listener EXCEPT ![e] = NotOpen("ended")] /\ UNCHANGED changes
    BY <1>2 DEF SendChange
  <2>2. NotOpen("ended") \in [stage: ListenerStage, remote: Remote \union {None}]
        /\ NotOpen("ended").stage = "ended"
    BY DEF NotOpen, ListenerStage
  <2> QED  BY <2>1, <2>2 DEF Inv, TypeOK
<1> QED  BY <1>1, <1>2

(* A step of one listener, from what becomes of it, of its socket and of   *)
(* what it has sent.                                                       *)
LEMMA ListenerKeeps ==
  ASSUME Inv, NEW e \in Epoch, ~(e > epoch),
         UNCHANGED <<version, current, epoch, shown, reader, aborted, hearing, spoilt>>,
         breaks' \in 0 .. MaxBreak,
         listener' \in [Epoch -> [stage: ListenerStage, remote: Remote \union {None}]],
         changes' \in [Epoch -> Seq(Remote)],
         events' \in [Epoch -> Change],
         \A d \in Epoch : d # e => /\ listener'[d] = listener[d] /\ changes'[d] = changes[d]
                                   /\ events'[d] = events[d],
         listener'[e].stage \in Dialled
           => \/ listener'[e].remote = current
              \/ listener[e].stage \in Dialled /\ listener'[e].remote = listener[e].remote,
         listener'[e].stage \in {"reading", "silent"} => events'[e] <= version[listener'[e].remote],
         listener'[e].stage \notin {"reading", "silent", "ended"} => events'[e] = 0,
         \/ changes'[e] = changes[e]
         \/ listener[e].stage \in Dialled /\ changes'[e] = Append(changes[e], listener[e].remote),
         WordComes => WordComes'
  PROVE  Inv'
<1>1. TypeOK'
  BY DEF Inv, TypeOK
<1>2. ReadersKnow' /\ NoMissedChange'
  BY ReadersUntouched, WordUntouched
<1>3. ListenersKnow'
  <2>1. listener'[e].stage \in Dialled => listener'[e].remote \in Remote
    BY Fields DEF Inv, ListenersKnow
  <2> QED  BY <2>1 DEF Inv, ListenersKnow
<1>4. LaterIsSilent'
  BY DEF Inv, LaterIsSilent
<1>5. NewsIsCurrent'
  <2>1. CASE e # epoch
    BY <2>1, Fields DEF Inv, NewsIsCurrent
  <2>2. CASE e = epoch
    <3>1. listener'[e].stage \in Dialled => listener'[e].remote = current
      BY <2>2 DEF Inv, NewsIsCurrent
    <3>2. \A k \in DOMAIN changes'[e] : changes'[e][k] = current
      <4>1. CASE changes'[e] = changes[e]
        BY <2>2, <4>1 DEF Inv, NewsIsCurrent
      <4>2. CASE listener[e].stage \in Dialled /\ changes'[e] = Append(changes[e], listener[e].remote)
        <5>1. changes'[e] = Append(changes[e], current) /\ changes[e] \in Seq(Remote)
              /\ current \in Remote
          BY <2>2, <4>2, Fields DEF Inv, NewsIsCurrent
        <5>2. \A k \in 1 .. Len(changes[e]) : changes[e][k] = current
          BY <2>2, <5>1 DEF Inv, NewsIsCurrent
        <5>3. /\ Len(changes'[e]) = Len(changes[e]) + 1 /\ Len(changes[e]) \in Nat
              /\ DOMAIN changes'[e] = 1 .. Len(changes[e]) + 1
              /\ \A k \in 1 .. Len(changes[e]) : changes'[e][k] = changes[e][k]
              /\ changes'[e][Len(changes[e]) + 1] = current
          BY <5>1, AppendProperties
        <5> QED  BY <5>2, <5>3
      <4> QED  BY <4>1, <4>2
    <3> QED  BY <2>2, <3>1, <3>2 DEF NewsIsCurrent
  <2> QED  BY <2>1, <2>2
<1> QED  BY <1>1, <1>2, <1>3, <1>4, <1>5 DEF Inv

(* So does what the listener on the tokio side does.                       *)
LEMMA ListenerNext ==
  ASSUME Inv, NEW e \in Epoch, ListenerStep(e)
  PROVE  Inv'
<1>1. UNCHANGED <<version, current, epoch, shown, reader, aborted, hearing, spoilt>>
  BY DEF ListenerStep, Dial, StreamOpens, DialFails, Redial, ReadEvent, StreamBreaks,
         SilenceIsNoticed, Reap
<1>2. ~(e > epoch)
  BY DEF Inv, LaterIsSilent, NotOpen, ListenerStep, Dial, StreamOpens, DialFails, Redial,
         ReadEvent, StreamBreaks, SilenceIsNoticed, Reap
<1>3. /\ listener \in [Epoch -> [stage: ListenerStage, remote: Remote \union {None}]]
      /\ events \in [Epoch -> Change] /\ changes \in [Epoch -> Seq(Remote)]
      /\ breaks \in 0 .. MaxBreak
  BY DEF Inv, TypeOK
<1>4. WordComes => \/ listener[epoch].stage # "reading" \/ events[epoch] > 0
                   \/ changes[epoch] # <<>>
  BY DEF WordComes
(* A listener that has no open stream afterwards. *)
<1>5. ASSUME NEW stage \in ListenerStage \ Dialled,
             listener' = [listener EXCEPT ![e] = NotOpen(stage)],
             UNCHANGED changes, breaks' \in 0 .. MaxBreak,
             events' \in [Epoch -> Change],
             \A d \in Epoch : d # e => events'[d] = events[d],
             stage # "ended" => events'[e] = 0
      PROVE  Inv'
  <2>1. NotOpen(stage) \in [stage: ListenerStage, remote: Remote \union {None}]
    BY DEF NotOpen
  <2>2. /\ listener' \in [Epoch -> [stage: ListenerStage, remote: Remote \union {None}]]
        /\ listener'[e].stage = stage
        /\ \A d \in Epoch : d # e => listener'[d] = listener[d]
    BY <1>3, <1>5, <2>1 DEF NotOpen
  <2>3. WordComes => WordComes'
    BY <1>1, <1>5, <2>2, Fields DEF WordComes, Dialled
  <2> QED  BY <1>1, <1>2, <1>3, <1>5, <2>2, <2>3, ListenerKeeps DEF Dialled
(* One whose message goes out, after which its socket holds no more. *)
<1>6. ASSUME NEW onwards \in {"reading", "silent"}, listener[e].stage \in Dialled,
             SendChange(e, onwards), UNCHANGED breaks,
             events' \in [Epoch -> Change],
             \A d \in Epoch : d # e => events'[d] = events[d],
             events'[e] <= version[listener[e].remote]
      PROVE  Inv'
  <2>1. /\ listener' \in [Epoch -> [stage: ListenerStage, remote: Remote \union {None}]]
        /\ changes' \in [Epoch -> Seq(Remote)]
        /\ \A d \in Epoch : d # e => listener'[d] = listener[d] /\ changes'[d] = changes[d]
        /\ \/ /\ listener'[e].stage = onwards /\ listener'[e].remote = listener[e].remote
              /\ changes'[e] = Append(changes[e], listener[e].remote)
              /\ changes'[e] # <<>>
           \/ listener'[e].stage = "ended" /\ changes'[e] = changes[e]
    BY <1>6, SendKeeps
  <2>2. WordComes => WordComes'
    BY <1>1, <1>6, <2>1, Fields DEF WordComes
  <2> QED  BY <1>1, <1>2, <1>3, <1>6, <2>1, <2>2, ListenerKeeps DEF Dialled
<1>7. CASE Dial(e)
  <2>1. /\ listener[e].stage = "dialling" /\ UNCHANGED <<events, changes, breaks>>
        /\ listener' = [listener EXCEPT ![e].stage = "asking", ![e].remote = current]
    BY <1>7 DEF Dial
  <2>2. /\ listener' \in [Epoch -> [stage: ListenerStage, remote: Remote \union {None}]]
        /\ listener'[e].stage = "asking" /\ listener'[e].remote = current
        /\ \A d \in Epoch : d # e => listener'[d] = listener[d]
    BY <1>3, <2>1, Fields DEF ListenerStage
  <2>3. events[e] = 0
    BY <2>1 DEF Inv, ListenersKnow
  <2>4. WordComes => WordComes'
    BY <1>1, <2>1, <2>2, Fields DEF WordComes
  <2> QED  BY <1>1, <1>2, <1>3, <2>1, <2>2, <2>3, <2>4, ListenerKeeps DEF Dialled
<1>8. CASE StreamOpens(e)
  <2>1. /\ listener[e].stage = "asking" /\ SendChange(e, "reading")
        /\ UNCHANGED <<breaks, events>>
    BY <1>8 DEF StreamOpens
  <2>2. events[e] = 0 /\ version[listener[e].remote] \in Nat
    BY <2>1, Fields DEF Inv, ListenersKnow, Dialled
  <2> QED  BY <1>3, <1>6, <2>1, <2>2 DEF Dialled
<1>9. CASE ReadEvent(e)
  <2>1. /\ listener[e].stage \in {"reading", "silent"} /\ events[e] > 0
        /\ events' = [events EXCEPT ![e] = @ - 1]
        /\ SendChange(e, listener[e].stage) /\ UNCHANGED breaks
    BY <1>9 DEF ReadEvent
  <2>2. events[e] \in Change /\ events[e] <= version[listener[e].remote]
        /\ version[listener[e].remote] \in Nat
    BY <1>3, <2>1, Fields DEF Inv, ListenersKnow, Dialled
  <2>3. events[e] - 1 \in Change /\ events[e] - 1 <= version[listener[e].remote]
    BY <2>1, <2>2, BoundAssumption DEF Change
  <2>4. events' \in [Epoch -> Change] /\ events'[e] = events[e] - 1
        /\ \A d \in Epoch : d # e => events'[d] = events[d]
    BY <1>3, <2>1, <2>3
  <2> QED  BY <1>6, <2>1, <2>3, <2>4 DEF Dialled
<1>10. CASE DialFails(e) \/ StreamBreaks(e) \/ SilenceIsNoticed(e) \/ Redial(e) \/ Reap(e)
  <2>1. 0 \in Change
    BY BoundAssumption DEF Change
  <2>2. listener[e].stage \notin {"reading", "silent", "ended"} => events[e] = 0
    BY DEF Inv, ListenersKnow
  <2>3. /\ UNCHANGED changes
        /\ \E stage \in {"waiting", "dialling", "ended"} :
             /\ listener' = [listener EXCEPT ![e] = NotOpen(stage)]
             /\ \/ UNCHANGED events /\ events[e] = 0
                \/ events' = [events EXCEPT ![e] = 0]
    BY <1>10, <2>2 DEF DialFails, StreamBreaks, SilenceIsNoticed, Redial, Reap
  <2>4. breaks' \in 0 .. MaxBreak
    BY <1>3, <1>10, BoundAssumption
       DEF DialFails, StreamBreaks, SilenceIsNoticed, Redial, Reap
  <2>5. /\ events' \in [Epoch -> Change] /\ events'[e] = 0
        /\ \A d \in Epoch : d # e => events'[d] = events[d]
    BY <1>3, <2>1, <2>3
  <2>6. PICK stage \in {"waiting", "dialling", "ended"} :
          listener' = [listener EXCEPT ![e] = NotOpen(stage)]
    BY <2>3
  <2>7. stage \in ListenerStage \ Dialled
    BY DEF ListenerStage, Dialled
  <2> QED  BY <1>5, <2>3, <2>4, <2>5, <2>6, <2>7
<1> QED  BY <1>7, <1>8, <1>9, <1>10 DEF ListenerStep

(* The half on the UI thread.                                              *)
LEMMA HearNext ==
  ASSUME Inv, NEW e \in Epoch, HearChange(e) \/ StopHearing(e)
  PROVE  Inv'
<1>1. UNCHANGED <<version, current, epoch, shown, listener, aborted, events, breaks, spoilt>>
  BY DEF HearChange, StopHearing
<1>2. changes \in [Epoch -> Seq(Remote)]
  BY DEF Inv, TypeOK
<1>3. ListenersKnow'
  BY <1>1 DEF Inv, ListenersKnow
<1>4. CASE HearChange(e)
  <2>1. /\ changes[e] # <<>> /\ e = epoch /\ Refresh
        /\ changes' = [changes EXCEPT ![e] = Tail(@)] /\ UNCHANGED hearing
    BY <1>4 DEF HearChange
  <2>2. /\ ReadersKnow' /\ OnTheWay' /\ reader' \in [Reader -> Reading]
    BY <1>1, <2>1, RefreshKeeps
  <2>3. /\ Tail(changes[e]) \in Seq(Remote)
        /\ \A k \in DOMAIN Tail(changes[e]) :
             k + 1 \in DOMAIN changes[e] /\ Tail(changes[e])[k] = changes[e][k + 1]
    BY <1>2, <2>1, HeadTailProperties
  <2>4. /\ changes' \in [Epoch -> Seq(Remote)] /\ changes'[e] = Tail(changes[e])
        /\ \A d \in Epoch : d # e => changes'[d] = changes[d]
    BY <1>2, <2>1, <2>3
  <2>5. TypeOK'
    BY <1>1, <2>1, <2>2, <2>4 DEF Inv, TypeOK, Reading
  <2>6. LaterIsSilent'
    BY <1>1, <2>1, <2>4, Fields DEF Inv, LaterIsSilent
  <2>7. NewsIsCurrent'
    BY <1>1, <2>1, <2>3, <2>4 DEF Inv, NewsIsCurrent
  <2> QED  BY <1>3, <2>2, <2>5, <2>6, <2>7 DEF Inv, NoMissedChange
<1>5. CASE StopHearing(e)
  <2>1. /\ IF changes[e] # <<>> THEN e # epoch ELSE listener[e].stage = "ended"
        /\ changes' = [changes EXCEPT ![e] = <<>>]
        /\ hearing' = [hearing EXCEPT ![e] = FALSE] /\ UNCHANGED reader
    BY <1>5 DEF StopHearing
  <2>2. /\ changes' \in [Epoch -> Seq(Remote)] /\ changes'[e] = <<>>
        /\ \A d \in Epoch : d # e => changes'[d] = changes[d]
    <3>1. <<>> \in Seq(Remote)
      BY EmptySeq
    <3> QED  BY <1>2, <2>1, <3>1
  <2>3. hearing' \in [Epoch -> BOOLEAN]
    BY <2>1 DEF Inv, TypeOK
  <2>4. TypeOK'
    BY <1>1, <2>1, <2>2, <2>3 DEF Inv, TypeOK
  <2>5. LaterIsSilent'
    BY <1>1, <2>1, <2>2 DEF Inv, LaterIsSilent
  <2>6. NewsIsCurrent'
    <3>1. CASE e = epoch
      <4>1. changes'[epoch] = <<>> /\ DOMAIN <<>> = {}
        BY <2>2, <3>1
      <4> QED  BY <1>1, <4>1 DEF Inv, NewsIsCurrent
    <3>2. CASE e # epoch
      BY <1>1, <2>2, <3>2, Fields DEF Inv, NewsIsCurrent
    <3> QED  BY <3>1, <3>2
  <2>7. WordComes => WordComes'
    BY <1>1, <2>1, <2>2, Fields DEF WordComes
  <2> QED  BY <1>1, <1>3, <2>1, <2>4, <2>5, <2>6, <2>7, ReadersUntouched, WordUntouched DEF Inv
<1> QED  BY <1>4, <1>5

(* A switch starts the listener of an epoch that nothing was heard of.     *)
LEMMA SwitchNext ==
  ASSUME Inv, NEW r \in Remote, SwitchRemote(r)
  PROVE  Inv'
<1>1. /\ epoch < MaxSwitch /\ current' = r /\ shown' = NoList /\ epoch' = epoch + 1
      /\ Refresh
      /\ listener' = [listener EXCEPT ![epoch + 1].stage = "dialling"]
      /\ hearing' = [hearing EXCEPT ![epoch + 1] = TRUE]
      /\ aborted' = [aborted EXCEPT ![epoch] = TRUE]
      /\ UNCHANGED <<version, events, changes, breaks, spoilt>>
  BY DEF SwitchRemote
<1>2. epoch' \in Epoch /\ epoch' > epoch /\ epoch \in Nat
  BY <1>1, Fields, BoundAssumption DEF Epoch
<1>3. listener[epoch'] = NotOpen("none") /\ changes[epoch'] = <<>> /\ ~aborted[epoch']
  BY <1>2 DEF Inv, LaterIsSilent
<1>4. /\ listener' \in [Epoch -> [stage: ListenerStage, remote: Remote \union {None}]]
      /\ listener'[epoch'].stage = "dialling"
      /\ \A d \in Epoch : d # epoch' => listener'[d] = listener[d]
  BY <1>1, <1>2, ListenerEnters DEF ListenerStage
<1>5. /\ aborted' \in [Epoch -> BOOLEAN] /\ hearing' \in [Epoch -> BOOLEAN]
      /\ \A d \in Epoch : d # epoch => aborted'[d] = aborted[d]
  BY <1>1 DEF Inv, TypeOK
<1>6. ReadersKnow' /\ OnTheWay' /\ reader' \in [Reader -> Reading]
  BY <1>1, RefreshKeeps
<1>7. TypeOK'
  <2>1. NoList \in [remote: Remote \union {None}, version: Change]
    BY BoundAssumption DEF NoList, Change
  <2> QED  BY <1>1, <1>2, <1>4, <1>5, <1>6, <2>1 DEF Inv, TypeOK, Reading
<1>8. ListenersKnow'
  <2>1. events[epoch'] = 0
    BY <1>2, <1>3 DEF Inv, ListenersKnow, NotOpen
  <2> QED  BY <1>1, <1>4, <2>1 DEF Inv, ListenersKnow, Dialled
<1>9. LaterIsSilent'
  <2> SUFFICES ASSUME NEW d \in Epoch, d > epoch'
               PROVE  listener'[d] = NotOpen("none") /\ changes'[d] = <<>> /\ ~aborted'[d]
    BY DEF LaterIsSilent
  <2>1. d > epoch /\ d # epoch /\ d # epoch'
    BY <1>2, Fields
  <2> QED  BY <1>1, <1>4, <1>5, <2>1 DEF Inv, LaterIsSilent
<1>10. NewsIsCurrent'
  BY <1>1, <1>3, <1>4 DEF NewsIsCurrent, Dialled
<1> QED  BY <1>6, <1>7, <1>8, <1>9, <1>10 DEF Inv, NoMissedChange

----------------------------------------------------------------------------
(* The theorems.                                                           *)

(* The initial states satisfy the invariant.                               *)
LEMMA InvInit == Init => Inv
<1> SUFFICES ASSUME Init PROVE Inv
  OBVIOUS
<1>1. 0 \in Epoch /\ 0 \in Change /\ 1 \in Reader /\ Epoch \subseteq Nat
  BY BoundAssumption DEF Epoch, Change, Reader
<1>2. TypeOK
  <2>1. \A stage \in ListenerStage :
          NotOpen(stage) \in [stage: ListenerStage, remote: Remote \union {None}]
    BY DEF NotOpen
  <2>2. listener \in [Epoch -> [stage: ListenerStage, remote: Remote \union {None}]]
    BY <2>1 DEF Init, ListenerStage
  <2>3. Idle \in Reading /\ [Idle EXCEPT !.stage = "called"] \in Reading
    BY <1>1 DEF Idle, Reading
  <2>4. reader \in [Reader -> Reading]
    BY <2>3 DEF Init
  <2>5. NoList \in [remote: Remote \union {None}, version: Change]
    BY <1>1 DEF NoList
  <2>6. changes \in [Epoch -> Seq(Remote)]
    BY EmptySeq DEF Init
  <2>7. /\ version \in [Remote -> Change] /\ events \in [Epoch -> Change]
        /\ spoilt \in BOOLEAN
    BY <1>1, Zenon DEF Init
  <2>10. breaks \in 0 .. MaxBreak
    BY BoundAssumption DEF Init
  <2>9. aborted \in [Epoch -> BOOLEAN] /\ hearing \in [Epoch -> BOOLEAN]
    BY Zenon DEF Init
  <2>8. /\ current \in Remote /\ epoch \in Epoch
        /\ shown \in [remote: Remote \union {None}, version: Change]
    BY <1>1, <2>5, RemoteAssumption DEF Init
  <2> QED  BY <2>2, <2>4, <2>6, <2>7, <2>8, <2>9, <2>10 DEF TypeOK, Reading
<1>3. ReadersKnow
  BY DEF Init, ReadersKnow, Idle
<1>4. /\ \A e \in Epoch : listener[e].stage = "dialling" \/ listener[e].stage = "none"
      /\ \A e \in Epoch : e > 0 => listener[e] = NotOpen("none")
  BY <1>1 DEF Init, NotOpen
<1>5. ListenersKnow /\ LaterIsSilent /\ NewsIsCurrent
  <2>1. \A e \in Epoch : events[e] = 0 /\ changes[e] = <<>> /\ ~aborted[e]
    BY Zenon DEF Init
  <2>2. \A e \in Epoch : listener[e].stage \notin Dialled
    BY <1>4 DEF Dialled
  <2>3. epoch = 0 /\ changes[epoch] = <<>> /\ DOMAIN <<>> = {}
    BY <1>1, <2>1 DEF Init
  <2>4. ListenersKnow
    BY <1>4, <2>1, <2>2 DEF ListenersKnow, Dialled
  <2>5. LaterIsSilent
    BY <1>4, <2>1, <2>3, Zenon DEF LaterIsSilent
  <2>6. NewsIsCurrent
    BY <1>1, <2>2, <2>3 DEF NewsIsCurrent
  <2> QED  BY <2>4, <2>5, <2>6
<1>6. NoMissedChange
  BY <1>1, <1>4 DEF Init, NoMissedChange, OnTheWay
<1> QED  BY <1>2, <1>3, <1>5, <1>6 DEF Inv

(* Every step keeps the invariant.                                         *)
LEMMA InvNext == Inv /\ [Next]_vars => Inv'
<1>1. ASSUME Inv, UNCHANGED vars PROVE Inv'
  <2>1. ListenersKnow' /\ LaterIsSilent' /\ NewsIsCurrent' /\ ReadersKnow'
    BY <1>1, ListenersUntouched, ReadersUntouched DEF vars
  <2>2. TypeOK'
    BY <1>1 DEF vars, Inv, TypeOK
  <2>3. NoMissedChange'
    BY <1>1, WordUntouched DEF vars, WordComes
  <2> QED  BY <2>1, <2>2, <2>3 DEF Inv
<1> QED  BY <1>1, DaemonNext, CallNext, ReaderNext, ListenerNext, HearNext, SwitchNext DEF Next

(* The invariant holds in every reachable state.                           *)
LEMMA Invariance == Spec => []Inv
BY InvInit, InvNext, PTL DEF Spec

(* The state keeps the types of the fields of IncusManager.                *)
THEOREM TypeCorrect == Spec => []TypeOK
<1>1. Inv => TypeOK
  BY DEF Inv
<1> QED  BY <1>1, Invariance, PTL

(* No change to the instances of the current remote goes by unnoticed,     *)
(* however the readers, the listener and the switches interleave           *)
(* (start_event_listener, refresh).                                        *)
THEOREM ChangesAreNoticed == Spec => []NoMissedChange
<1>1. Inv => NoMissedChange
  BY DEF Inv
<1> QED  BY <1>1, Invariance, PTL

(* What the listener's half on the UI thread acts on is news of the        *)
(* current remote (the check of remote_epoch in start_event_listener).     *)
THEOREM NewsOfCurrentRemote == Spec => ActsOnCurrentRemoteOnly
<1> DEFINE Acts == \A e \in Epoch :
      changes[e] # <<>> /\ changes'[e] = Tail(changes[e]) /\ hearing'[e]
        => Head(changes[e]) = current
<1>1. Inv /\ [Next]_vars => [Acts]_vars
  <2> SUFFICES ASSUME Inv, Next, NEW e \in Epoch,
                      changes[e] # <<>>, changes'[e] = Tail(changes[e]), hearing'[e]
               PROVE  Head(changes[e]) = current
    OBVIOUS
  <2>1. changes \in [Epoch -> Seq(Remote)] /\ hearing \in [Epoch -> BOOLEAN]
        /\ listener \in [Epoch -> [stage: ListenerStage, remote: Remote \union {None}]]
    BY DEF Inv, TypeOK
  <2>2. /\ changes[e] \in Seq(Remote) /\ Len(changes[e]) \in Nat
        /\ Len(changes'[e]) = Len(changes[e]) - 1
    BY <2>1, HeadTailProperties, LenProperties
  <2>3. changes'[e] # changes[e]
    <3> DEFINE before == changes[e]
               after == changes'[e]
    <3>1. Len(before) \in Nat /\ Len(after) = Len(before) - 1
      BY <2>2
    <3> HIDE DEF before, after
    <3>2. after # before
      BY <3>1
    <3> QED  BY <3>2 DEF before, after
  <2>4. \A d \in Epoch : ~StopHearing(d)
    BY <2>1, <2>3 DEF StopHearing
  <2>5. ASSUME NEW d \in Epoch, listener[d].stage \in Dialled,
               NEW onwards \in {"reading", "silent"}, SendChange(d, onwards)
        PROVE  FALSE
    <3>1. \/ changes'[e] = changes[e]
          \/ changes'[e] = Append(changes[e], listener[e].remote) /\ listener[e].remote \in Remote
      BY <2>1, <2>5 DEF SendChange, Inv, ListenersKnow
    <3>2. PICK r \in Remote : changes'[e] = Append(changes[e], r)
      BY <2>3, <3>1
    <3>3. Len(Append(changes[e], r)) = Len(changes[e]) + 1
      BY <2>2, AppendProperties
    <3> DEFINE before == Len(changes[e])
               after == Len(changes'[e])
    <3>4. before \in Nat /\ after = before - 1 /\ after = before + 1
      BY <2>2, <3>2, <3>3
    <3> HIDE DEF before, after
    <3> QED  BY <3>4
  <2>6. \A d \in Epoch : ~StreamOpens(d) /\ ~ReadEvent(d)
    BY <2>5 DEF StreamOpens, ReadEvent, Dialled
  <2>7. PICK d \in Epoch : HearChange(d)
    BY <2>3, <2>4, <2>6
       DEF Next, InstanceChanges, SwitchRemote, UserRefreshes, WatchdogWakes, ReaderStep,
           Ask, Answer, ReadFails, Show, ShowError, StreamGoesSilent, ListenerStep,
           Dial, DialFails, Redial, StreamBreaks, SilenceIsNoticed, Reap
  <2>8. e = epoch
    BY <2>1, <2>3, <2>7 DEF HearChange
  <2>9. 1 \in DOMAIN changes[e]
    BY <2>2
  <2> QED  BY <2>2, <2>8, <2>9 DEF Inv, NewsIsCurrent
<1> QED  BY <1>1, Invariance, PTL DEF Spec, ActsOnCurrentRemoteOnly
=============================================================================
