---------------------------- MODULE InstanceList ----------------------------
(***************************************************************************)
(* How the sidebar's list of instances follows the daemon (refresh,        *)
(* switch_remote, start_event_listener and start_refresh_watchdog of       *)
(* src/src/main.rs; the event stream of src/src/incus.rs).                 *)
(*                                                                         *)
(* Every reader of the list is a task: it is told on the UI thread to      *)
(* read, asks whichever remote is current when it gets to run, and hands   *)
(* its answer to the UI thread, which shows it.  Readers are started by    *)
(* the user, by the events of the daemon, and, every minute, by the        *)
(* watchdog.  A switch of the remote starts a new listener under a new     *)
(* epoch and aborts the old one; readers that are under way are not        *)
(* cancelled.                                                              *)
(*                                                                         *)
(* A daemon's instances are known by the number of changes made to them.   *)
(***************************************************************************)
EXTENDS Integers, SequencesExt

CONSTANTS
  Remote,      \* the remotes of the incus configuration
  FirstRemote, \* the configuration's default-remote
  None,        \* the absence of a remote
  MaxChange,   \* bound: changes to the instances of one remote
  MaxSwitch,   \* bound: switches of the remote
  MaxRequest,  \* bound: refreshes that are under way at a time
  MaxBreak     \* bound: event streams that break or cannot be dialled

ASSUME RemoteAssumption == FirstRemote \in Remote /\ None \notin Remote
ASSUME BoundAssumption ==
  /\ MaxChange \in Nat /\ MaxSwitch \in Nat /\ MaxBreak \in Nat
  /\ MaxRequest \in Nat \ {0}

VARIABLES
  version,  \* the number of changes made to the instances of each remote
  current,  \* incus_remote's current remote
  epoch,    \* IncusManager.remote_epoch
  shown,    \* IncusManager.vms: whose list, and as of which change
  reader,   \* the tasks that read the list
  listener, \* the event listener of each epoch, its half on the tokio runtime
  aborted,  \* has AbortHandle::abort been called on that half?
  events,   \* the events on the socket of each listener, not yet read
  changes,  \* the changes each listener has sent to its half on the UI thread
  hearing,  \* is that half on the UI thread still there?
  breaks,   \* the streams that have broken or failed to open so far
  spoilt    \* history: a reader failed, or an older answer came after a newer

vars == <<version, current, epoch, shown, reader, listener, aborted, events,
          changes, hearing, breaks, spoilt>>

Watchdog == 0
Reader == 0 .. MaxRequest
Epoch == 0 .. MaxSwitch
Change == 0 .. MaxChange

NoList == [remote |-> None, version |-> 0]
Latest == [remote |-> current, version |-> version[current]]

(* "idle": there is no such task, or the watchdog is asleep; "called":     *)
(* list_vms has not looked up the remote yet; "asked": the request is with *)
(* a daemon; "answered" and "failed": the result is not yet on the UI      *)
(* thread.                                                                 *)
Idle == [stage |-> "idle", remote |-> None, version |-> 0]

(* "reading": next_instance_event on an open stream; "silent": the same,   *)
(* and nothing arrives any more; "waiting": the backoff.                   *)
ListenerStage ==
  {"none", "dialling", "asking", "reading", "silent", "waiting", "ended"}

NotOpen(stage) == [stage |-> stage, remote |-> None]

TypeOK ==
  /\ version \in [Remote -> Change]
  /\ current \in Remote
  /\ epoch \in Epoch
  /\ shown \in [remote: Remote \union {None}, version: Change]
  /\ reader \in [Reader -> [stage: {"idle", "called", "asked", "answered", "failed"},
                            remote: Remote \union {None}, version: Change]]
  /\ listener \in [Epoch -> [stage: ListenerStage, remote: Remote \union {None}]]
  /\ aborted \in [Epoch -> BOOLEAN]
  /\ events \in [Epoch -> Change]
  /\ changes \in [Epoch -> Seq(Remote)]
  /\ hearing \in [Epoch -> BOOLEAN]
  /\ breaks \in 0 .. MaxBreak
  /\ spoilt \in BOOLEAN

(* `main' refreshes and starts the listener and the watchdog.              *)
Init ==
  /\ version = [r \in Remote |-> 0]
  /\ current = FirstRemote
  /\ epoch = 0
  /\ shown = NoList
  /\ reader = [i \in Reader |-> IF i = 1 THEN [Idle EXCEPT !.stage = "called"]
                                ELSE Idle]
  /\ listener = [e \in Epoch |-> NotOpen(IF e = 0 THEN "dialling" ELSE "none")]
  /\ aborted = [e \in Epoch |-> FALSE]
  /\ events = [e \in Epoch |-> 0]
  /\ changes = [e \in Epoch |-> <<>>]
  /\ hearing = [e \in Epoch |-> e = 0]
  /\ breaks = 0
  /\ spoilt = FALSE

----------------------------------------------------------------------------
(* The daemons.                                                            *)

(* An instance is created, started, renamed...: every open stream gets an  *)
(* event of it.                                                            *)
InstanceChanges(r) ==
  /\ version[r] < MaxChange
  /\ version' = [version EXCEPT ![r] = @ + 1]
  /\ events' = [e \in Epoch |->
                 IF listener[e].stage = "reading" /\ listener[e].remote = r
                 THEN events[e] + 1 ELSE events[e]]
  /\ UNCHANGED <<current, epoch, shown, reader, listener, aborted, changes,
                 hearing, breaks, spoilt>>

(* The connection is half open: it delivers nothing more and no error.     *)
StreamGoesSilent(e) ==
  /\ breaks < MaxBreak
  /\ listener[e].stage = "reading"
  /\ breaks' = breaks + 1
  /\ listener' = [listener EXCEPT ![e].stage = "silent"]
  /\ UNCHANGED <<version, current, epoch, shown, reader, aborted, events,
                 changes, hearing, spoilt>>

----------------------------------------------------------------------------
(* The readers: refresh and the watchdog, list_vms.                        *)

(* refresh(): a task that calls list_vms.                                  *)
Refresh ==
  \E i \in Reader \ {Watchdog} :
    /\ reader[i].stage = "idle"
    /\ \A j \in Reader \ {Watchdog} : j < i => reader[j].stage # "idle"
    /\ reader' = [reader EXCEPT ![i].stage = "called"]

(* The refresh button, and the end of a power action or of a rename.       *)
UserRefreshes ==
  /\ Refresh
  /\ UNCHANGED <<version, current, epoch, shown, listener, aborted, events,
                 changes, hearing, breaks, spoilt>>

(* The watchdog's timer.                                                   *)
WatchdogWakes ==
  /\ reader[Watchdog].stage = "idle"
  /\ reader' = [reader EXCEPT ![Watchdog].stage = "called"]
  /\ UNCHANGED <<version, current, epoch, shown, listener, aborted, events,
                 changes, hearing, breaks, spoilt>>

(* `request' looks up the current remote and sends the request to it.      *)
Ask(i) ==
  /\ reader[i].stage = "called"
  /\ reader' = [reader EXCEPT ![i].stage = "asked", ![i].remote = current]
  /\ UNCHANGED <<version, current, epoch, shown, listener, aborted, events,
                 changes, hearing, breaks, spoilt>>

(* The daemon reads its instances and answers.                             *)
Answer(i) ==
  /\ reader[i].stage = "asked"
  /\ reader' = [reader EXCEPT ![i].stage = "answered",
                              ![i].version = version[reader[i].remote]]
  /\ UNCHANGED <<version, current, epoch, shown, listener, aborted, events,
                 changes, hearing, breaks, spoilt>>

(* The daemon cannot be reached, or answers with an error.                 *)
ReadFails(i) ==
  /\ reader[i].stage \in {"called", "asked"}
  /\ reader' = [reader EXCEPT ![i] = [Idle EXCEPT !.stage = "failed"]]
  /\ UNCHANGED <<version, current, epoch, shown, listener, aborted, events,
                 changes, hearing, breaks, spoilt>>

(* Back on the UI thread with a list: set_vms shows it, whatever is shown. *)
Show(i) ==
  LET answer == [remote |-> reader[i].remote, version |-> reader[i].version]
      goesBack == \/ answer.remote # current
                  \/ shown.remote = current /\ answer.version < shown.version
  IN /\ reader[i].stage = "answered"
     /\ shown' = answer
     /\ reader' = [reader EXCEPT ![i] = Idle]
     /\ spoilt' = (answer # Latest /\ (spoilt \/ goesBack))
     /\ UNCHANGED <<version, current, epoch, listener, aborted, events, changes,
                    hearing, breaks>>

(* Mutant: the watchdog leaves its loop at the first error.                *)
WatchdogGivesUp(i) ==
  /\ reader[i].stage = "failed"
  /\ reader' = [reader EXCEPT ![i] = IF i = Watchdog THEN @ ELSE Idle]
  /\ spoilt' = TRUE
  /\ UNCHANGED <<version, current, epoch, shown, listener, aborted, events,
                 changes, hearing, breaks>>

(* ... with an error: it is reported, and the list stays as it was.        *)
ShowError(i) ==
  /\ reader[i].stage = "failed"
  /\ reader' = [reader EXCEPT ![i] = Idle]
  /\ spoilt' = TRUE
  /\ UNCHANGED <<version, current, epoch, shown, listener, aborted, events,
                 changes, hearing, breaks>>

----------------------------------------------------------------------------
(* The listener's half on the tokio runtime.  A task that has been aborted *)
(* is dropped when it next has to wait: until then it may finish the       *)
(* stretch of code it is in (a dial, a message), but never its backoff.    *)

(* events_websocket looks up the remote that is current by now.            *)
Dial(e) ==
  /\ listener[e].stage = "dialling"
  /\ listener' = [listener EXCEPT ![e].stage = "asking", ![e].remote = current]
  /\ UNCHANGED <<version, current, epoch, shown, reader, aborted, events,
                 changes, hearing, breaks, spoilt>>

(* tx.unbounded_send: the listener goes on, as `onwards', if there is a    *)
(* receiver, and ends if there is none.                                    *)
SendChange(e, onwards) ==
  IF hearing[e]
  THEN /\ changes' = [changes EXCEPT ![e] = Append(@, listener[e].remote)]
       /\ listener' = [listener EXCEPT ![e].stage = onwards]
  ELSE /\ listener' = [listener EXCEPT ![e] = NotOpen("ended")]
       /\ UNCHANGED changes

(* Mutant: the list is not read again when the stream has been opened.     *)
StreamOpensWithoutResync(e) ==
  /\ listener[e].stage = "asking"
  /\ listener' = [listener EXCEPT ![e].stage = "reading"]
  /\ UNCHANGED <<version, current, epoch, shown, reader, aborted, events,
                 changes, hearing, breaks, spoilt>>

(* The stream is open: ListChange::Resync.                                 *)
StreamOpens(e) ==
  /\ listener[e].stage = "asking"
  /\ SendChange(e, "reading")
  /\ UNCHANGED <<version, current, epoch, shown, reader, aborted, events,
                 hearing, breaks, spoilt>>

(* The daemon cannot be reached: nothing is reported.                      *)
DialFails(e) ==
  /\ breaks < MaxBreak
  /\ listener[e].stage = "asking"
  /\ breaks' = breaks + 1
  /\ listener' = [listener EXCEPT ![e] = NotOpen("waiting")]
  /\ UNCHANGED <<version, current, epoch, shown, reader, aborted, events,
                 changes, hearing, spoilt>>

(* Mutant: a message that is no event is taken for one.                    *)
ReadAnyMessage(e) ==
  /\ listener[e].stage \in {"reading", "silent"}
  /\ events' = [events EXCEPT ![e] = @ - 1]
  /\ SendChange(e, listener[e].stage)
  /\ UNCHANGED <<version, current, epoch, shown, reader, aborted, hearing,
                 breaks, spoilt>>

(* next_instance_event returns an event: ListChange::Event.                *)
ReadEvent(e) ==
  /\ listener[e].stage \in {"reading", "silent"}
  /\ events[e] > 0
  /\ events' = [events EXCEPT ![e] = @ - 1]
  /\ SendChange(e, listener[e].stage)
  /\ UNCHANGED <<version, current, epoch, shown, reader, aborted, hearing,
                 breaks, spoilt>>

(* next_instance_event returns None: the stream broke, and what it still   *)
(* carried is lost.                                                        *)
StreamBreaks(e) ==
  /\ breaks < MaxBreak
  /\ listener[e].stage = "reading"
  /\ breaks' = breaks + 1
  /\ listener' = [listener EXCEPT ![e] = NotOpen("waiting")]
  /\ events' = [events EXCEPT ![e] = 0]
  /\ UNCHANGED <<version, current, epoch, shown, reader, aborted, changes,
                 hearing, spoilt>>

(* None as well: the second idle window has passed without an answer to    *)
(* the ping.                                                               *)
SilenceIsNoticed(e) ==
  /\ listener[e].stage = "silent"
  /\ events[e] = 0
  /\ listener' = [listener EXCEPT ![e] = NotOpen("waiting")]
  /\ UNCHANGED <<version, current, epoch, shown, reader, aborted, events,
                 changes, hearing, breaks, spoilt>>

(* The backoff is over.                                                    *)
Redial(e) ==
  /\ listener[e].stage = "waiting"
  /\ ~aborted[e]
  /\ listener' = [listener EXCEPT ![e] = NotOpen("dialling")]
  /\ UNCHANGED <<version, current, epoch, shown, reader, aborted, events,
                 changes, hearing, breaks, spoilt>>

(* The runtime drops the aborted task.                                     *)
Reap(e) ==
  /\ aborted[e]
  /\ listener[e].stage # "ended"
  /\ listener' = [listener EXCEPT ![e] = NotOpen("ended")]
  /\ events' = [events EXCEPT ![e] = 0]
  /\ UNCHANGED <<version, current, epoch, shown, reader, aborted, changes,
                 hearing, breaks, spoilt>>

----------------------------------------------------------------------------
(* The listener's half on the UI thread, and the switch of the remote.     *)

(* Mutant: the epoch is not looked at.                                     *)
HearAnyChange(e) ==
  /\ hearing[e]
  /\ changes[e] # <<>>
  /\ Refresh
  /\ changes' = [changes EXCEPT ![e] = Tail(@)]
  /\ UNCHANGED <<version, current, epoch, shown, listener, aborted, events,
                 hearing, breaks, spoilt>>

(* A change of this epoch: a notice, when it is an instance created, and a *)
(* refresh.                                                                *)
HearChange(e) ==
  /\ hearing[e]
  /\ changes[e] # <<>>
  /\ e = epoch
  /\ Refresh
  /\ changes' = [changes EXCEPT ![e] = Tail(@)]
  /\ UNCHANGED <<version, current, epoch, shown, listener, aborted, events,
                 hearing, breaks, spoilt>>

(* A change of an earlier epoch, or the end of the channel: this half ends.*)
StopHearing(e) ==
  /\ hearing[e]
  /\ IF changes[e] # <<>> THEN e # epoch ELSE listener[e].stage = "ended"
  /\ hearing' = [hearing EXCEPT ![e] = FALSE]
  /\ changes' = [changes EXCEPT ![e] = <<>>]
  /\ UNCHANGED <<version, current, epoch, shown, reader, listener, aborted,
                 events, breaks, spoilt>>

(* Mutant: the listener of the previous remote is only detached.           *)
SwitchRemoteDetaches(r) ==
  /\ epoch < MaxSwitch
  /\ current' = r
  /\ shown' = NoList
  /\ epoch' = epoch + 1
  /\ Refresh
  /\ listener' = [listener EXCEPT ![epoch + 1].stage = "dialling"]
  /\ hearing' = [hearing EXCEPT ![epoch + 1] = TRUE]
  /\ UNCHANGED <<version, aborted, events, changes, breaks, spoilt>>

(* switch_remote, once the remote has resolved: the list is emptied, then  *)
(* refresh and start_event_listener, which aborts the previous listener.   *)
SwitchRemote(r) ==
  /\ epoch < MaxSwitch
  /\ current' = r
  /\ shown' = NoList
  /\ epoch' = epoch + 1
  /\ Refresh
  /\ listener' = [listener EXCEPT ![epoch + 1].stage = "dialling"]
  /\ hearing' = [hearing EXCEPT ![epoch + 1] = TRUE]
  /\ aborted' = [aborted EXCEPT ![epoch] = TRUE]
  /\ UNCHANGED <<version, events, changes, breaks, spoilt>>

----------------------------------------------------------------------------

ReaderStep(i) == Ask(i) \/ Answer(i) \/ ReadFails(i) \/ Show(i) \/ ShowError(i)

ListenerStep(e) ==
  \/ Dial(e) \/ StreamOpens(e) \/ DialFails(e) \/ Redial(e)
  \/ ReadEvent(e) \/ StreamBreaks(e) \/ SilenceIsNoticed(e)
  \/ Reap(e)

Next ==
  \/ \E r \in Remote : InstanceChanges(r) \/ SwitchRemote(r)
  \/ UserRefreshes \/ WatchdogWakes
  \/ \E i \in Reader : ReaderStep(i)
  \/ \E e \in Epoch : \/ StreamGoesSilent(e) \/ ListenerStep(e)
                      \/ HearChange(e) \/ StopHearing(e)

Spec == Init /\ [][Next]_vars

(* What the program does by itself: tasks that can run do run, timers      *)
(* fire, an aborted task is dropped.                                       *)
SchedulerFairness ==
  /\ WF_vars(WatchdogWakes)
  /\ \A i \in Reader : /\ WF_vars(Ask(i))
                       /\ WF_vars(Show(i))
                       /\ WF_vars(ShowError(i))
  /\ \A e \in Epoch : /\ WF_vars(Reap(e))
                      /\ WF_vars(StopHearing(e))

(* No daemon promises an answer.                                           *)
SilentSpec == Spec /\ SchedulerFairness

(* A daemon that is asked again and again answers in the end.              *)
FairSpec == SilentSpec /\ SF_vars(Ask(Watchdog)) /\ SF_vars(Answer(Watchdog))

----------------------------------------------------------------------------
(* What must hold.                                                         *)

(* Is a newer list, or word of one, on its way to the sidebar?             *)
OnTheWay ==
  \/ \E i \in Reader :
       \/ reader[i].stage = "called"
       \/ reader[i].stage = "asked" /\ reader[i].remote = current
       \/ reader[i].stage = "failed"
       \/ /\ reader[i].stage = "answered"
          /\ Latest = [remote |-> reader[i].remote, version |-> reader[i].version]
  \/ listener[epoch].stage # "reading"
  \/ events[epoch] > 0
  \/ changes[epoch] # <<>>

(* No change of the current remote goes by unnoticed, whenever the stream  *)
(* opens, breaks or falls silent: what is shown is the latest list, or     *)
(* something is on its way that will bring it, or a reader has failed or   *)
(* been overtaken (and then it is for the watchdog to mend).               *)
NoMissedChange == shown = Latest \/ OnTheWay \/ spoilt

(* What the UI acts on (a notice, a refresh) is news of the current remote *)
(* and never of one the user has left: what remote_epoch is for.           *)
ActsOnCurrentRemoteOnly ==
  [][\A e \in Epoch :
       changes[e] # <<>> /\ changes'[e] = Tail(changes[e]) /\ hearing'[e]
         => Head(changes[e]) = current]_vars

(* Once the daemons and the user are quiet, the list shown is that of the  *)
(* current remote, and up to date, for good: whatever was overtaken, lost  *)
(* or misdirected before (start_refresh_watchdog).                         *)
ListConverges == <>[](shown = Latest)

(* The listener of a remote that has been left is not parked on its socket *)
(* for the rest of the process (IncusManager.event_task).                  *)
OldListenersEnd ==
  \A e \in Epoch : e < epoch ~> listener[e].stage = "ended" /\ ~hearing[e]

(* Said of switch_remote (main.rs:365, README.md:32): it drops whatever    *)
(* the previous remote had open and starts fresh, so the list that is      *)
(* shown is never that of a remote which is not current.                   *)
ListIsOfCurrentRemote == shown = NoList \/ shown.remote = current

(* Said of the watchdog (main.rs:33, README.md:75): it bounds how long a   *)
(* broken stream can leave the list stale, so it polls again and again.    *)
WatchdogKeepsPolling == []<>(reader[Watchdog].stage = "idle")

=============================================================================
