---------------------------- MODULE ConsoleTabs ----------------------------
(***************************************************************************)
(* The console tabs of the main window (src/src/main.rs): which consoles   *)
(* are open, which one is shown, which are still connecting, and the       *)
(* asynchronous task behind each of them.                                  *)
(*                                                                         *)
(* A click spawns a task (connect_console).  The task dials the daemon,    *)
(* may have to ask the user whether to take a busy console over, inserts a *)
(* tab, and then stays as the "frame pump" of that tab until the stream of *)
(* frames ends.  The tasks identify their tab by the VM it shows, not by   *)
(* the session they opened, and nothing cancels them when the user closes  *)
(* a tab or switches to another remote: the interleavings of those tasks   *)
(* with the user are what this module is about.                            *)
(*                                                                         *)
(* Everything that touches the tab list runs on the UI thread, between two *)
(* awaits of a task, so each action below is one such stretch of code.     *)
(***************************************************************************)
EXTENDS Integers, FiniteSets, SequencesExt

CONSTANTS
  Vm,          \* identities (VmId: project and name) of virtual machines
  Project,     \* projects
  ProjectOf,   \* the project of each VM
  Remote,      \* the remotes of the incus configuration
  FirstRemote, \* the configuration's default-remote
  MaxAttempt,  \* bound: connection attempts in a behaviour
  None         \* the absence of a VM or of a remote

(* A VM belongs to one project: VmId is a record of both.                  *)
ASSUME ProjectAssumption == ProjectOf \in [Vm -> Project]
ASSUME RemoteAssumption == FirstRemote \in Remote
ASSUME AttemptAssumption == MaxAttempt \in Nat
ASSUME NoneAssumption == None \notin Vm \union Remote \union Nat

VARIABLES
  tabs,       \* IncusManager.tabs: the open tabs, left to right
  active,     \* IncusManager.active: the VM of the shown tab, or None
  connecting, \* IncusManager.connecting, the VMs whose console is on its way
  task,       \* the task of each connection attempt
  session,    \* the SPICE session an attempt obtained, seen from the GLib thread
  visible,    \* FrameBudget.visible of that session
  queued,     \* is a frame waiting in the channel of that session?
  current,    \* incus_remote's current remote
  orphaned    \* history: what the last remote switch found pending, by VM

vars == <<tabs, active, connecting, task, session, visible, queued, current,
          orphaned>>

Attempt == 1 .. MaxAttempt

(* A tab owns the handle of one session, which is named by the attempt     *)
(* that opened it.  The image it shows is left to FrameRetirement.         *)
Tab == [vm: Vm, att: Attempt]

(* The steps of connect_console.  "opening": start_console is running and  *)
(* no daemon has been asked yet; "asked": a daemon has the request, or the *)
(* SPICE session is being built on its answer; "prompting": the takeover   *)
(* prompt is up; "streaming": the tab has been inserted, the pump runs.    *)
Stage == {"idle", "opening", "asked", "prompting", "streaming", "done"}
Pending == {"opening", "asked", "prompting"}

(* `remote' is history: the daemon that was asked last.                    *)
Task == [stage: Stage, vm: Vm \union {None}, force: BOOLEAN,
         remote: Remote \union {None}]

NoTask(stage) == [stage |-> stage, vm |-> None, force |-> FALSE, remote |-> None]

(* "stopping": Shutdown is in the input queue; "dead": `alive' is false;   *)
(* "ended": the frame timer has returned Break and dropped the sender.     *)
SessionState == {"none", "live", "stopping", "dead", "ended"}

TypeOK ==
  /\ tabs \in Seq(Tab)
  /\ active \in Vm \union {None}
  /\ connecting \in SUBSET Vm
  /\ task \in [Attempt -> Task]
  /\ session \in [Attempt -> SessionState]
  /\ visible \in [Attempt -> BOOLEAN]
  /\ queued \in [Attempt -> BOOLEAN]
  /\ current \in Remote
  /\ orphaned \in [Vm -> SUBSET Attempt]

----------------------------------------------------------------------------

Init ==
  /\ tabs = <<>>
  /\ active = None
  /\ connecting = {}
  /\ task = [a \in Attempt |-> NoTask("idle")]
  /\ session = [a \in Attempt |-> "none"]
  /\ visible = [a \in Attempt |-> TRUE]
  /\ queued = [a \in Attempt |-> FALSE]
  /\ current = FirstRemote
  /\ orphaned = [v \in Vm |-> {}]

IsOpen(v) == \E i \in DOMAIN tabs : tabs[i].vm = v

(* The attempts that will have a tab of `v', if all goes well.             *)
UnderWay(v) == {a \in Attempt : task[a].stage \in Pending /\ task[a].vm = v}

(* `tabs.iter().position(|t| t.id == v)`, `iter().find`: the first match.  *)
FirstTab(v) ==
  CHOOSE i \in DOMAIN tabs :
    tabs[i].vm = v /\ \A j \in DOMAIN tabs : tabs[j].vm = v => i <= j

(* set_active(v), given the tabs `ts' there are by then: each of them is   *)
(* told whether it is the shown one.                                       *)
SetActive(v, ts) ==
  /\ active' = v
  /\ visible' = [a \in Attempt |->
                  IF \E i \in DOMAIN ts : ts[i].att = a
                  THEN \E i \in DOMAIN ts : ts[i].att = a /\ ts[i].vm = v
                  ELSE visible[a]]

(* ConsoleHandle::stop on the handles of `as': Shutdown is queued.         *)
Stopped(as) ==
  [a \in Attempt |-> IF a \in as /\ session[a] = "live"
                     THEN "stopping" ELSE session[a]]

(* Mutant: the shown tab is closed and nothing takes its place.            *)
CloseTabKeepsActive(v) ==
  LET pos == FirstTab(v)
  IN /\ tabs' = RemoveAt(tabs, pos)
     /\ session' = Stopped({tabs[pos].att})
     /\ UNCHANGED <<active, visible>>

(* close_tab: the first tab of `v' goes; when that VM was the active one   *)
(* the neighbour that took its place, or the last tab, is shown instead.   *)
CloseTab(v) ==
  LET pos == FirstTab(v)
      ts  == RemoveAt(tabs, pos)
      neighbour == IF ts = <<>> THEN None
                   ELSE IF pos <= Len(ts) THEN ts[pos].vm ELSE ts[Len(ts)].vm
  IN /\ tabs' = ts
     /\ session' = Stopped({tabs[pos].att})
     /\ IF active = v THEN SetActive(neighbour, ts)
                      ELSE UNCHANGED <<active, visible>>

----------------------------------------------------------------------------
(* The user.                                                               *)

(* open_or_focus on a VM that is open, focus_tab, or Cmd and a digit.      *)
FocusTab(v) ==
  /\ IsOpen(v)
  /\ SetActive(v, tabs)
  /\ UNCHANGED <<tabs, connecting, task, session, queued, current, orphaned>>

(* Mutant: a second click on a VM that is still connecting spawns again.   *)
OpenTwice(v, a) ==
  /\ ~IsOpen(v)
  /\ task[a].stage = "idle"
  /\ \A b \in Attempt : b < a => task[b].stage # "idle"
  /\ connecting' = connecting \union {v}
  /\ task' = [task EXCEPT ![a].stage = "opening", ![a].vm = v]
  /\ UNCHANGED <<tabs, active, session, visible, queued, current, orphaned>>

(* open_or_focus on any other VM: nothing when it is already connecting,   *)
(* else connect_console(force = false) spawns a task.                      *)
Open(v, a) ==
  /\ ~IsOpen(v)
  /\ v \notin connecting
  /\ task[a].stage = "idle"
  /\ \A b \in Attempt : b < a => task[b].stage # "idle"
  /\ connecting' = connecting \union {v}
  /\ task' = [task EXCEPT ![a].stage = "opening", ![a].vm = v]
  /\ UNCHANGED <<tabs, active, session, visible, queued, current, orphaned>>

(* The close button of a tab, or Cmd-W on the active one.                  *)
UserClosesTab(v) ==
  /\ IsOpen(v)
  /\ CloseTab(v)
  /\ UNCHANGED <<connecting, task, queued, current, orphaned>>

(* Mutant: the tabs are put aside, with their handles, and not stopped.    *)
SwitchRemoteWithoutStop(r) ==
  /\ tabs' = <<>>
  /\ active' = None
  /\ connecting' = {}
  /\ current' = r
  /\ orphaned' = [v \in Vm |-> UnderWay(v)]
  /\ UNCHANGED <<task, session, visible, queued>>

(* switch_remote, once the remote has resolved.  The switcher also offers  *)
(* the remote that is current already.                                     *)
SwitchRemote(r) ==
  /\ tabs' = <<>>
  /\ session' = Stopped({tabs[i].att : i \in DOMAIN tabs})
  /\ active' = None
  /\ connecting' = {}
  /\ current' = r
  /\ orphaned' = [v \in Vm |-> UnderWay(v)]
  /\ UNCHANGED <<task, visible, queued>>

(* The prompt's "cancel", or the prompt going away without an answer.      *)
DeclineTakeOver(a) ==
  /\ task[a].stage = "prompting"
  /\ task' = [task EXCEPT ![a] = NoTask("done")]
  /\ connecting' = connecting \ {task[a].vm}
  /\ UNCHANGED <<tabs, active, session, visible, queued, current, orphaned>>

(* The prompt's "take over": connect_console(force = true).                *)
AcceptTakeOver(a) ==
  /\ task[a].stage = "prompting"
  /\ task' = [task EXCEPT ![a].stage = "opening", ![a].force = TRUE]
  /\ UNCHANGED <<tabs, active, connecting, session, visible, queued, current,
                 orphaned>>

----------------------------------------------------------------------------
(* The task of an attempt, up to the moment it has a tab.                  *)

(* open_console sends the request to the remote that is current by then.   *)
(* The control websocket is dialled in the same step: had the remote       *)
(* changed between the two the attempt would fail, which Fail allows.      *)
AskDaemon(a) ==
  /\ task[a].stage = "opening"
  /\ task' = [task EXCEPT ![a].stage = "asked", ![a].remote = current]
  /\ UNCHANGED <<tabs, active, connecting, session, visible, queued, current,
                 orphaned>>

(* StartError::AlreadyConnected: the user is asked.  The daemon never says *)
(* so to a request that carries force.                                     *)
DaemonIsBusy(a) ==
  /\ task[a].stage = "asked"
  /\ ~task[a].force
  /\ task' = [task EXCEPT ![a].stage = "prompting"]
  /\ UNCHANGED <<tabs, active, connecting, session, visible, queued, current,
                 orphaned>>

(* Any other error, at any point of start_console.                         *)
Fail(a) ==
  /\ task[a].stage \in {"opening", "asked"}
  /\ task' = [task EXCEPT ![a] = NoTask("done")]
  /\ connecting' = connecting \ {task[a].vm}
  /\ UNCHANGED <<tabs, active, session, visible, queued, current, orphaned>>

(* Mutant: a new tab always goes last.                                     *)
InsertPosLast(v) == Len(tabs) + 1

(* Where a tab of `v' goes: after the last tab of its project, else last.  *)
InsertPos(v) ==
  LET same == {i \in DOMAIN tabs : ProjectOf[tabs[i].vm] = ProjectOf[v]}
  IN IF same = {} THEN Len(tabs) + 1
     ELSE 1 + CHOOSE i \in same : \A j \in same : j <= i

(* start_console returned Ok: the tab is inserted and shown.               *)
Connected(a) ==
  LET v  == task[a].vm
      ts == InsertAt(tabs, InsertPos(v), [vm |-> v, att |-> a])
  IN /\ task[a].stage = "asked"
     /\ task' = [task EXCEPT ![a].stage = "streaming"]
     /\ connecting' = connecting \ {v}
     /\ tabs' = ts
     /\ session' = [session EXCEPT ![a] = "live"]
     /\ SetActive(v, ts)
     /\ UNCHANGED <<queued, current, orphaned>>

----------------------------------------------------------------------------
(* The session on the GLib thread.                                         *)

(* The frame timer sends an image.  Its pacing is the subject of           *)
(* FramePacing; here a session may send while it has not been told to end. *)
SendFrame(a) ==
  /\ session[a] \in {"live", "stopping"}
  /\ task[a].stage = "streaming"
  /\ ~queued[a]
  /\ queued' = [queued EXCEPT ![a] = TRUE]
  /\ UNCHANGED <<tabs, active, connecting, task, session, visible, current,
                 orphaned>>

(* The pump is gone and has taken the receiver with it: the timer clears   *)
(* `alive' and ends.                                                       *)
SendFails(a) ==
  /\ session[a] \in {"live", "stopping"}
  /\ task[a].stage = "done"
  /\ session' = [session EXCEPT ![a] = "ended"]
  /\ UNCHANGED <<tabs, active, connecting, task, visible, queued, current,
                 orphaned>>

(* The input pump reads Shutdown and clears `alive'.                       *)
HandleShutdown(a) ==
  /\ session[a] = "stopping"
  /\ session' = [session EXCEPT ![a] = "dead"]
  /\ UNCHANGED <<tabs, active, connecting, task, visible, queued, current,
                 orphaned>>

(* The "disconnected" signal: the guest stopped, or the network dropped.   *)
Disconnected(a) ==
  /\ session[a] \in {"live", "stopping"}
  /\ session' = [session EXCEPT ![a] = "dead"]
  /\ UNCHANGED <<tabs, active, connecting, task, visible, queued, current,
                 orphaned>>

(* Mutant: the timer looks at its budget before it looks at `alive'.       *)
FrameTimerEndsIfVisible(a) ==
  /\ session[a] = "dead"
  /\ visible[a]
  /\ session' = [session EXCEPT ![a] = "ended"]
  /\ UNCHANGED <<tabs, active, connecting, task, visible, queued, current,
                 orphaned>>

(* The next tick of the frame timer sees that and drops the sender.        *)
FrameTimerEnds(a) ==
  /\ session[a] = "dead"
  /\ session' = [session EXCEPT ![a] = "ended"]
  /\ UNCHANGED <<tabs, active, connecting, task, visible, queued, current,
                 orphaned>>

----------------------------------------------------------------------------
(* The frame pump: the rest of the task, back on the UI thread.            *)

(* Images have arrived for a VM that is open: its first tab shows the last *)
(* of them.                                                                *)
PumpFrame(a) ==
  /\ task[a].stage = "streaming"
  /\ queued[a]
  /\ IsOpen(task[a].vm)
  /\ queued' = [queued EXCEPT ![a] = FALSE]
  /\ UNCHANGED <<tabs, active, connecting, task, session, visible, current,
                 orphaned>>

(* An image has arrived and no tab shows the VM: the pump leaves its loop. *)
PumpFindsNoTab(a) ==
  /\ task[a].stage = "streaming"
  /\ queued[a]
  /\ ~IsOpen(task[a].vm)
  /\ queued' = [queued EXCEPT ![a] = FALSE]
  /\ task' = [task EXCEPT ![a] = NoTask("done")]
  /\ UNCHANGED <<tabs, active, connecting, session, visible, current, orphaned>>

(* Mutant: the pump takes every end of the stream for an expected one.     *)
PumpEndsSilently(a) ==
  /\ task[a].stage = "streaming"
  /\ session[a] = "ended"
  /\ ~queued[a]
  /\ task' = [task EXCEPT ![a] = NoTask("done")]
  /\ UNCHANGED <<tabs, active, connecting, session, visible, queued, current,
                 orphaned>>

(* The stream has ended.  If the VM is open by then its tab is closed, and *)
(* the user is told that the connection dropped.                           *)
PumpEnds(a) ==
  LET v == task[a].vm
  IN /\ task[a].stage = "streaming"
     /\ session[a] = "ended"
     /\ ~queued[a]
     /\ task' = [task EXCEPT ![a] = NoTask("done")]
     /\ IF IsOpen(v) THEN CloseTab(v)
                     ELSE UNCHANGED <<tabs, active, session, visible>>
     /\ UNCHANGED <<connecting, queued, current, orphaned>>

----------------------------------------------------------------------------

UserStep ==
  \/ \E v \in Vm : FocusTab(v) \/ UserClosesTab(v) \/ \E a \in Attempt : Open(v, a)
  \/ \E r \in Remote : SwitchRemote(r)
  \/ \E a \in Attempt : DeclineTakeOver(a) \/ AcceptTakeOver(a)

DaemonStep(a) == AskDaemon(a) \/ DaemonIsBusy(a) \/ Fail(a) \/ Connected(a)

GlibStep(a) ==
  \/ SendFrame(a) \/ SendFails(a)
  \/ HandleShutdown(a) \/ Disconnected(a)
  \/ FrameTimerEnds(a)

PumpStep(a) == PumpFrame(a) \/ PumpFindsNoTab(a) \/ PumpEnds(a)

Next ==
  \/ UserStep
  \/ \E a \in Attempt : DaemonStep(a) \/ GlibStep(a) \/ PumpStep(a)

Spec == Init /\ [][Next]_vars

(* The GLib loop and the UI executor keep running what is ready: a queued  *)
(* Shutdown is read, the frame timer ticks, a pump with something to do is *)
(* polled.  Nothing is assumed of the user, the daemon or the network.     *)
Fairness ==
  \A a \in Attempt : /\ WF_vars(HandleShutdown(a))
                     /\ WF_vars(FrameTimerEnds(a))
                     /\ WF_vars(PumpStep(a))

FairSpec == Spec /\ Fairness

----------------------------------------------------------------------------
(* What must hold.                                                         *)

(* Something is shown exactly when something is open, and what is shown is *)
(* open (active_tab, and close_tab's choice of the neighbour).             *)
ActiveIsOpen ==
  /\ active = None <=> tabs = <<>>
  /\ active # None => IsOpen(active)

(* The tab that is shown converts frames and no other open tab does: the   *)
(* invariant set_active is "kept in one place" for.                        *)
OnlyShownTabConverts ==
  \A i \in DOMAIN tabs : visible[tabs[i].att] <=> tabs[i].vm = active

(* The tabs of a project stay next to each other, whatever the order in    *)
(* which consoles connect and close (connect_console's insertion).         *)
ProjectsContiguous ==
  \A i, j, k \in DOMAIN tabs :
    i < j /\ j < k /\ ProjectOf[tabs[i].vm] = ProjectOf[tabs[k].vm]
      => ProjectOf[tabs[j].vm] = ProjectOf[tabs[i].vm]

(* A session nobody has told to end is one a tab still owns: neither       *)
(* close_tab nor switch_remote lets go of a console without stopping it.   *)
NoLeakedSession ==
  \A a \in Attempt :
    session[a] = "live" => \E i \in DOMAIN tabs : tabs[i].att = a

(* A VM has one console at most, open or on its way, and one more for each *)
(* attempt on it that the last remote switch left behind: no click, however *)
(* late such an attempt fails or connects, makes another.  And a VM that   *)
(* is marked as connecting has an attempt on its way and no tab: the mark, *)
(* at which open_or_focus does nothing, is never left over.                *)
OneConsolePerVm ==
  \A v \in Vm :
    /\ Cardinality({i \in DOMAIN tabs : tabs[i].vm = v}) + Cardinality(UnderWay(v))
         <= Cardinality(orphaned[v])
              + (IF IsOpen(v) \/ v \in connecting THEN 1 ELSE 0)
    /\ v \in connecting => ~IsOpen(v) /\ UnderWay(v) # {}

(* There are never more tabs of a VM than pumps serving it, even once the  *)
(* pumps have begun to close each other's tabs: no tab is ever left that   *)
(* the end of some stream would not close.                                 *)
TabsHavePumps ==
  \A v \in Vm :
    Cardinality({i \in DOMAIN tabs : tabs[i].vm = v})
      <= Cardinality({a \in Attempt : task[a].stage = "streaming"
                                      /\ task[a].vm = v})

(* A console whose connection is lost does not stay on screen: its tab is  *)
(* removed (the end of connect_console's frame pump).                      *)
DeadTabCloses ==
  \A a \in Attempt :
    session[a] \in {"dead", "ended"} ~> \A i \in DOMAIN tabs : tabs[i].att # a

(* Said of switch_remote (main.rs:365, incus_remote.rs:8): switching drops *)
(* whatever the previous remote had open, so every tab there is shows a    *)
(* console of the current remote.                                          *)
TabsAreOfCurrentRemote ==
  \A i \in DOMAIN tabs : task[tabs[i].att].remote = current

(* Said of switch_remote as well: the forced open the user agreed to in    *)
(* the takeover prompt goes to the daemon that asked for the agreement.    *)
TakesOverWhatWasAsked ==
  [][\A a \in Attempt :
       task[a].force /\ task[a].stage = "opening" /\ task'[a].stage = "asked"
         => task'[a].remote = task[a].remote]_vars

(* Said of the end of the frame pump (main.rs:889): when the tab was       *)
(* closed already the pump does nothing, so a stream that ends never       *)
(* closes a tab that another stream feeds.                                 *)
PumpClosesOnlyItsTab ==
  [][\A a \in Attempt :
       task[a].stage = "streaming" /\ task'[a].stage = "done"
       /\ orphaned[task[a].vm] = {}
         => \/ tabs' = tabs
            \/ \E i \in DOMAIN tabs : tabs[i].att = a]_vars

=============================================================================
