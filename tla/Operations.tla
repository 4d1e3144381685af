----------------------------- MODULE Operations -----------------------------
(***************************************************************************)
(* The requests made for one instance (src/src/incus.rs): power actions    *)
(* and renames, which are operations of the daemon to be waited for, and   *)
(* the details, which take up to three requests.  Every request looks up   *)
(* the current remote anew (src/src/incus_remote.rs), and the user may     *)
(* switch to another one between any two.                                  *)
(*                                                                         *)
(* Which dialog asks for them, and what becomes of the answer there, is in *)
(* Overlay.                                                                *)
(***************************************************************************)
EXTENDS Integers

CONSTANTS
  Remote,      \* the remotes of config.yml
  FirstRemote, \* the default remote
  Task,        \* bound: the tasks that are spawned
  MaxRounds,   \* WAIT_TOTAL_ROUNDS
  None

ASSUME RemoteAssumption == FirstRemote \in Remote /\ None \notin Remote
ASSUME RoundAssumption == MaxRounds \in Nat \ {0}

VARIABLES
  current,   \* RemoteCache.current_name
  resolved,  \* RemoteCache.resolved: the remotes whose certificates were loaded
  loadable,  \* the remotes whose configuration and certificates can be loaded
  task,      \* the tasks
  operation, \* the operation each task has made, as its daemon has it
  spoilt     \* history: the task met an error, or another daemon than before

remotes == <<current, resolved, loadable>>
vars == <<current, resolved, loadable, task, operation, spoilt>>

(* "next": a request is to be made; "sent": it is under way; "ok", "error":*)
(* the task has its result; "done": the UI thread has taken it.  `asks' is *)
(* the remote the request went to, `at' the one that has the operation.    *)
Stage == {"idle", "next", "sent", "ok", "error", "done"}
Request == {"power", "rename", "wait", "instance", "state", "member"}

Idle == [stage |-> "idle", request |-> None, asks |-> None, at |-> None, round |-> 0]

TypeOK ==
  /\ current \in Remote /\ resolved \subseteq Remote /\ loadable \subseteq Remote
  /\ task \in [Task -> [stage: Stage, request: Request \union {None},
                        asks: Remote \union {None}, at: Remote \union {None},
                        round: 0..MaxRounds]]
  /\ operation \in [Task -> {"none", "running", "success", "failure"}]
  /\ spoilt \subseteq Task

Init ==
  /\ current = FirstRemote
  /\ resolved = {}
  /\ loadable \in SUBSET Remote
  /\ task = [t \in Task |-> Idle]
  /\ operation = [t \in Task |-> "none"]
  /\ spoilt = {}

----------------------------------------------------------------------------
(* The remotes.                                                            *)

CanResolve(r) == r \in resolved \union loadable

(* switch_to: the remote is resolved first, and only then made current.    *)
SwitchTo(r) ==
  /\ CanResolve(r)
  /\ resolved' = resolved \union {r}
  /\ current' = r
  /\ UNCHANGED <<loadable, task, operation, spoilt>>

(* Somebody edits config.yml, adds a remote or removes its certificate.    *)
ConfigChanges(r) ==
  /\ loadable' = IF r \in loadable THEN loadable \ {r} ELSE loadable \union {r}
  /\ UNCHANGED <<current, resolved, task, operation, spoilt>>

----------------------------------------------------------------------------
(* The tasks on the tokio runtime.                                         *)

Becomes(t, to) == task' = [task EXCEPT ![t] = to]

Begin(t, request) ==
  /\ task[t] = Idle
  /\ Becomes(t, [Idle EXCEPT !.stage = "next", !.request = request])
  /\ UNCHANGED <<remotes, operation, spoilt>>

PowerAction(t) == Begin(t, "power")
CommitRename(t) == Begin(t, "rename")
ShowDetails(t) == Begin(t, "instance")

(* request: the remote is looked up, and resolved if it has not been yet.  *)
Ask(t) ==
  /\ task[t].stage = "next" /\ CanResolve(current)
  /\ Becomes(t, [task[t] EXCEPT !.stage = "sent", !.asks = current])
  /\ resolved' = resolved \union {current}
  /\ UNCHANGED <<current, loadable, operation, spoilt>>

(* details after its first request: what cannot be had (the state of a     *)
(* stopped instance, a cluster) is left out, and without a location there  *)
(* is no third one.                                                        *)
RestOfDetails(t) ==
  {[task[t] EXCEPT !.stage = "ok"]}
    \union IF task[t].request = "state"
           THEN {[task[t] EXCEPT !.stage = "next", !.request = "member"]} ELSE {}

(* The remote cannot be resolved, the connection fails or times out, the   *)
(* daemon refuses (the instance may be gone, or running already).          *)
RequestFails(t) ==
  /\ \/ task[t].stage = "next" /\ ~CanResolve(current)
     \/ task[t].stage = "sent"
  /\ IF task[t].request \in {"state", "member"}
     THEN \E rest \in RestOfDetails(t) : Becomes(t, rest)
     ELSE Becomes(t, [task[t] EXCEPT !.stage = "error"])
  /\ spoilt' = spoilt \union {t}
  /\ UNCHANGED <<remotes, operation>>

(* change_state and rename: the daemon has made an operation of it.        *)
OperationMade(t) ==
  /\ task[t].stage = "sent" /\ task[t].request \in {"power", "rename"}
  /\ operation' = [operation EXCEPT ![t] = "running"]
  /\ Becomes(t, [task[t] EXCEPT !.stage = "next", !.request = "wait", !.at = task[t].asks])
  /\ UNCHANGED <<remotes, spoilt>>

(* The daemon gets to the end of an operation.                             *)
OperationEnds(t) ==
  /\ operation[t] = "running"
  /\ \E status \in {"success", "failure"} :
       operation' = [operation EXCEPT ![t] = status]
  /\ UNCHANGED <<remotes, task, spoilt>>

(* A round of wait_operation comes back from the daemon of the operation.  *)
Waited(t) ==
  task[t].stage = "sent" /\ task[t].request = "wait" /\ task[t].asks = task[t].at

(* Mutant: the operation that is still running is taken for a failed one.  *)
RoundFails(t) ==
  /\ Waited(t) /\ operation[t] = "running"
  /\ Becomes(t, [task[t] EXCEPT !.stage = "error"])
  /\ UNCHANGED <<remotes, operation, spoilt>>

(* Mutant: rounds are not counted.                                         *)
RoundsWithoutEnd(t) ==
  /\ Waited(t) /\ operation[t] = "running"
  /\ Becomes(t, [task[t] EXCEPT !.stage = "next"])
  /\ UNCHANGED <<remotes, operation, spoilt>>

(* Mutant: one round too many.                                             *)
RoundsOneTooMany(t) ==
  /\ Waited(t) /\ operation[t] = "running"
  /\ Becomes(t, [task[t] EXCEPT
       !.round = @ + 1,
       !.stage = IF task[t].round < MaxRounds THEN "next" ELSE "error"])
  /\ UNCHANGED <<remotes, operation, spoilt>>

(* The operation is still running: round again, but for the last time.     *)
RoundEnds(t) ==
  /\ Waited(t) /\ operation[t] = "running"
  /\ Becomes(t, [task[t] EXCEPT
       !.round = @ + 1,
       !.stage = IF task[t].round + 1 < MaxRounds THEN "next" ELSE "error"])
  /\ UNCHANGED <<remotes, operation, spoilt>>

WaitEnds(t) ==
  /\ Waited(t) /\ operation[t] \in {"success", "failure"}
  /\ Becomes(t, [task[t] EXCEPT !.stage = IF operation[t] = "success" THEN "ok" ELSE "error"])
  /\ UNCHANGED <<remotes, operation, spoilt>>

(* The current remote is another one by now, whose daemon does not know    *)
(* the operation.                                                          *)
WaitStrays(t) ==
  /\ task[t].stage = "sent" /\ task[t].request = "wait" /\ task[t].asks # task[t].at
  /\ Becomes(t, [task[t] EXCEPT !.stage = "error"])
  /\ spoilt' = spoilt \union {t}
  /\ UNCHANGED <<remotes, operation>>

DetailsRead(t) ==
  /\ task[t].stage = "sent"
  /\ \/ /\ task[t].request = "instance"
        /\ Becomes(t, [task[t] EXCEPT !.stage = "next", !.request = "state", !.at = task[t].asks])
     \/ /\ task[t].request \in {"state", "member"}
        /\ \E rest \in RestOfDetails(t) : Becomes(t, rest)
  /\ UNCHANGED <<remotes, operation, spoilt>>

(* The UI thread reports the error, if there is one, and reads the list    *)
(* again (see StatusMessages and InstanceList).                            *)
TakeResult(t) ==
  /\ task[t].stage \in {"ok", "error"}
  /\ Becomes(t, [task[t] EXCEPT !.stage = "done"])
  /\ UNCHANGED <<remotes, operation, spoilt>>

Answer(t) ==
  \/ RequestFails(t) \/ OperationMade(t) \/ DetailsRead(t)
  \/ RoundEnds(t) \/ WaitEnds(t) \/ WaitStrays(t)

Next ==
  \/ \E t \in Task : \/ PowerAction(t) \/ CommitRename(t) \/ ShowDetails(t)
                     \/ Ask(t) \/ Answer(t) \/ OperationEnds(t) \/ TakeResult(t)
  \/ \E r \in Remote : SwitchTo(r) \/ ConfigChanges(r)

Spec == Init /\ [][Next]_vars

(* Spawned tasks are polled, and a daemon answers what it is asked, a wait *)
(* at the end of its ?timeout= at the latest: for one that does not, the   *)
(* code has no timeout.  Nothing makes an operation end.                   *)
FairSpec ==
  /\ Spec
  /\ \A t \in Task : WF_vars(Ask(t) \/ Answer(t)) /\ WF_vars(TakeResult(t))

----------------------------------------------------------------------------
(* What must hold.                                                         *)

Acts(t) == task[t].request \in {"power", "rename", "wait"}

(* An action is reported as it went.  One that ends without an error has   *)
(* been done, by the daemon it was asked of: no round that merely ran out, *)
(* and no answer of another daemon, passes for a success.  And unless a    *)
(* request failed or went to another daemon, it is reported as failed only *)
(* if it has failed, or was running still after all the rounds ("Treating  *)
(* it as one used to report a bare failure for every stop of a VM that     *)
(* ignores ACPI", src/src/incus.rs:170).                                   *)
ReportedAsItWent ==
  \A t \in Task :
    /\ Acts(t) /\ task[t].stage = "ok" => operation[t] = "success"
    /\ Acts(t) /\ task[t].stage = "error" /\ t \notin spoilt
         => operation[t] = "failure" \/ task[t].round = MaxRounds

(* Whatever the user begins comes back to the UI thread in the end, even   *)
(* if the operation never ends and the remote is switched over and over.   *)
ActionsAreReported ==
  \A t \in Task : task[t].stage = "next" ~> task[t].stage = "done"

(* An operation is waited for where it was made (wait_operation, "Block    *)
(* until an async operation finishes").  The code asks whatever remote is  *)
(* current.                                                                *)
AwaitedWhereStarted ==
  \A t \in Task :
    task[t].stage = "sent" /\ task[t].request = "wait" => task[t].asks = task[t].at

=============================================================================
