--------------------------- MODULE StatusMessages ---------------------------
(***************************************************************************)
(* The messages of the status bar (push_message, report_error,             *)
(* report_notice and clear_errors of src/src/main.rs).                     *)
(*                                                                         *)
(* Errors and notices share one short list.  A notice is taken down by a   *)
(* timer task of its own; errors are taken down together; the oldest       *)
(* message of either kind makes room for a new one.  The timers, the       *)
(* readers of the instance list and the user all get at the list in        *)
(* whatever order they come.                                               *)
(*                                                                         *)
(* The names that every module has begin with "Messages" here, because     *)
(* this module, ConsoleSession and Operations are extended together.       *)
(***************************************************************************)
EXTENDS Integers, Sequences

CONSTANTS
  MaxMessages, \* MAX_MESSAGES
  Text,        \* what a notice can say: which instance has been created
  MaxId        \* bound: messages in a behaviour

ASSUME MessagesAssumption == MaxMessages \in Nat \ {0}
ASSUME IdAssumption == MaxId \in Nat

VARIABLES
  messages,        \* IncusManager.messages, oldest first
  next_message_id, \* IncusManager.next_message_id
  timers,          \* the notices whose timer has not fired yet
  last             \* history: the handler that ran last

messagesVars == <<messages, next_message_id, timers, last>>

Id == 0 .. MaxId - 1

(* An error is about the list that could not be read, or about something   *)
(* else that failed; a notice has a text.                                  *)
About == {"list", "operation"}
Message == [id: Id, severity: {"error"}, about: About]
             \union [id: Id, severity: {"notice"}, about: Text]

Shown == {messages[i] : i \in DOMAIN messages}

(* The strip has room for what it holds, and holds it in the order it was  *)
(* pushed, each message under an id of its own: what a timer removes by id *)
(* is at most one message, and "the oldest" is the first.                  *)
MessagesTypeOK ==
  /\ messages \in Seq(Message)
  /\ Len(messages) <= MaxMessages
  /\ \A i, j \in DOMAIN messages : i < j => messages[i].id < messages[j].id
  /\ \A i \in DOMAIN messages : messages[i].id < next_message_id
  /\ next_message_id \in 0 .. MaxId
  /\ timers \in SUBSET Id
  /\ last \in {"start", "report", "timer", "list", "focus", "switch"}

MessagesInit ==
  /\ messages = <<>>
  /\ next_message_id = 0
  /\ timers = {}
  /\ last = "start"

----------------------------------------------------------------------------

(* Mutant: off by one in the length at which the oldest goes.              *)
PushOneTooMany(severity, about) ==
  LET longer == Append(messages, [id |-> next_message_id,
                                  severity |-> severity, about |-> about])
  IN /\ next_message_id < MaxId
     /\ next_message_id' = next_message_id + 1
     /\ messages' = IF Len(longer) > MaxMessages + 1 THEN Tail(longer) ELSE longer

(* push_message: the oldest goes when there is one too many.               *)
PushMessage(severity, about) ==
  LET longer == Append(messages, [id |-> next_message_id,
                                  severity |-> severity, about |-> about])
  IN /\ next_message_id < MaxId
     /\ next_message_id' = next_message_id + 1
     /\ messages' = IF Len(longer) > MaxMessages THEN Tail(longer) ELSE longer

(* Vec::retain: the messages that stay, in the order they were in.         *)
Retain(stay) ==
  LET kept[i \in 0 .. Len(messages)] ==
        IF i = 0 THEN <<>>
        ELSE IF messages[i] \in stay THEN Append(kept[i - 1], messages[i])
        ELSE kept[i - 1]
  IN kept[Len(messages)]

(* clear_errors.                                                           *)
WithoutErrors == Retain({m \in Shown : m.severity # "error"})

(* report_error: a reader of the list failed; or a console, a power        *)
(* action, a rename, a look at the details or a switch of the remote did.  *)
ReportError(about) ==
  /\ PushMessage("error", about)
  /\ last' = "report"
  /\ UNCHANGED timers

(* report_notice: the message, and a task that sleeps until it is over.    *)
ReportNotice(text) ==
  /\ PushMessage("notice", text)
  /\ timers' = timers \union {next_message_id}
  /\ last' = "report"

(* Mutant: what expires is looked up by its text.                          *)
TimerFiresByText(id) ==
  /\ id \in timers
  /\ timers' = timers \ {id}
  /\ messages' = Retain({m \in Shown : ~\E n \in Shown : n.id = id /\ n.about = m.about})
  /\ last' = "timer"
  /\ UNCHANGED next_message_id

(* Mutant: only the oldest message is looked at.                           *)
TimerFiresOnOldest(id) ==
  /\ id \in timers
  /\ timers' = timers \ {id}
  /\ messages' = IF messages # <<>> /\ Head(messages).id = id
                 THEN Tail(messages) ELSE messages
  /\ last' = "timer"
  /\ UNCHANGED next_message_id

(* The sleep is over: the notice goes, if it is still there.               *)
TimerFires(id) ==
  /\ id \in timers
  /\ timers' = timers \ {id}
  /\ messages' = Retain({m \in Shown : m.id # id})
  /\ last' = "timer"
  /\ UNCHANGED next_message_id

(* refresh or the watchdog has read the list.                              *)
ListRead ==
  /\ messages' = WithoutErrors
  /\ last' = "list"
  /\ UNCHANGED <<next_message_id, timers>>

(* focus_tab and open_or_focus.                                            *)
FocusTab ==
  /\ messages' = WithoutErrors
  /\ last' = "focus"
  /\ UNCHANGED <<next_message_id, timers>>

(* switch_remote.                                                          *)
SwitchRemote ==
  /\ messages' = <<>>
  /\ last' = "switch"
  /\ UNCHANGED <<next_message_id, timers>>

MessagesNext ==
  \/ \E about \in About : ReportError(about)
  \/ \E text \in Text : ReportNotice(text)
  \/ \E id \in Id : TimerFires(id)
  \/ ListRead \/ FocusTab \/ SwitchRemote

MessagesSpec == MessagesInit /\ [][MessagesNext]_messagesVars

(* The executor runs a timer that is due.                                  *)
MessagesFairSpec == MessagesSpec /\ \A id \in Id : WF_messagesVars(TimerFires(id))

----------------------------------------------------------------------------
(* What must hold.                                                         *)

(* Nothing takes a notice down early but the end of its own time, a switch *)
(* of the remote, or newer messages enough to fill the strip without it.   *)
NoticesLast ==
  [][\A m \in Shown \ Shown' :
       m.severity = "notice"
         => \/ m.id \in timers /\ m.id \notin timers'
            \/ last' = "switch"
            \/ /\ last' = "report"
               /\ Len(messages) = MaxMessages
               /\ \A n \in Shown : m.id <= n.id]_messagesVars

(* No notice stays for good.                                               *)
NoticesExpire ==
  \A id \in Id :
    (\E m \in Shown : m.id = id /\ m.severity = "notice")
      ~> (\A m \in Shown : m.id # id)

(* Said of errors (main.rs:205 and main.rs:520): they stay until the next  *)
(* successful refresh; so nothing else takes one down, but a switch of the *)
(* remote and the strip being full.                                        *)
ErrorsStayUntilRefresh ==
  [][\A m \in Shown \ Shown' :
       m.severity = "error" => last' \in {"list", "switch", "report"}]_messagesVars

(* Said of clear_errors (main.rs:560): failures are dropped once the thing *)
(* they were about has evidently recovered; so a list that could be read   *)
(* says nothing of a rename or of a power action that failed.              *)
ClearsOnlyWhatRecovered ==
  [][last' = "list" =>
       \A m \in Shown : m.severity = "error" /\ m.about = "operation"
                          => m \in Shown']_messagesVars

=============================================================================
