--------------------------- MODULE ConsoleSession ---------------------------
(***************************************************************************)
(* One console session from start_console to its last task                 *)
(* (src/src/spice_session.rs).                                             *)
(*                                                                         *)
(* Three parties share it.  On the tokio runtime, the tunnel: an accept    *)
(* loop on a local socket, a control task, and one pump per SPICE channel. *)
(* On the GLib thread, the SPICE session, which dials that socket, with    *)
(* its frame timer and its input pump.  On the UI thread, the handle,      *)
(* whose Drop takes the tunnel down.  None of them waits for the others,   *)
(* so a console can be given up while its session has not been built yet,  *)
(* and dropped while the accept loop is at work.                           *)
(*                                                                         *)
(* The names that every module has begin with "Session" here, because this *)
(* module, StatusMessages and Operations are extended together.            *)
(***************************************************************************)
EXTENDS Naturals, FiniteSets

CONSTANTS
  Channel, \* the SPICE channels: main, display, inputs, ...
  NoChannel

ASSUME ChannelAssumption == NoChannel \notin Channel

VARIABLES
  start,     \* start_console, and then its handle
  proxy,     \* ConsoleProxy, and how far its Drop has come
  socket,    \* does the socket file exist?
  acceptor,  \* data_task
  accepted,  \* the channel it has spawned a pump for and not yet listed
  control,   \* control_task
  pump,      \* the pump of each channel
  websocket, \* has the daemon closed the data websocket of a channel?
  listed,    \* ConsoleProxy.pumps
  aborted,   \* the tasks AbortHandle::abort has been called on
  request,   \* the SessionRequest
  ready,     \* what the GLib thread has said of it
  input,     \* the sending half of the input queue, seen by the input pump
  session,   \* the SPICE session
  local,     \* its connection to the local socket, for each channel
  alive,     \* the flag `alive'
  timer      \* the frame timer: does it run?

tokio == <<acceptor, accepted, control, pump, websocket, listed, aborted>>
glib == <<request, ready, session, local, alive, timer>>
sessionVars == <<start, proxy, socket, acceptor, accepted, control, pump, websocket,
                 listed, aborted, request, ready, input, session, local, alive, timer>>

(* The type invariant: what each part of a session can be.  A handle is    *)
(* only handed out for a session that was built, over a tunnel that is up. *)
SessionTypeOK ==
  /\ start \in {"opening", "dialling", "waiting", "tab", "failed", "stopped"}
  /\ proxy \in {"none", "up", "aborted", "down"}
  /\ socket \in BOOLEAN
  /\ acceptor \in {"none", "accepting", "ended"}
  /\ accepted \in Channel \union {NoChannel}
  /\ control \in {"none", "open", "ended"}
  /\ pump \in [Channel -> {"none", "dialling", "copying", "ended"}]
  /\ websocket \in [Channel -> {"none", "open", "closed"}]
  /\ listed \in SUBSET Channel
  /\ aborted \in SUBSET (Channel \union {"acceptor", "control"})
  /\ request \in {"none", "queued", "taken"}
  /\ ready \in {"none", "ok", "err"}
  /\ input \in {"open", "shutdown", "dropped"}
  /\ session \in {"none", "connected", "closed"}
  /\ local \in [Channel -> {"none", "backlog", "open", "closed"}]
  /\ alive \in BOOLEAN
  /\ timer \in BOOLEAN
  /\ start = "tab" => session # "none" /\ proxy = "up"

SessionInit ==
  /\ start = "opening"
  /\ proxy = "none"
  /\ socket = FALSE
  /\ acceptor = "none"
  /\ accepted = NoChannel
  /\ control = "none"
  /\ pump = [c \in Channel |-> "none"]
  /\ websocket = [c \in Channel |-> "none"]
  /\ listed = {}
  /\ aborted = {}
  /\ request = "none"
  /\ ready = "none"
  /\ input = "open"
  /\ session = "none"
  /\ local = [c \in Channel |-> "none"]
  /\ alive = TRUE
  /\ timer = FALSE

----------------------------------------------------------------------------
(* start_console.                                                          *)

(* open_console fails, or the socket cannot be bound.                      *)
OpenFails ==
  /\ start = "opening"
  /\ start' = "failed"
  /\ UNCHANGED <<proxy, socket, tokio, input, glib>>

(* The daemon has an operation for the console, and the socket is bound.   *)
Bind ==
  /\ start = "opening"
  /\ start' = "dialling"
  /\ socket' = TRUE
  /\ UNCHANGED <<proxy, tokio, input, glib>>

(* Mutant: nobody owns the socket file until there is a proxy.             *)
ControlFailsLeavingFile ==
  /\ start = "dialling"
  /\ start' = "failed"
  /\ UNCHANGED <<proxy, socket, tokio, input, glib>>

(* The control websocket cannot be opened: SocketFile's Drop.              *)
ControlFails ==
  /\ start = "dialling"
  /\ start' = "failed"
  /\ socket' = FALSE
  /\ UNCHANGED <<proxy, tokio, input, glib>>

(* The control task and the accept loop run, and the request is sent.      *)
SpawnTunnel ==
  /\ start = "dialling"
  /\ start' = "waiting"
  /\ proxy' = "up"
  /\ control' = "open"
  /\ acceptor' = "accepting"
  /\ request' = "queued"
  /\ UNCHANGED <<socket, accepted, pump, websocket, listed, aborted, ready, input, session,
                 local, alive, timer>>

(* Mutant: any answer in time will do, the error of build_session as well. *)
StartedWhateverIsAnswered ==
  /\ start = "waiting"
  /\ ready # "none"
  /\ start' = "tab"
  /\ UNCHANGED <<proxy, socket, tokio, input, glib>>

(* The GLib thread says that the session connects: the handle is returned. *)
Started ==
  /\ start = "waiting"
  /\ ready = "ok"
  /\ start' = "tab"
  /\ UNCHANGED <<proxy, socket, tokio, input, glib>>

(* Mutant: the control task is forgotten.                                  *)
DropProxyOfData ==
  /\ proxy = "up"
  /\ proxy' = "aborted"
  /\ aborted' = aborted \union {"acceptor"}
  /\ UNCHANGED <<socket, acceptor, accepted, control, pump, websocket, listed, glib>>

(* ConsoleProxy's Drop, up to where it waits for the lock of `pumps'.      *)
DropProxy ==
  /\ proxy = "up"
  /\ proxy' = "aborted"
  /\ aborted' = aborted \union {"acceptor", "control"}
  /\ UNCHANGED <<socket, acceptor, accepted, control, pump, websocket, listed, glib>>

(* The session cannot be connected, or the 20 s pass without an answer:    *)
(* what start_console owns is dropped, and the input queue's sender too.   *)
StartFails ==
  /\ start = "waiting"
  /\ ready # "ok"
  /\ start' = "failed"
  /\ input' = "dropped"
  /\ DropProxy

(* ConsoleHandle::stop: by the user, or because the frames have ended.     *)
Stop ==
  /\ start = "tab"
  /\ start' = "stopped"
  /\ input' = "shutdown"
  /\ DropProxy

(* The rest of Drop: the pumps listed by then are aborted, and the fields  *)
(* are dropped, the socket file last.                                      *)
DropPumps ==
  /\ proxy = "aborted"
  /\ proxy' = "down"
  /\ aborted' = aborted \union listed
  /\ listed' = {}
  /\ socket' = FALSE
  /\ UNCHANGED <<start, acceptor, accepted, control, pump, websocket, input, glib>>

----------------------------------------------------------------------------
(* The tunnel.  A task that has been aborted is dropped when it next has   *)
(* to wait, and runs on until then.                                        *)

(* accept: a pump is spawned for the connection.                           *)
Accept(c) ==
  /\ acceptor = "accepting"
  /\ accepted = NoChannel
  /\ local[c] = "backlog"
  /\ local' = [local EXCEPT ![c] = "open"]
  /\ pump' = [pump EXCEPT ![c] = "dialling"]
  /\ accepted' = c
  /\ UNCHANGED <<start, proxy, socket, acceptor, control, websocket, listed,
                 aborted, request, ready, input, session, alive, timer>>

(* ... and listed, and the pumps that have ended leave the list.           *)
ListPump ==
  /\ accepted # NoChannel
  /\ listed' = {c \in listed : pump[c] # "ended"} \union {accepted}
  /\ accepted' = NoChannel
  /\ UNCHANGED <<start, proxy, socket, acceptor, control, pump, websocket, aborted,
                 input, glib>>

(* The accept loop is dropped where it waits, or leaves at an error; the   *)
(* connections nobody has accepted are closed with the listener.           *)
AcceptorEnds ==
  /\ acceptor = "accepting"
  /\ accepted = NoChannel
  /\ acceptor' = "ended"
  /\ local' = [c \in Channel |-> IF local[c] = "backlog" THEN "closed" ELSE local[c]]
  /\ UNCHANGED <<start, proxy, socket, accepted, control, pump, websocket,
                 listed, aborted, request, ready, input, session, alive, timer>>

(* The control task is dropped, or the daemon has closed its websocket.    *)
ControlEnds ==
  /\ control = "open"
  /\ control' = "ended"
  /\ UNCHANGED <<start, proxy, socket, acceptor, accepted, pump, websocket, listed,
                 aborted, input, glib>>

(* operation_websocket has succeeded: pump_console_data.                   *)
PumpDials(c) ==
  /\ pump[c] = "dialling"
  /\ pump' = [pump EXCEPT ![c] = "copying"]
  /\ websocket' = [websocket EXCEPT ![c] = "open"]
  /\ UNCHANGED <<start, proxy, socket, acceptor, accepted, control, listed,
                 aborted, input, glib>>

(* The guest has stopped, the network is gone, or someone else has taken   *)
(* the console over.                                                       *)
WebsocketCloses(c) ==
  /\ websocket[c] = "open"
  /\ websocket' = [websocket EXCEPT ![c] = "closed"]
  /\ UNCHANGED <<start, proxy, socket, acceptor, accepted, control, pump, listed,
                 aborted, input, glib>>

(* Mutant: the two directions are joined, so that one that ends waits for  *)
(* the other, which reads from an end nobody has a reason to close.        *)
EitherDirectionEndsJoined(c) ==
  pump[c] = "copying" /\ websocket[c] = "closed" /\ local[c] = "closed"

(* The two directions of pump_console_data are raced: it goes on until one *)
(* of the ends is closed.                                                  *)
EitherDirectionEnds(c) ==
  pump[c] = "copying" /\ (websocket[c] = "closed" \/ local[c] = "closed")

(* One direction has ended, the dial has failed, or the pump has been      *)
(* aborted and is dropped: both ends are closed.                           *)
PumpEnds(c) ==
  /\ \/ EitherDirectionEnds(c)
     \/ pump[c] = "dialling"
     \/ pump[c] = "copying" /\ c \in aborted
  /\ pump' = [pump EXCEPT ![c] = "ended"]
  /\ websocket' = [websocket EXCEPT ![c] = "closed"]
  /\ local' = [local EXCEPT ![c] = "closed"]
  /\ UNCHANGED <<start, proxy, socket, acceptor, accepted, control, listed,
                 aborted, request, ready, input, session, alive, timer>>

----------------------------------------------------------------------------
(* The GLib thread.                                                        *)

(* build_session: connect() fails.                                         *)
BuildFails ==
  /\ request = "queued"
  /\ request' = "taken"
  /\ ready' = "err"
  /\ UNCHANGED <<start, proxy, socket, tokio, input, session, local, alive, timer>>

(* build_session: the answer is sent, maybe to nobody, and both timers run.*)
BuildSession ==
  /\ request = "queued"
  /\ request' = "taken"
  /\ ready' = "ok"
  /\ session' = "connected"
  /\ timer' = TRUE
  /\ UNCHANGED <<start, proxy, socket, tokio, input, local, alive>>

(* A channel of the session dials the local socket.                        *)
DialSocket(c) ==
  /\ session = "connected"
  /\ socket
  /\ local[c] = "none"
  /\ acceptor = "accepting"
  /\ local' = [local EXCEPT ![c] = "backlog"]
  /\ UNCHANGED <<start, proxy, socket, tokio, request, ready, input, session,
                 alive, timer>>

(* The "disconnected" signal: the session has no channel left.             *)
Disconnected ==
  /\ session = "connected"
  /\ \A c \in Channel : local[c] \in {"none", "closed"}
  /\ acceptor = "ended" \/ \E c \in Channel : local[c] = "closed"
  /\ alive
  /\ alive' = FALSE
  /\ UNCHANGED <<start, proxy, socket, tokio, request, ready, input, session,
                 local, timer>>

(* Mutant: the pump waits for Shutdown and ignores that the sender is gone.*)
InputPumpHearsShutdown ==
  /\ session = "connected"
  /\ input = "shutdown"
  /\ alive' = FALSE
  /\ session' = "closed"
  /\ local' = [c \in Channel |-> "closed"]
  /\ UNCHANGED <<start, proxy, socket, tokio, request, ready, input, timer>>

(* The input pump finds Shutdown, or that the sender is gone: it clears    *)
(* `alive' and closes the session.                                         *)
InputPumpEnds ==
  /\ session = "connected"
  /\ input # "open"
  /\ alive' = FALSE
  /\ session' = "closed"
  /\ local' = [c \in Channel |-> "closed"]
  /\ UNCHANGED <<start, proxy, socket, tokio, request, ready, input, timer>>

(* The frame timer sees `alive' cleared and drops the sender of frames.    *)
FrameTimerEnds ==
  /\ timer
  /\ ~alive
  /\ timer' = FALSE
  /\ UNCHANGED <<start, proxy, socket, tokio, request, ready, input, session,
                 local, alive>>

----------------------------------------------------------------------------

StartStep ==
  \/ OpenFails \/ Bind \/ ControlFails \/ SpawnTunnel \/ Started
  \/ StartFails \/ Stop \/ DropPumps

TunnelStep ==
  \/ \E c \in Channel : Accept(c) \/ PumpDials(c) \/ WebsocketCloses(c) \/ PumpEnds(c)
  \/ ListPump \/ AcceptorEnds \/ ControlEnds

GlibStep ==
  \/ BuildFails \/ BuildSession
  \/ \E c \in Channel : DialSocket(c)
  \/ Disconnected \/ InputPumpEnds \/ FrameTimerEnds

SessionNext == StartStep \/ TunnelStep \/ GlibStep

SessionSpec == SessionInit /\ [][SessionNext]_sessionVars

(* Drop runs to its end.  An aborted task is dropped, a pump sees that the *)
(* session has closed its end, a dial succeeds or fails in the end.  The   *)
(* GLib loop serves its requests, signals and timers.  A tab whose frames  *)
(* have ended is closed (ConsoleTabs, DeadTabCloses).                      *)
SessionFairness ==
  /\ WF_sessionVars(DropPumps)
  /\ WF_sessionVars(ListPump)
  /\ WF_sessionVars("acceptor" \in aborted /\ AcceptorEnds)
  /\ WF_sessionVars("control" \in aborted /\ ControlEnds)
  /\ \A c \in Channel :
       /\ WF_sessionVars(PumpDials(c))
       /\ WF_sessionVars(pump[c] = "copying" /\ PumpEnds(c))
  /\ WF_sessionVars(BuildFails \/ BuildSession)
  /\ WF_sessionVars(Disconnected)
  /\ WF_sessionVars(InputPumpEnds)
  /\ WF_sessionVars(FrameTimerEnds)
  /\ WF_sessionVars(~timer /\ ~alive /\ Stop)

SessionFairSpec == SessionSpec /\ SessionFairness

----------------------------------------------------------------------------
(* What must hold.                                                         *)

GivenUp == start \in {"failed", "stopped"}

(* The socket file always has an owner whose Drop removes it, on every     *)
(* path by which start_console can fail ("every `?' below unlinks it").    *)
SocketIsOwned ==
  socket => start = "dialling" \/ proxy \in {"up", "aborted"}

(* A console that is given up, at whatever stage and for whatever reason,  *)
(* lets go of the daemon's operation, so that the next attempt to open it  *)
(* is not told that it is already connected: no task of the tunnel and no  *)
(* file is left (ConsoleProxy, and the leak its comment tells of).         *)
TunnelIsTakenDown ==
  GivenUp ~> /\ acceptor # "accepting" /\ control # "open" /\ ~socket
             /\ \A c \in Channel : pump[c] \in {"none", "ended"}

(* Nor does a session stay behind on the GLib thread, even one that was    *)
(* built after start_console had stopped to wait for it.                   *)
SessionEnds ==
  GivenUp ~> [](request # "queued" /\ session # "connected" /\ ~timer)

(* A console all of whose channels the daemon has closed is noticed, and   *)
(* its tab is closed (pump_console_data closes both ends at once).         *)
DroppedConsoleIsNoticed ==
  start = "tab" /\ (\A c \in Channel : websocket[c] = "closed")
    ~> start = "stopped"

(* Said of ConsoleProxy (spice_session.rs:218 and :226): taking the tunnel *)
(* down is Drop's job, and the pumps are collected so that it can abort    *)
(* them; so once Drop is through, no pump runs that it has not aborted.    *)
DropAbortsEveryPump ==
  proxy = "down" => \A c \in Channel : pump[c] \in {"none", "ended"} \/ c \in aborted

=============================================================================
