----------------------------- MODULE InputPump -----------------------------
(***************************************************************************)
(* The pointer, the wheel and the lone key taps of one console, from the   *)
(* handlers of the UI thread (src/src/main.rs, src/src/ui/console.rs)      *)
(* through a channel to the input pump on the GLib thread                  *)
(* (src/src/spice_session.rs, build_session), which drains the channel     *)
(* every 4 ms and collapses runs of motion.                                *)
(*                                                                         *)
(* A handler sends several events, and a tick may fall between any two.    *)
(* The guest takes absolute positions in client mode and displacements in  *)
(* server mode, and its agent changes the mode when it likes.  A place is  *)
(* one coordinate of the guest's screen: the two are treated alike.        *)
(***************************************************************************)
EXTENDS Integers, SequencesExt

CONSTANTS
  Place,       \* the coordinates inside the guest's screen
  Button,      \* the buttons but the wheel's
  Up, Down,    \* the buttons that stand for the wheel
  Key,         \* keys that can be pressed and released
  CapsLock,    \* the key that is tapped when the lock changes
  Combo,       \* the keys of Ctrl+Alt+Del, in their order
  Turn,        \* how far the wheel can be turned at once
  Notch,       \* how much of that makes a click of the wheel
  MaxNotches,  \* the clicks one turn may cause
  Outside,     \* the pointer is over the border, or there is no frame yet
  None,
  MaxHandled   \* bound: the handlers that run

ASSUME PlaceAssumption == Place \subseteq Int /\ Outside \notin Place /\ None \notin Place
ASSUME WheelAssumption ==
  Turn \subseteq Int /\ Notch \in Nat \ {0} /\ MaxNotches \in Nat
ASSUME ButtonAssumption == {Up, Down} \cap Button = {}
ASSUME KeyAssumption == CapsLock \in Key /\ Combo \in Seq(Key)
ASSUME HandledAssumption == MaxHandled \in Nat

VARIABLES
  (* UI thread *)
  pointer,          \* what the pointer is over
  sending,          \* the events the handler has still to send
  scroll_remainder, \* ConsoleTab.scroll_remainder, in parts of a notch
  open,             \* the tab still has its handle
  handled,          \* the number of handlers that have run
  (* between the threads *)
  queue,            \* the channel of InputEvents
  (* GLib thread *)
  pump,             \* what the timer is at
  pending_motion,   \* the motion that may still be superseded
  actions,          \* what has been drained and not been put into effect
  inputs_channel,   \* has spice-gtk made the inputs channel?
  mouse_mode,
  last_pos,
  button_state,     \* the mask, as a set
  (* the guest *)
  told,             \* the event put into effect last
  guest,            \* where its pointer is, the mask it saw last, what is down
  synced            \* history: it has been given an absolute position

ui == <<pointer, sending, scroll_remainder, open, handled>>
drained == <<pending_motion, actions>>
session == <<inputs_channel, mouse_mode>>
effect == <<last_pos, button_state, told, guest, synced>>
vars == <<pointer, sending, scroll_remainder, open, handled, queue, pump,
          pending_motion, actions, inputs_channel, mouse_mode, last_pos,
          button_state, told, guest, synced>>

Motion(p) == [type |-> "motion", at |-> p]
Motions == {Motion(p) : p \in Place}
(* `aim' is history: what the pointer was over.                            *)
ButtonEvent(b, down, p) == [type |-> "button", button |-> b, pressed |-> down, aim |-> p]
Scroll(b) == [type |-> "scroll", button |-> b]
KeyEvent(k, down) == [type |-> "key", key |-> k, pressed |-> down]
Shutdown == [type |-> "shutdown"]

Event ==
  Motions
    \union {ButtonEvent(b, d, p) : b \in Button, d \in BOOLEAN, p \in Place \union {Outside}}
    \union {Scroll(b) : b \in {Up, Down}}
    \union {KeyEvent(k, d) : k \in Key, d \in BOOLEAN}
    \union {Shutdown}

TypeOK ==
  /\ pointer \in Place \union {Outside}
  /\ sending \in Seq(Event)
  /\ scroll_remainder \in (1 - Notch)..(Notch - 1)
  /\ open \in BOOLEAN
  /\ handled \in 0..MaxHandled
  /\ queue \in Seq(Event)
  /\ pump \in {"idle", "draining", "delivering", "gone"}
  /\ pending_motion \in Place \union {None}
  /\ actions \in Seq(Event \ {Shutdown})
  /\ inputs_channel \in BOOLEAN
  /\ mouse_mode \in {"server", "client"}
  /\ last_pos \in Place \union {None}
  /\ button_state \subseteq Button
  /\ told \in Event \union {None}
  /\ guest \in [at: Int, mask: SUBSET (Button \union {Up, Down}), down: SUBSET Button]
  /\ synced \in BOOLEAN

Init ==
  /\ pointer = Outside
  /\ sending = <<>>
  /\ scroll_remainder = 0
  /\ open = TRUE
  /\ handled = 0
  /\ queue = <<>>
  /\ pump = "idle"
  /\ pending_motion = None
  /\ actions = <<>>
  /\ inputs_channel = FALSE
  /\ mouse_mode = "server"
  /\ last_pos = None
  /\ button_state = {}
  /\ told = None
  /\ guest = [at |-> 0, mask |-> {}, down |-> {}]
  /\ synced = FALSE

----------------------------------------------------------------------------
(* The handlers of the UI thread.                                          *)

(* What send_mouse_motion sends: nothing from outside of the picture.      *)
MotionTo(p) == IF p \in Place THEN <<Motion(p)>> ELSE <<>>

(* A handler is called and is going to send `events'.                      *)
Handle(events) ==
  /\ open /\ sending = <<>>
  /\ handled < MaxHandled
  /\ handled' = handled + 1
  /\ sending' = events
  /\ UNCHANGED <<queue, pump, drained, session, effect>>

PointerMoves(p) ==
  /\ Handle(MotionTo(p))
  /\ pointer' = p
  /\ UNCHANGED <<scroll_remainder, open>>

(* Every press is preceded by the motion to where it is made.              *)
PressButton(b) ==
  /\ Handle(Append(MotionTo(pointer), ButtonEvent(b, TRUE, pointer)))
  /\ UNCHANGED <<pointer, scroll_remainder, open>>

(* A release is forwarded wherever it happens, and whatever it releases.   *)
ReleaseButton(b) ==
  /\ Handle(<<ButtonEvent(b, FALSE, pointer)>>)
  /\ UNCHANGED <<pointer, scroll_remainder, open>>

Trunc(n) == IF n < 0 THEN -((-n) \div Notch) ELSE n \div Notch
Magnitude(n) == IF n < 0 THEN -n ELSE n

(* send_mouse_scroll: whole notches are sent, up to the cap, and the rest  *)
(* of a notch is kept for the next turn.                                   *)
TurnWheel(d) ==
  LET total == scroll_remainder + d
      clicks == Magnitude(Trunc(total))
      sent == IF clicks < MaxNotches THEN clicks ELSE MaxNotches
      wheel == IF Trunc(total) > 0 THEN Up ELSE Down
  IN /\ Handle(MotionTo(pointer) \o [i \in 1..sent |-> Scroll(wheel)])
     /\ scroll_remainder' = total - Trunc(total) * Notch
     /\ UNCHANGED <<pointer, open>>

(* sync_capslock: a change of the lock is a tap of the key.                *)
CapsLockChanges ==
  /\ Handle(<<KeyEvent(CapsLock, TRUE), KeyEvent(CapsLock, FALSE)>>)
  /\ UNCHANGED <<pointer, scroll_remainder, open>>

SendCtrlAltDel ==
  /\ Handle([i \in DOMAIN Combo |-> KeyEvent(Combo[i], TRUE)]
              \o [i \in DOMAIN Combo |-> KeyEvent(Reverse(Combo)[i], FALSE)])
  /\ UNCHANGED <<pointer, scroll_remainder, open>>

(* stop: the handle goes with its last event.                              *)
Stop ==
  /\ open /\ sending = <<>>
  /\ open' = FALSE
  /\ queue' = Append(queue, Shutdown)
  /\ UNCHANGED <<pointer, sending, scroll_remainder, handled, pump, drained, session, effect>>

SendInput ==
  /\ sending # <<>>
  /\ queue' = Append(queue, Head(sending))
  /\ sending' = Tail(sending)
  /\ UNCHANGED <<pointer, scroll_remainder, open, handled, pump, drained, session, effect>>

----------------------------------------------------------------------------
(* The GLib thread between two ticks.                                      *)

ChannelNew ==
  /\ pump \in {"idle", "gone"} /\ ~inputs_channel
  /\ inputs_channel' = TRUE
  /\ UNCHANGED <<ui, queue, pump, drained, mouse_mode, effect>>

(* The guest's agent comes or goes.                                        *)
MouseModeNotify ==
  /\ pump \in {"idle", "gone"}
  /\ mouse_mode' = IF mouse_mode = "server" THEN "client" ELSE "server"
  /\ UNCHANGED <<ui, queue, pump, drained, inputs_channel, effect>>

----------------------------------------------------------------------------
(* A tick: the channel is drained, one event after the other, until it is  *)
(* found empty; the UI thread may go on sending meanwhile.                 *)

Tick ==
  /\ pump = "idle"
  /\ pump' = "draining"
  /\ UNCHANGED <<ui, queue, drained, session, effect>>

Receives(types) ==
  /\ pump = "draining"
  /\ queue # <<>> /\ Head(queue).type \in types

DrainMotion ==
  /\ Receives({"motion"})
  /\ pending_motion' = Head(queue).at
  /\ queue' = Tail(queue)
  /\ UNCHANGED <<ui, pump, actions, session, effect>>

(* Mutant: the motion is left to the end of the tick.                      *)
DrainOtherFirst ==
  /\ Receives({"button", "scroll", "key"})
  /\ actions' = Append(actions, Head(queue))
  /\ queue' = Tail(queue)
  /\ UNCHANGED <<ui, pump, pending_motion, session, effect>>

(* The motion that came before goes first.                                 *)
DrainOther ==
  /\ Receives({"button", "scroll", "key"})
  /\ actions' = actions \o MotionTo(pending_motion) \o <<Head(queue)>>
  /\ pending_motion' = None
  /\ queue' = Tail(queue)
  /\ UNCHANGED <<ui, pump, session, effect>>

(* The source is removed, with whatever it had drained.                    *)
DrainShutdown ==
  /\ Receives({"shutdown"})
  /\ queue' = <<>>
  /\ actions' = <<>>
  /\ pending_motion' = None
  /\ pump' = "gone"
  /\ UNCHANGED <<ui, session, effect>>

DrainEmpty ==
  /\ pump = "draining" /\ queue = <<>>
  /\ actions' = actions \o MotionTo(pending_motion)
  /\ pending_motion' = None
  /\ pump' = "delivering"
  /\ UNCHANGED <<ui, queue, session, effect>>

Delivers(type) ==
  /\ pump = "delivering" /\ inputs_channel
  /\ actions # <<>> /\ Head(actions).type = type
  /\ told' = Head(actions)
  /\ actions' = Tail(actions)
  /\ UNCHANGED <<ui, queue, pump, pending_motion, session>>

(* Mutant: positions and motions carry an empty mask.                      *)
MovesToMaskless(p, moved) ==
  /\ guest' = IF moved THEN [guest EXCEPT !.at = p, !.mask = {}] ELSE guest
  /\ synced' = (synced \/ mouse_mode = "client")
  /\ UNCHANGED button_state

(* position or motion is called with the mask of what is down.             *)
MovesTo(p, moved) ==
  /\ guest' = IF moved THEN [guest EXCEPT !.at = p, !.mask = button_state] ELSE guest
  /\ synced' = (synced \/ mouse_mode = "client")
  /\ UNCHANGED button_state

(* Mutant: the last position is only kept for relative motion.             *)
DeliverMotionOfMode ==
  /\ Delivers("motion")
  /\ LET p == Head(actions).at
     IN IF mouse_mode = "client" THEN MovesTo(p, TRUE) /\ UNCHANGED last_pos
        ELSE /\ last_pos' = p
             /\ IF last_pos = None THEN MovesTo(p, FALSE)
                ELSE MovesTo(guest.at + p - last_pos, p # last_pos)

(* Client mode: the position.  Server mode: the displacement from the last *)
(* one, if there was one and it is not nil.                                *)
DeliverMotion ==
  /\ Delivers("motion")
  /\ LET p == Head(actions).at
     IN /\ last_pos' = p
        /\ IF mouse_mode = "client" THEN MovesTo(p, TRUE)
           ELSE IF last_pos = None THEN MovesTo(p, FALSE)
           ELSE MovesTo(guest.at + p - last_pos, p # last_pos)

DeliverButton ==
  /\ Delivers("button")
  /\ LET e == Head(actions)
         Changed(held) == IF e.pressed THEN held \union {e.button} ELSE held \ {e.button}
     IN /\ button_state' = Changed(button_state)
        /\ guest' = [guest EXCEPT !.mask = Changed(button_state), !.down = Changed(@)]
  /\ UNCHANGED <<last_pos, synced>>

(* Mutant: the mask of the press is left behind.                           *)
DeliverScrollHeld ==
  /\ Delivers("scroll")
  /\ button_state' = button_state \union {Head(actions).button}
  /\ guest' = [guest EXCEPT !.mask = button_state']
  /\ UNCHANGED <<last_pos, synced>>

(* A press and a release of the wheel's button, the mask set and reset.    *)
DeliverScroll ==
  /\ Delivers("scroll")
  /\ button_state' = (button_state \union {Head(actions).button}) \ {Head(actions).button}
  /\ guest' = [guest EXCEPT !.mask = button_state']
  /\ UNCHANGED <<last_pos, synced>>

DeliverKey ==
  /\ Delivers("key")
  /\ UNCHANGED <<last_pos, button_state, guest, synced>>

(* All has been put into effect; without a channel there was no effect.    *)
TickEnds ==
  /\ pump = "delivering"
  /\ actions = <<>> \/ ~inputs_channel
  /\ actions' = <<>>
  /\ pump' = "idle"
  /\ UNCHANGED <<ui, queue, pending_motion, session, effect>>

----------------------------------------------------------------------------

UiStep ==
  \/ \E p \in Place \union {Outside} : PointerMoves(p)
  \/ \E b \in Button : PressButton(b) \/ ReleaseButton(b)
  \/ \E d \in Turn : TurnWheel(d)
  \/ CapsLockChanges
  \/ SendCtrlAltDel
  \/ Stop
  \/ SendInput

GlibStep ==
  \/ ChannelNew \/ MouseModeNotify
  \/ Tick
  \/ DrainMotion \/ DrainOther \/ DrainShutdown \/ DrainEmpty
  \/ DeliverMotion \/ DeliverButton \/ DeliverScroll \/ DeliverKey
  \/ TickEnds

Next == UiStep \/ GlibStep

Spec == Init /\ [][Next]_vars

----------------------------------------------------------------------------
(* What must hold.                                                         *)

(* The pump implements InputLink: what is on its way is what has been      *)
(* drained, the pending motion, and the channel, in this order.            *)
Link == INSTANCE InputLink WITH
  link <- actions \o MotionTo(pending_motion) \o queue,
  listening <- inputs_channel,
  closed <- pump = "gone"

(* Draining and collapsing keep the order of presses, releases and keys,   *)
(* lose none of them, and lose no motion but one that another motion       *)
(* follows directly: "a click must land at the position that preceded it"  *)
(* (spice_session.rs:634), and a drag is not cut short.                    *)
PumpIsLink == Link!Spec

(* Once the guest has been given one absolute position, the guest's pointer *)
(* is where ours was when a press was made whenever that press is about to *)
(* take effect, however many motions were collapsed, and whatever the mode *)
(* of the mouse has been since.                                            *)
ClickLandsWherePointed ==
  pump = "delivering" /\ inputs_channel /\ synced /\ actions # <<>>
    => \A p \in Place, b \in Button :
         Head(actions) = ButtonEvent(b, TRUE, p) => guest.at = p

(* The mask the guest saw last is that of the buttons it has been told are *)
(* down: neither motion nor the wheel makes a drag look released.          *)
MaskIsButtonsDown == guest.mask = guest.down

=============================================================================
