---------------------------- MODULE FramePacing ----------------------------
(***************************************************************************)
(* How the images of a console get from spice-gtk's surface to the screen  *)
(* (src/src/spice_session.rs, FrameBudget and the frame timer; the frame   *)
(* pump, set_active and render of src/src/main.rs).                        *)
(*                                                                         *)
(* Two threads share two flags per console.  The GLib thread, the          *)
(* producer, ticks a timer for every console and builds an image when the  *)
(* console is visible and no image is in flight.  The UI thread takes the  *)
(* images out of a channel, repaints, and gives the flag back.  A flag     *)
(* given back too early costs a superfluous image; one that is not given   *)
(* back at all is a console that stays black.                              *)
(*                                                                         *)
(* Every load and store of a flag is a step of its own.  A surface is      *)
(* known by the number of changes made to it, an image by the number of    *)
(* the surface it was converted from.                                      *)
(***************************************************************************)
EXTENDS Integers, SequencesExt

CONSTANTS
  Console,   \* the open consoles, each a tab
  MaxDamage  \* bound: changes to the surface of each console

ASSUME ConsoleAssumption == Console # {}
ASSUME DamageAssumption == MaxDamage \in [Console -> Nat]

VARIABLES
  (* shared *)
  visible,   \* FrameBudget.visible
  in_flight, \* FrameBudget.in_flight
  channel,   \* the images sent to the UI thread and not yet taken
  (* GLib thread *)
  surface,   \* the number of changes made to the primary surface
  usable,    \* would primary_to_image return an image?
  dirty,     \* damage has been flagged and not been converted
  producer,  \* what the thread is in the middle of: at, console, image
  (* UI thread *)
  active,    \* the console that is shown
  stores,    \* the stores set_active has still to make
  frame,     \* ConsoleTab.frame: the image the tab has, 0 for none
  painted,   \* the image last painted
  repaint    \* a repaint has been asked for (cx.notify)

shared == <<visible, in_flight, channel>>
glib == <<surface, usable, dirty, producer>>
ui == <<active, stores, frame, painted, repaint>>
vars == <<visible, in_flight, channel, surface, usable, dirty, producer,
          active, stores, frame, painted, repaint>>

Image == Nat \ {0}

(* "loaded": `visible' has been read as true; "built": an image has been   *)
(* converted; "taken": took_frame has set the flag, the image is not sent. *)
Producer ==
  [at: {"idle"}, console: Console, image: {0}]
    \union [at: {"loaded"}, console: Console, image: {0}]
    \union [at: {"built", "taken"}, console: Console, image: Image]

TypeOK ==
  /\ visible \in [Console -> BOOLEAN]
  /\ in_flight \in [Console -> BOOLEAN]
  /\ channel \in [Console -> Seq(Image)]
  /\ surface \in [Console -> Nat]
  /\ usable \in [Console -> BOOLEAN]
  /\ dirty \in [Console -> BOOLEAN]
  /\ producer \in Producer
  /\ active \in Console
  /\ stores \in SUBSET ({"debt", "visible"} \X Console)
  /\ frame \in [Console -> Nat]
  /\ painted \in [Console -> Nat]
  /\ repaint \in BOOLEAN

(* Every console starts visible; the one opened last is shown and the      *)
(* others are about to be told that they are not.                          *)
Init ==
  /\ visible = [c \in Console |-> TRUE]
  /\ in_flight = [c \in Console |-> FALSE]
  /\ channel = [c \in Console |-> <<>>]
  /\ surface = [c \in Console |-> 0]
  /\ usable = [c \in Console |-> FALSE]
  /\ dirty = [c \in Console |-> FALSE]
  /\ active \in Console
  /\ producer = [at |-> "idle", console |-> active, image |-> 0]
  /\ stores = {<<"debt", active>>} \union ({"visible"} \X Console)
  /\ frame = [c \in Console |-> 0]
  /\ painted = [c \in Console |-> 0]
  /\ repaint = TRUE

----------------------------------------------------------------------------
(* The GLib thread between two callbacks.                                  *)

(* display-invalidate, display-mark and display-primary-create.            *)
Damage(c) ==
  /\ producer.at = "idle"
  /\ surface[c] < MaxDamage[c]
  /\ surface' = [surface EXCEPT ![c] = @ + 1]
  /\ dirty' = [dirty EXCEPT ![c] = TRUE]
  /\ UNCHANGED <<shared, usable, producer, ui>>

(* The surface is set up, or changes its format: no signal is connected    *)
(* that says when primary_to_image begins or ceases to return an image.    *)
SurfaceChanges(c) ==
  /\ producer.at = "idle"
  /\ usable' = [usable EXCEPT ![c] = ~@]
  /\ UNCHANGED <<shared, surface, dirty, producer, ui>>

----------------------------------------------------------------------------
(* The frame timer of a console: may_produce, conversion, hand-over.       *)

(* may_produce reads `visible'; a tick that finds it false changes nothing.*)
TickVisible(c) ==
  /\ producer.at = "idle"
  /\ visible[c]
  /\ producer' = [at |-> "loaded", console |-> c, image |-> 0]
  /\ UNCHANGED <<shared, surface, usable, dirty, ui>>

(* may_produce reads `in_flight' as true, or there is nothing to convert.  *)
TickSkips ==
  /\ producer.at = "loaded"
  /\ in_flight[producer.console] \/ ~dirty[producer.console]
  /\ producer' = [producer EXCEPT !.at = "idle"]
  /\ UNCHANGED <<shared, surface, usable, dirty, ui>>

(* Mutant: the damage of an attempt that produced nothing is dropped.      *)
ConversionFailsForGood ==
  LET c == producer.console
  IN /\ producer.at = "loaded"
     /\ ~in_flight[c] /\ dirty[c] /\ ~usable[c]
     /\ dirty' = [dirty EXCEPT ![c] = FALSE]
     /\ producer' = [producer EXCEPT !.at = "idle"]
     /\ UNCHANGED <<shared, surface, usable, ui>>

(* `dirty' is taken, primary_to_image returns None, `dirty' is put back.   *)
ConversionFails ==
  LET c == producer.console
  IN /\ producer.at = "loaded"
     /\ ~in_flight[c] /\ dirty[c] /\ ~usable[c]
     /\ producer' = [producer EXCEPT !.at = "idle"]
     /\ UNCHANGED <<shared, surface, usable, dirty, ui>>

(* `dirty' is taken and the surface is converted.                          *)
Convert ==
  LET c == producer.console
  IN /\ producer.at = "loaded"
     /\ ~in_flight[c] /\ dirty[c] /\ usable[c]
     /\ dirty' = [dirty EXCEPT ![c] = FALSE]
     /\ producer' = [producer EXCEPT !.at = "built", !.image = surface[c]]
     /\ UNCHANGED <<shared, surface, usable, ui>>

(* took_frame: before the image is sent, so that the UI cannot give the    *)
(* flag back before it has been set.                                       *)
TookFrame ==
  /\ producer.at = "built"
  /\ in_flight' = [in_flight EXCEPT ![producer.console] = TRUE]
  /\ producer' = [producer EXCEPT !.at = "taken"]
  /\ UNCHANGED <<visible, channel, surface, usable, dirty, ui>>

(* unbounded_send.                                                         *)
Send ==
  /\ producer.at = "taken"
  /\ channel' = [channel EXCEPT ![producer.console] = Append(@, producer.image)]
  /\ producer' = [producer EXCEPT !.at = "idle", !.image = 0]
  /\ UNCHANGED <<visible, in_flight, surface, usable, dirty, ui>>

----------------------------------------------------------------------------
(* The UI thread.  Nothing else runs on it while set_active is at work.    *)

(* set_active(c): every tab is told whether it is shown.  set_visible(true)*)
(* is two relaxed stores, which the producer may see in either order.      *)
SetActive(c) ==
  /\ stores = {}
  /\ active' = c
  /\ stores' = {<<"debt", c>>} \union ({"visible"} \X Console)
  /\ repaint' = TRUE
  /\ UNCHANGED <<shared, glib, frame, painted>>

(* painted(), on behalf of set_visible(true).                              *)
StoreDebt(c) ==
  /\ <<"debt", c>> \in stores
  /\ stores' = stores \ {<<"debt", c>>}
  /\ in_flight' = [in_flight EXCEPT ![c] = FALSE]
  /\ UNCHANGED <<visible, channel, glib, active, frame, painted, repaint>>

(* Mutant: a console that was hidden once is never shown again.            *)
StoreVisibleOnlyHides(c) ==
  /\ <<"visible", c>> \in stores
  /\ stores' = stores \ {<<"visible", c>>}
  /\ visible' = [visible EXCEPT ![c] = @ /\ c = active]
  /\ UNCHANGED <<in_flight, channel, glib, active, frame, painted, repaint>>

(* The store to `visible'.                                                 *)
StoreVisible(c) ==
  /\ <<"visible", c>> \in stores
  /\ stores' = stores \ {<<"visible", c>>}
  /\ visible' = [visible EXCEPT ![c] = (c = active)]
  /\ UNCHANGED <<in_flight, channel, glib, active, frame, painted, repaint>>

(* Mutant: the image is stored and no repaint is asked for.                *)
PumpForgetsNotify(c) ==
  /\ stores = {}
  /\ channel[c] # <<>>
  /\ frame' = [frame EXCEPT ![c] = Last(channel[c])]
  /\ channel' = [channel EXCEPT ![c] = <<>>]
  /\ UNCHANGED <<visible, in_flight, glib, active, stores, painted, repaint>>

(* Mutant: the newest image is taken and the older ones stay queued.       *)
PumpLeavesTheRest(c) ==
  /\ stores = {}
  /\ channel[c] # <<>>
  /\ frame' = [frame EXCEPT ![c] = Last(channel[c])]
  /\ channel' = [channel EXCEPT ![c] = Front(@)]
  /\ repaint' = TRUE
  /\ UNCHANGED <<visible, in_flight, glib, active, stores, painted>>

(* The frame pump: the newest of the queued images becomes the tab's, and  *)
(* a repaint is asked for, whether or not the tab is on screen.            *)
Pump(c) ==
  /\ stores = {}
  /\ channel[c] # <<>>
  /\ frame' = [frame EXCEPT ![c] = Last(channel[c])]
  /\ channel' = [channel EXCEPT ![c] = <<>>]
  /\ repaint' = TRUE
  /\ UNCHANGED <<visible, in_flight, glib, active, stores, painted>>

(* Anything else in the window that asks for a repaint.                    *)
OtherNotify ==
  /\ stores = {}
  /\ ~repaint
  /\ repaint' = TRUE
  /\ UNCHANGED <<shared, glib, active, stores, frame, painted>>

(* render: frame_painted on the shown tab, then its image is painted.      *)
Render ==
  /\ stores = {}
  /\ repaint
  /\ in_flight' = [in_flight EXCEPT ![active] = FALSE]
  /\ painted' = [painted EXCEPT ![active] = frame[active]]
  /\ repaint' = FALSE
  /\ UNCHANGED <<visible, channel, glib, active, stores, frame>>

----------------------------------------------------------------------------

TimerStep == TickSkips \/ ConversionFails \/ Convert \/ TookFrame \/ Send

GlibStep ==
  \/ \E c \in Console : Damage(c) \/ SurfaceChanges(c) \/ TickVisible(c)
  \/ TimerStep

StoreStep == \E c \in Console : StoreDebt(c) \/ StoreVisible(c)

UiStep ==
  \/ \E c \in Console : SetActive(c) \/ Pump(c)
  \/ StoreStep
  \/ OtherNotify
  \/ Render

Next == GlibStep \/ UiStep

Spec == Init /\ [][Next]_vars

(* A callback that has begun runs to its end (WF of TimerStep, StoreStep). *)
(* Each loop serves everything that is ready in turn: GLib the timers of   *)
(* all consoles, the UI executor the pumps, the repaints and the input     *)
(* events, so none of them is starved by the others (SF: the user, the     *)
(* guest and the other timers can keep disabling each of them for a while).*)
Fairness ==
  /\ WF_vars(TimerStep)
  /\ WF_vars(StoreStep)
  /\ SF_vars(Render)
  /\ \A c \in Console : SF_vars(TickVisible(c)) /\ SF_vars(Pump(c))

FairSpec == Spec /\ Fairness

----------------------------------------------------------------------------
(* What must hold.                                                         *)

(* The flag of the shown console is never left set with nobody on the way  *)
(* to clear it: an image in flight is about to be sent, or queued, or has  *)
(* asked for the repaint that clears it (the lost wakeup told of in        *)
(* connect_console's frame pump, the "permanently black console").         *)
NoLostWakeup ==
  in_flight[active] /\ <<"debt", active>> \notin stores
    => \/ producer.at = "taken" /\ producer.console = active
       \/ channel[active] # <<>>
       \/ repaint

(* The newest image of `c' there is outside of the surface.                *)
Newest(c) ==
  IF producer.console = c /\ producer.at \in {"built", "taken"} THEN producer.image
  ELSE IF channel[c] # <<>> THEN Last(channel[c]) ELSE frame[c]

(* No change of the surface is lost between `dirty' and the tab: unless    *)
(* damage is flagged, the newest image on its way, or else in the tab,     *)
(* shows the surface as it is (why the timer puts `dirty' back).           *)
NoLostDamage ==
  \A c \in Console : dirty[c] \/ Newest(c) = surface[c]

(* Once a console stays shown, and its surface usable, what is painted     *)
(* catches up with the surface: no black and no stale console.             *)
PaintsLatest ==
  \A c \in Console :
    <>[](active = c /\ usable[c]) => <>[](painted[c] = surface[c])

(* The two threads implement ConsoleScreen: however images queue up while  *)
(* tabs are switched, a console never shows an older picture than it has   *)
(* shown before (why the frame pump takes the newest of what is queued,    *)
(* and the rest with it), nor one of another console.                      *)
Screen == INSTANCE ConsoleScreen WITH shown <- active

ScreenNeverGoesBack == Screen!Spec

(* Said of render (main.rs:1330) and of painted (spice_session.rs:146): the *)
(* flag is given back because the image it stands for has been painted, so *)
(* no image of that console is still in the channel when it is.  (What     *)
(* set_visible cancels is another matter, and left out here.)              *)
FlagReturnedForPaint ==
  [][\A c \in Console :
       in_flight[c] /\ ~in_flight'[c] /\ <<"debt", c>> \notin stores
         => channel[c] = <<>>]_vars

=============================================================================
