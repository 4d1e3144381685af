-------------------------- MODULE InputForwarding --------------------------
(***************************************************************************)
(* What the guests are told of the keyboard and the mouse (send_key,       *)
(* sync_modifiers, send_mouse_button, handle_shortcut and the overlays of  *)
(* src/src/main.rs; the listeners of src/src/ui/console.rs).               *)
(*                                                                         *)
(* A guest only knows what it has been sent: a key whose press was         *)
(* forwarded is down until its release is forwarded too.  But the press    *)
(* and the release of one key are two events, each of which goes to        *)
(* whatever has the focus, and from there to whatever tab is shown, at     *)
(* its own time.  The user moves the focus and switches tabs with those    *)
(* very keys, and a console that connects, or is lost, does so unasked.    *)
(***************************************************************************)
EXTENDS FiniteSets, Naturals

CONSTANTS
  Console,      \* the consoles that can have a tab
  None,         \* the absence of a console, or of an input
  Key,          \* ordinary keys of the host, also standing for their scancodes
  Escape,       \* the key that closes overlays (in a dialog, Enter as well)
  MainRow,      \* a key of the main row that types Plus with Shift, or None
  Keypad,       \* the key of the keypad that types Plus, or None
  Plus,         \* the name gpui gives a key that types a plus sign
  Shortcuts,    \* keys that, with Cmd, are shortcuts
  Modifier,     \* the modifiers in use, some of the ones below
  HoldsRepeat   \* does a key that is held down repeat?

ASSUME ConsoleAssumption == None \notin Console
ASSUME KeyAssumption ==
  /\ Escape \in Key /\ Shortcuts \subseteq Key
  /\ Key \intersect {Plus, None, "control", "shift", "button"} = {}
  /\ \/ {MainRow, Keypad} \subseteq Key /\ MainRow # Keypad
     \/ MainRow = None /\ Keypad = None
ASSUME ModifierAssumption == Modifier \subseteq {"control", "shift", "cmd"}
ASSUME RepeatAssumption == HoldsRepeat \in BOOLEAN

VARIABLES
  (* the host *)
  keys,           \* the keys that are down
  modifiers,      \* the modifiers that are down
  button,         \* is the mouse button down?
  window_active,  \* does the window get the keyboard?
  (* inm *)
  focus,          \* what has the focus in the window
  overlay,        \* IncusManager.overlay
  open,           \* the consoles that have a tab
  active,         \* the console of the shown tab
  held_modifiers, \* IncusManager.held_modifiers
  consumed_keys,  \* IncusManager.consumed_keys
  (* the guests *)
  guest,          \* what each guest has been told is down
  sent,           \* history: the key release sent in the last step, if any
  torn            \* history: what has had a press separated from its release

host == <<keys, modifiers, button, window_active>>
tabs == <<open, active>>
vars == <<keys, modifiers, button, window_active, focus, overlay, open, active,
          held_modifiers, consumed_keys, guest, sent, torn>>

Name == Key \union {Plus}
Forwarded == {"control", "shift"}
Code == Key \union Forwarded \union {"button"}

(* "menu" stands for the overlays that leave the focus alone and keep      *)
(* clicks from what is beneath: the context menu and the details.          *)
TypeOK ==
  /\ keys \in SUBSET Key
  /\ modifiers \in SUBSET Modifier
  /\ button \in BOOLEAN
  /\ window_active \in BOOLEAN
  /\ focus \in {"console", "filter", "rename", "palette"}
  /\ overlay \in {"none", "menu", "switcher", "rename", "palette"}
  /\ open \in SUBSET Console
  /\ active \in open \union {None}
  /\ held_modifiers \in SUBSET Modifier
  /\ consumed_keys \in SUBSET Name
  /\ guest \in [Console -> SUBSET Code]
  /\ sent \in {None} \union (Console \X Key)
  /\ torn \in SUBSET (Name \union Code)

Init ==
  /\ keys = {}
  /\ modifiers = {}
  /\ button = FALSE
  /\ window_active = TRUE
  /\ focus = "console"
  /\ overlay = "none"
  /\ open = {}
  /\ active = None
  /\ held_modifiers = {}
  /\ consumed_keys = {}
  /\ guest = [c \in Console |-> {}]
  /\ sent = None
  /\ torn = {}

----------------------------------------------------------------------------
(* Helpers.                                                                *)

(* gpui reports what a key types, on its release as on its press.          *)
NameOf(k) ==
  IF k = Keypad \/ (k = MainRow /\ "shift" \in modifiers) THEN Plus ELSE k

(* scancode_for_host: the name of two keys, told apart by Shift.           *)
ScancodeForHost(name) ==
  IF name # Plus THEN name
  ELSE IF "shift" \in held_modifiers THEN MainRow ELSE Keypad

(* What the active guest holds: nothing when no tab is shown.              *)
HeldByActive == IF active = None THEN {} ELSE guest[active]

(* send_input on the active tab: `pressed' go down, `released' go up.      *)
AfterSending(pressed, released) ==
  IF active = None THEN guest
  ELSE [guest EXCEPT ![active] = (@ \union pressed) \ released]

SendToActive(pressed, released) == guest' = AfterSending(pressed, released)

(* Two keys answer to one name: what becomes of one touches the other.     *)
Homonyms == (Key \intersect {MainRow, Keypad}) \union {Plus}

Tear(what) ==
  torn' = torn \union what
               \union (IF what \intersect Homonyms = {} THEN {} ELSE Homonyms)

(* The keys whose press the console has seen and whose release is to come. *)
Outstanding == (HeldByActive \intersect Key) \union consumed_keys

(* What stays behind in the shown guest when `c' is shown instead.         *)
LeftBehind(c) == IF c = active THEN {} ELSE HeldByActive

(* The scancodes of the keys that are down, by the names they have now.    *)
CodesDown == {ScancodeForHost(NameOf(k)) : k \in keys}

(* Mutant: the console that is closed stays the active one.                *)
CloseTabKeepsActive(c, held) ==
  /\ open' = open \ {c}
  /\ guest' = [held EXCEPT ![c] = {}]
  /\ UNCHANGED active

(* close_tab, given what the guests hold by then: the connection goes, and *)
(* with it what it held down in its guest; when it was the shown one, some *)
(* other tab is shown.                                                     *)
CloseTab(c, held) ==
  /\ open' = open \ {c}
  /\ guest' = [held EXCEPT ![c] = {}]
  /\ active' \in IF active # c THEN {active}
                 ELSE IF open = {c} THEN {None} ELSE open \ {c}

----------------------------------------------------------------------------
(* A key goes down, or repeats: the listener of whatever has the focus.    *)

KeyDown(k) ==
  /\ window_active
  /\ k \notin keys \/ HoldsRepeat
  /\ keys' = keys \union {k}
  /\ sent' = None
  /\ UNCHANGED <<modifiers, button, window_active, held_modifiers>>

(* The console, Escape, an overlay is up: dismiss_overlay.                 *)
EscapeClosesOverlay ==
  /\ KeyDown(Escape)
  /\ focus = "console"
  /\ overlay # "none"
  /\ overlay' = "none"
  /\ UNCHANGED <<focus, tabs, consumed_keys, guest, torn>>

EscapeIsTaken(k) == k = Escape /\ overlay # "none"

(* A repeat of `k' that takes the other branch than its press did.         *)
RepeatsOtherwise(k) ==
  IF k \in keys /\ (("cmd" \in modifiers) # (NameOf(k) \in consumed_keys))
  THEN {NameOf(k)} ELSE {}

(* The console, with Cmd: the key is the app's.  What it does as a         *)
(* shortcut comes below; most do nothing that matters here.                *)
Consume(k) ==
  /\ KeyDown(k)
  /\ focus = "console"
  /\ ~EscapeIsTaken(k)
  /\ "cmd" \in modifiers
  /\ consumed_keys' = consumed_keys \union {NameOf(k)}

NoShortcut(k) ==
  /\ Consume(k)
  /\ Tear(RepeatsOtherwise(k))
  /\ UNCHANGED <<focus, overlay, tabs, guest>>

(* Cmd-W.                                                                  *)
ShortcutCloses(k) ==
  /\ k \in Shortcuts
  /\ active # None
  /\ Consume(k)
  /\ CloseTab(active, guest)
  /\ Tear(RepeatsOtherwise(k))
  /\ UNCHANGED <<focus, overlay>>

(* Cmd and a digit: set_active.                                            *)
ShortcutSwitches(k, c) ==
  /\ k \in Shortcuts
  /\ c \in open
  /\ Consume(k)
  /\ active' = c
  /\ Tear(RepeatsOtherwise(k) \union LeftBehind(c))
  /\ UNCHANGED <<focus, overlay, open, guest>>

(* Cmd-F focuses the filter; Cmd-P opens the palette over anything.        *)
ShortcutFilters(k) ==
  /\ k \in Shortcuts
  /\ Consume(k)
  /\ focus' = "filter"
  /\ Tear(RepeatsOtherwise(k) \union Outstanding \union {NameOf(k)})
  /\ UNCHANGED <<overlay, tabs, guest>>

ShortcutOpensPalette(k) ==
  /\ k \in Shortcuts
  /\ Consume(k)
  /\ overlay' = "palette"
  /\ focus' = "palette"
  /\ Tear(RepeatsOtherwise(k) \union Outstanding \union {NameOf(k)})
  /\ UNCHANGED <<tabs, guest>>

(* The console, without Cmd: send_key.                                     *)
ForwardPress(k) ==
  /\ KeyDown(k)
  /\ focus = "console"
  /\ ~EscapeIsTaken(k)
  /\ "cmd" \notin modifiers
  /\ SendToActive({ScancodeForHost(NameOf(k))}, {})
  /\ Tear(RepeatsOtherwise(k))
  /\ UNCHANGED <<focus, overlay, tabs, consumed_keys>>

(* The filter, the rename dialog or the palette: what is typed, and Enter  *)
(* in the palette when nothing matches.                                    *)
TypeIntoInm(k) ==
  /\ KeyDown(k)
  /\ focus # "console"
  /\ ~(k = Escape /\ focus = "rename")
  /\ UNCHANGED <<focus, overlay, tabs, consumed_keys, guest, torn>>

(* handle_palette_key has other uses for Control and Cmd, and is not there *)
(* when a menu has taken the place of the palette.                         *)
PaletteListens ==
  /\ focus = "palette" /\ overlay = "palette"
  /\ modifiers \intersect {"control", "cmd"} = {}

(* Escape or Enter in the rename dialog, Escape in the palette, or Enter   *)
(* on a VM that does not run.                                              *)
KeyClosesDialog ==
  /\ KeyDown(Escape)
  /\ focus = "rename" \/ PaletteListens
  /\ overlay' = "none"
  /\ focus' = "console"
  /\ UNCHANGED <<tabs, consumed_keys, guest, torn>>

(* Enter in the palette on a VM that is open: open_or_focus.               *)
PaletteSwitches(c) ==
  /\ KeyDown(Escape)
  /\ PaletteListens
  /\ c \in open
  /\ overlay' = "none"
  /\ focus' = "console"
  /\ active' = c
  /\ Tear(LeftBehind(c))
  /\ UNCHANGED <<open, consumed_keys, guest>>

----------------------------------------------------------------------------
(* A key goes up: only the console listens.                                *)

KeyUp(k) ==
  /\ k \in keys
  /\ keys' = keys \ {k}
  /\ UNCHANGED <<modifiers, button, window_active, focus, overlay, tabs,
                 held_modifiers>>

(* Nobody hears it.                                                        *)
ReleaseElsewhere(k) ==
  /\ KeyUp(k)
  /\ ~window_active \/ focus # "console"
  /\ sent' = None
  /\ UNCHANGED <<consumed_keys, guest, torn>>

(* The release of a key whose press was consumed.                          *)
SwallowRelease(k) ==
  /\ KeyUp(k)
  /\ window_active /\ focus = "console"
  /\ NameOf(k) \in consumed_keys
  /\ consumed_keys' = consumed_keys \ {NameOf(k)}
  /\ sent' = None
  /\ UNCHANGED <<guest, torn>>

(* Mutant: the key is looked up, not the name under which it was consumed. *)
ForwardReleaseByKey(k) ==
  LET code == ScancodeForHost(NameOf(k))
  IN /\ KeyUp(k)
     /\ window_active /\ focus = "console"
     /\ k \notin consumed_keys
     /\ SendToActive({}, {code})
     /\ sent' = IF active = None THEN None ELSE <<active, code>>
     /\ UNCHANGED <<consumed_keys, torn>>

(* Any other: send_key.                                                    *)
ForwardRelease(k) ==
  LET code == ScancodeForHost(NameOf(k))
  IN /\ KeyUp(k)
     /\ window_active /\ focus = "console"
     /\ NameOf(k) \notin consumed_keys
     /\ SendToActive({}, {code})
     /\ sent' = IF active = None THEN None ELSE <<active, code>>
     /\ UNCHANGED <<consumed_keys, torn>>

----------------------------------------------------------------------------
(* Modifiers and the mouse.                                                *)

(* sync_modifiers: each transition since the last call is forwarded.       *)
SyncModifiers(now) ==
  /\ held_modifiers' = now
  /\ SendToActive((now \ held_modifiers) \intersect Forwarded,
                  (held_modifiers \ now) \intersect Forwarded)

(* A key of the two that share a name, down while Shift changes, is        *)
(* released as the other one.                                              *)
RenamedBy(m) ==
  IF m = "shift" /\ keys \intersect {MainRow, Keypad} # {} THEN Homonyms ELSE {}

(* A modifier goes down or up.  The window is told whatever has its focus, *)
(* if it has the keyboard.                                                 *)
ModifierChanges(m) ==
  LET now == IF m \in modifiers THEN modifiers \ {m} ELSE modifiers \union {m}
  IN /\ modifiers' = now
     /\ IF window_active THEN SyncModifiers(now)
                         ELSE UNCHANGED <<held_modifiers, guest>>
     /\ Tear(RenamedBy(m))
     /\ sent' = None
     /\ UNCHANGED <<keys, button, window_active, focus, overlay, tabs,
                    consumed_keys>>

(* The palette and the remote switcher let clicks through to what is       *)
(* beneath, and close if it was the left button.                           *)
LetsThrough == overlay \in {"none", "switcher", "palette"}
FocusAfterPress == IF overlay = "palette" THEN "console" ELSE focus

(* A press on the console, with the left button or another one.            *)
PressButton ==
  /\ window_active
  /\ ~button
  /\ LetsThrough
  /\ button' = TRUE
  /\ overlay' \in {"none", overlay}
  /\ focus' = "console"
  /\ SendToActive({"button"}, {})
  /\ sent' = None
  /\ UNCHANGED <<keys, modifiers, window_active, tabs, held_modifiers,
                 consumed_keys, torn>>

(* on_mouse_up and on_mouse_up_out: a release is heard wherever it is.     *)
ReleaseButton ==
  /\ button
  /\ button' = FALSE
  /\ SendToActive({}, {"button"})
  /\ sent' = None
  /\ UNCHANGED <<keys, modifiers, window_active, focus, overlay, tabs,
                 held_modifiers, consumed_keys, torn>>

(* A click elsewhere in the window, the button being free for it.  The     *)
(* console hears its release, before what was clicked on does.             *)
Click ==
  /\ window_active
  /\ ~button
  /\ sent' = None
  /\ UNCHANGED <<host, held_modifiers, consumed_keys>>

(* ... on a tab, or on a VM that is open, in the sidebar or in an overlay: *)
(* focus_tab, open_or_focus.                                               *)
ClickTab(c) ==
  /\ Click
  /\ overlay # "rename"
  /\ c \in open
  /\ SendToActive({}, {"button"})
  /\ overlay' = "none"
  /\ active' = c
  /\ focus' = "console"
  /\ Tear(LeftBehind(c))
  /\ UNCHANGED open

(* ... on the close button of a tab.                                       *)
ClickCloses(c) ==
  /\ Click
  /\ LetsThrough
  /\ c \in open
  /\ CloseTab(c, AfterSending({}, {"button"}))
  /\ overlay' = "none"
  /\ focus' = FocusAfterPress
  /\ UNCHANGED torn

(* ... on the filter.                                                      *)
ClickFilter ==
  /\ Click
  /\ LetsThrough
  /\ SendToActive({}, {"button"})
  /\ overlay' = "none"
  /\ focus' = "filter"
  /\ Tear(Outstanding)
  /\ UNCHANGED tabs

(* ... on a row, with the right button: it closes nothing, and the menu    *)
(* takes the place of whatever was up, the palette and its keyboard too.   *)
ClickOpensMenu ==
  /\ Click
  /\ LetsThrough
  /\ SendToActive({}, {"button"})
  /\ overlay' = "menu"
  /\ UNCHANGED <<focus, tabs, torn>>

(* ... on the current remote.  The press has closed the switcher by the    *)
(* time the click toggles it.                                              *)
ClickTogglesSwitcher ==
  /\ Click
  /\ LetsThrough
  /\ SendToActive({}, {"button"})
  /\ overlay' = "switcher"
  /\ focus' = FocusAfterPress
  /\ UNCHANGED <<tabs, torn>>

(* ... on "rename" in a menu: begin_rename.                                *)
ClickRename ==
  /\ Click
  /\ overlay = "menu"
  /\ SendToActive({}, {"button"})
  /\ overlay' = "rename"
  /\ focus' = "rename"
  /\ Tear(Outstanding)
  /\ UNCHANGED tabs

(* ... outside of an overlay, which closes it.                             *)
ClickAway ==
  /\ Click
  /\ overlay # "none"
  /\ SendToActive({}, {"button"})
  /\ overlay' = "none"
  /\ focus' = IF overlay \in {"menu", "switcher"} THEN focus ELSE "console"
  /\ UNCHANGED <<tabs, torn>>

(* ... on Ctrl-Alt-Del: all are pressed, and released.                     *)
SendCtrlAltDel ==
  /\ Click
  /\ LetsThrough
  /\ SendToActive({}, {"button", "control"})
  /\ overlay' = "none"
  /\ focus' = FocusAfterPress
  /\ UNCHANGED <<tabs, torn>>

----------------------------------------------------------------------------
(* What happens unasked.                                                   *)

(* connect_console has a session: its tab is shown, the console focused.   *)
Connected(c) ==
  /\ c \notin open
  /\ open' = open \union {c}
  /\ active' = c
  /\ focus' = "console"
  /\ sent' = None
  /\ Tear(HeldByActive \union CodesDown)
  /\ UNCHANGED <<host, overlay, held_modifiers, consumed_keys, guest>>

(* The end of the frame pump: close_tab.                                   *)
ConnectionLost(c) ==
  /\ c \in open
  /\ CloseTab(c, guest)
  /\ sent' = None
  /\ UNCHANGED <<host, focus, overlay, held_modifiers, consumed_keys, torn>>

(* The user turns to another window, and comes back.                       *)
WindowDeactivates ==
  /\ window_active
  /\ ~button
  /\ window_active' = FALSE
  /\ sent' = None
  /\ Tear(HeldByActive \union consumed_keys)
  /\ UNCHANGED <<keys, modifiers, button, focus, overlay, tabs, held_modifiers,
                 consumed_keys, guest>>

WindowActivates ==
  /\ ~window_active
  /\ window_active' = TRUE
  /\ sent' = None
  /\ Tear(IF modifiers = held_modifiers THEN {} ELSE Homonyms)
  /\ UNCHANGED <<keys, modifiers, button, focus, overlay, tabs, held_modifiers,
                 consumed_keys, guest>>

----------------------------------------------------------------------------

PressStep(k) ==
  \/ NoShortcut(k)
  \/ ShortcutCloses(k) \/ ShortcutFilters(k) \/ ShortcutOpensPalette(k)
  \/ \E c \in Console : ShortcutSwitches(k, c)
  \/ ForwardPress(k)
  \/ TypeIntoInm(k)

DialogStep ==
  \/ EscapeClosesOverlay
  \/ KeyClosesDialog
  \/ \E c \in Console : PaletteSwitches(c)

ReleaseStep(k) == ReleaseElsewhere(k) \/ SwallowRelease(k) \/ ForwardRelease(k)

MouseStep ==
  \/ PressButton \/ ReleaseButton
  \/ \E c \in Console : ClickTab(c) \/ ClickCloses(c)
  \/ ClickFilter \/ ClickOpensMenu \/ ClickTogglesSwitcher \/ ClickRename
  \/ ClickAway \/ SendCtrlAltDel

SystemStep ==
  \/ \E c \in Console : Connected(c) \/ ConnectionLost(c)
  \/ WindowDeactivates \/ WindowActivates

Next ==
  \/ \E k \in Key : PressStep(k) \/ ReleaseStep(k)
  \/ DialogStep
  \/ \E m \in Modifier : ModifierChanges(m)
  \/ MouseStep
  \/ SystemStep

Spec == Init /\ [][Next]_vars

----------------------------------------------------------------------------
(* What must hold.                                                         *)

(* What the user holds down, under the scancodes it has at present.        *)
HeldByUser ==
  CodesDown \union (modifiers \intersect Forwarded)
            \union (IF button THEN {"button"} ELSE {})

(* No guest holds what the user does not, and no key is remembered as      *)
(* consumed that is not down, whatever Cmd does in between and whichever   *)
(* tabs come and go: except for the very keys whose press was separated    *)
(* from its release (by a switch of the tab, a move of the focus or        *)
(* another window in between, by a repeat under another Cmd, or by Shift   *)
(* renaming the key).  What is stuck never spreads to another key.         *)
NoStuckInput ==
  /\ \A c \in Console :
       guest[c] \ torn \subseteq (IF c = active THEN HeldByUser ELSE {})
  /\ consumed_keys \ torn \subseteq {NameOf(k) : k \in keys}

(* Said of the console's key-up (ui/console.rs:51): it releases only what  *)
(* was actually pressed.  (Not asked of a key that went down in one place  *)
(* and up in another.)                                                     *)
ReleasesOnlyWhatWasPressed ==
  [][sent' # None => sent'[2] \in guest[sent'[1]] \union torn]_vars

(* Said there too (ui/console.rs:39 and :51): the pair stays balanced even *)
(* if Cmd was tapped while the key was held, and no key is wedged down by  *)
(* swallowing its release; so a key that goes up over the console is up in *)
(* the guest.                                                              *)
KeyUpReleases ==
  [][\A k \in keys \ keys' :
       window_active /\ focus = "console" /\ active # None
         => k \notin guest'[active]]_vars

(* Said of sync_modifiers (main.rs:1054): it owns the state of modifiers,  *)
(* so that no release is lost and none is left stuck down in a guest.      *)
ModifiersAreReleased ==
  window_active =>
    \A c \in Console : guest[c] \intersect Forwarded \subseteq held_modifiers

(* Said of the console's mouse buttons (ui/console.rs:153): none is left   *)
(* held down in the guest.                                                 *)
ButtonUpReleases ==
  ~button => \A c \in Console : "button" \notin guest[c]

(* Said of dialogs (main.rs:583): they take the focus and hand it back to  *)
(* the console when they are dismissed; so what is typed while one is up   *)
(* does not go to a guest.                                                 *)
DialogHasKeyboard == overlay \in {"rename", "palette"} => focus = overlay

=============================================================================
