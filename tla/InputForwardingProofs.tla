----------------------- MODULE InputForwardingProofs -----------------------
(***************************************************************************)
(* Nothing gets stuck in a guest but what was torn from its release, for   *)
(* any number of consoles and of keys, on a keyboard with two keys that    *)
(* share a name or without, and whether or not keys repeat.                *)
(***************************************************************************)
EXTENDS InputForwarding, TLAPS

CodeOf(k) == ScancodeForHost(NameOf(k))
Names == {NameOf(k) : k \in keys}

(* What the shown guest holds, and what is remembered as consumed, of what *)
(* has not been torn.                                                      *)
Held == HeldByActive \ torn
Consumed == consumed_keys \ torn

(* The guests that are not shown hold nothing else.                        *)
HiddenAreTorn == \A c \in Console : c # active => guest[c] \subseteq torn

(* The two keys that share a name are torn together.                       *)
TornTogether == Homonyms \subseteq torn \/ Homonyms \intersect torn = {}

(* As long as they are not, Shift is what the guest has been told it is.   *)
ModifiersAgree ==
  window_active => Homonyms \subseteq torn \/ held_modifiers = modifiers

(* What the console cannot hear the release of is torn.                    *)
UnheardAreTorn ==
  /\ ~window_active => Held = {} /\ Consumed = {}
  /\ focus # "console" => Held \intersect Key = {} /\ Consumed = {}

(* A guest holds a modifier because it has been told so.                   *)
ModifiersWereSent == Held \intersect Forwarded \subseteq held_modifiers

(* A name is consumed, and its scancode forwarded, only for two keys.      *)
OneKeyOneWay ==
  \A k \in keys :
    NameOf(k) \in Consumed /\ CodeOf(k) \in Held
      => \E j \in keys \ {k} : NameOf(j) = NameOf(k)

Inv ==
  /\ TypeOK
  /\ HiddenAreTorn
  /\ TornTogether
  /\ ModifiersAgree
  /\ UnheardAreTorn
  /\ ModifiersWereSent
  /\ OneKeyOneWay
  /\ Held \subseteq HeldByUser
  /\ Consumed \subseteq Names

----------------------------------------------------------------------------
(* Names and scancodes.                                                    *)

(* Each key has a name and a scancode: its own, but for the two homonyms.  *)
LEMMA Codes ==
  ASSUME NEW k \in Key
  PROVE  /\ NameOf(k) \in Name /\ NameOf(k)' \in Name
         /\ CodeOf(k) \in Key /\ CodeOf(k)' \in Key
         /\ k \notin Homonyms => /\ NameOf(k) = k /\ NameOf(k)' = k
                               /\ CodeOf(k) = k /\ CodeOf(k)' = k
         /\ k \in Homonyms => /\ k \in {MainRow, Keypad}
                             /\ NameOf(k) \in Homonyms /\ NameOf(k)' \in Homonyms
                             /\ CodeOf(k) \in Homonyms /\ CodeOf(k)' \in Homonyms
BY KeyAssumption DEF NameOf, CodeOf, ScancodeForHost, Homonyms, Name

(* The scancode tells the name, for what has not been torn.                *)
LEMMA CodeTellsName ==
  ASSUME Inv, window_active, NEW j \in Key, NEW k \in Key,
         CodeOf(j) = CodeOf(k), CodeOf(k) \notin torn \/ NameOf(k) \notin torn
  PROVE  NameOf(j) = NameOf(k)
<1>1. CASE held_modifiers = modifiers
  BY <1>1, KeyAssumption DEF NameOf, CodeOf, ScancodeForHost
<1>2. CASE Homonyms \subseteq torn
  <2>1. k \notin Homonyms
    BY <1>2, Codes
  <2>2. j \notin Homonyms
    BY <2>1, Codes
  <2> QED  BY <2>1, <2>2, Codes
<1> QED  BY <1>1, <1>2 DEF Inv, ModifiersAgree

(* A key has both its name and its scancode torn, or neither.              *)
LEMMA TornAlike ==
  ASSUME TornTogether, NEW k \in Key
  PROVE  NameOf(k) \in torn <=> CodeOf(k) \in torn
BY Codes DEF TornTogether

(* What is torn stays torn, and the homonyms are torn together.            *)
LEMMA TearKeeps ==
  ASSUME TornTogether, NEW what, Tear(what)
  PROVE  TornTogether' /\ torn \subseteq torn' /\ what \subseteq torn'
<1>1. torn' = torn \union what
               \union (IF what \intersect Homonyms = {} THEN {} ELSE Homonyms)
  BY DEF Tear
<1> QED  BY <1>1 DEF TornTogether

(* What the shown guest holds by the keyboard is of keys that are down.    *)
LEMMA KeysOfHeld ==
  ASSUME Inv, NEW x \in Held \intersect Key
  PROVE  \E k \in keys : k \in Key /\ x = CodeOf(k)
BY KeyAssumption DEF Inv, TypeOK, HeldByUser, CodesDown, CodeOf, Forwarded

(* A guest that holds the button does so because the user does.            *)
LEMMA ButtonHeld ==
  ASSUME Inv, "button" \in Held
  PROVE  button
BY KeyAssumption, Codes DEF Inv, TypeOK, HeldByUser, CodesDown, CodeOf, Forwarded

----------------------------------------------------------------------------
(* Types.                                                                  *)

(* What is sent reaches the shown guest and no other.                      *)
LEMMA Sending ==
  ASSUME TypeOK, NEW pressed \in SUBSET Code, NEW released, SendToActive(pressed, released)
  PROVE  /\ guest' \in [Console -> SUBSET Code]
         /\ \A c \in Console : c # active => guest'[c] = guest[c]
         /\ active # None => guest'[active] = (guest[active] \union pressed) \ released
<1>1. CASE active = None
  BY <1>1 DEF SendToActive, AfterSending, TypeOK
<1>2. CASE active # None
  <2>1. /\ active \in Console /\ guest \in [Console -> SUBSET Code]
        /\ guest' = [guest EXCEPT ![active] = (guest[active] \union pressed) \ released]
    BY <1>2 DEF SendToActive, AfterSending, TypeOK
  <2>2. (guest[active] \union pressed) \ released \in SUBSET Code
    BY <2>1
  <2> QED  BY <2>1, <2>2
<1> QED  BY <1>1, <1>2

(* A tab that closes takes its guest with it, and leaves the others.       *)
LEMMA Closing ==
  ASSUME TypeOK, NEW c \in open, NEW held \in [Console -> SUBSET Code], CloseTab(c, held)
  PROVE  /\ guest' \in [Console -> SUBSET Code]
         /\ guest'[c] = {} /\ \A d \in Console : d # c => guest'[d] = held[d]
         /\ open' \in SUBSET Console /\ active' \in open' \union {None}
         /\ active # c => active' = active
BY ConsoleAssumption DEF CloseTab, TypeOK

(* The types hold in every step.                                           *)
LEMMA TypeNext ==
  ASSUME TypeOK, [Next]_vars
  PROVE  TypeOK'
<1>1. /\ guest \in [Console -> SUBSET Code] /\ keys \subseteq Key
      /\ consumed_keys \subseteq Name /\ torn \subseteq Name \union Code
      /\ Escape \in Key /\ Homonyms \subseteq Name /\ HeldByActive \subseteq Code
      /\ Key \subseteq Code /\ Forwarded \subseteq Code /\ "button" \in Code
      /\ modifiers \subseteq Modifier /\ held_modifiers \subseteq Modifier
      /\ open \subseteq Console
  BY KeyAssumption DEF TypeOK, HeldByActive, Homonyms, Name, Code
<1>2. ASSUME NEW what \in SUBSET (Name \union Code), Tear(what)
      PROVE  torn' \in SUBSET (Name \union Code)
  BY <1>1, <1>2 DEF Tear
<1>3. ASSUME NEW k \in Key
      PROVE  /\ NameOf(k) \in Name /\ ScancodeForHost(NameOf(k)) \in Key
             /\ RepeatsOtherwise(k) \subseteq Name
  BY Codes DEF CodeOf, RepeatsOtherwise
<1>4. /\ Outstanding \subseteq Name \union Code /\ CodesDown \subseteq Code
      /\ \A c : LeftBehind(c) \subseteq Code
  BY <1>1, <1>3 DEF Outstanding, CodesDown, LeftBehind, Name
<1>5. ASSUME NEW k \in Key, PressStep(k)
      PROVE  TypeOK'
  <2>1. /\ keys' \in SUBSET Key /\ sent' = None
        /\ UNCHANGED <<modifiers, button, window_active, held_modifiers>>
        /\ consumed_keys' \in SUBSET Name
    BY <1>1, <1>3, <1>5
    DEF PressStep, NoShortcut, ShortcutCloses, ShortcutFilters, ShortcutOpensPalette,
        ShortcutSwitches, ForwardPress, TypeIntoInm, Consume, KeyDown
  <2>2. torn' \in SUBSET (Name \union Code)
    <3>1. \/ UNCHANGED torn
          \/ Tear(RepeatsOtherwise(k)) \/ \E c : Tear(RepeatsOtherwise(k) \union LeftBehind(c))
          \/ Tear(RepeatsOtherwise(k) \union Outstanding \union {NameOf(k)})
      BY <1>5 DEF PressStep, NoShortcut, ShortcutCloses, ShortcutFilters,
                  ShortcutOpensPalette, ShortcutSwitches, ForwardPress, TypeIntoInm
    <3> QED  BY <1>1, <1>2, <1>3, <1>4, <3>1
  <2>3. /\ focus' \in {"console", "filter", "rename", "palette"}
        /\ overlay' \in {"none", "menu", "switcher", "rename", "palette"}
    BY <1>5 DEF TypeOK, PressStep, NoShortcut, ShortcutCloses, ShortcutFilters,
                ShortcutOpensPalette, ShortcutSwitches, ForwardPress, TypeIntoInm
  <2>4. /\ guest' \in [Console -> SUBSET Code]
        /\ open' \in SUBSET Console /\ active' \in open' \union {None}
    <3>1. CASE ShortcutCloses(k)
      <4>1. active \in open /\ CloseTab(active, guest)
        BY <3>1 DEF ShortcutCloses, TypeOK
      <4> QED  BY <1>1, <4>1, Closing
    <3>2. CASE ForwardPress(k)
      <4>1. /\ {ScancodeForHost(NameOf(k))} \in SUBSET Code
            /\ SendToActive({ScancodeForHost(NameOf(k))}, {}) /\ UNCHANGED tabs
        BY <1>1, <1>3, <3>2 DEF ForwardPress
      <4> QED  BY <4>1, Sending DEF tabs, TypeOK
    <3>3. CASE \E c \in Console : ShortcutSwitches(k, c)
      BY <3>3 DEF ShortcutSwitches, TypeOK
    <3>4. CASE NoShortcut(k) \/ ShortcutFilters(k) \/ ShortcutOpensPalette(k) \/ TypeIntoInm(k)
      BY <3>4 DEF NoShortcut, ShortcutFilters, ShortcutOpensPalette, TypeIntoInm, tabs, TypeOK
    <3> QED  BY <1>5, <3>1, <3>2, <3>3, <3>4 DEF PressStep
  <2> QED  BY <2>1, <2>2, <2>3, <2>4 DEF TypeOK
<1>6. CASE DialogStep
  <2>1. /\ keys' \in SUBSET Key /\ sent' = None
        /\ UNCHANGED <<modifiers, button, window_active, held_modifiers, consumed_keys,
                       guest, open>>
        /\ \/ UNCHANGED <<active, torn>>
           \/ \E c \in open : active' = c /\ Tear(LeftBehind(c))
    BY <1>1, <1>6 DEF DialogStep, EscapeClosesOverlay, KeyClosesDialog, PaletteSwitches,
                      KeyDown, tabs
  <2>2. torn' \in SUBSET (Name \union Code)
    BY <1>1, <1>2, <1>4, <2>1
  <2>3. /\ focus' \in {"console", "filter", "rename", "palette"}
        /\ overlay' \in {"none", "menu", "switcher", "rename", "palette"}
    BY <1>6 DEF TypeOK, DialogStep, EscapeClosesOverlay, KeyClosesDialog, PaletteSwitches
  <2> QED  BY <2>1, <2>2, <2>3 DEF TypeOK
<1>7. ASSUME NEW k \in Key, ReleaseStep(k)
      PROVE  TypeOK'
  <2>1. /\ keys' \in SUBSET Key /\ consumed_keys' \in SUBSET Name
        /\ UNCHANGED <<modifiers, button, window_active, focus, overlay, open, active,
                       held_modifiers, torn>>
    BY <1>1, <1>7 DEF ReleaseStep, ReleaseElsewhere, SwallowRelease, ForwardRelease, KeyUp,
                      tabs
  <2>2. \/ UNCHANGED guest /\ sent' = None
        \/ /\ SendToActive({}, {ScancodeForHost(NameOf(k))})
           /\ sent' = IF active = None THEN None ELSE <<active, ScancodeForHost(NameOf(k))>>
    BY <1>7 DEF ReleaseStep, ReleaseElsewhere, SwallowRelease, ForwardRelease
  <2>3. guest' \in [Console -> SUBSET Code] /\ sent' \in {None} \union (Console \X Key)
    <3>1. sent' \in {None} \union (Console \X Key)
      BY <1>3, <2>2 DEF TypeOK
    <3>2. CASE UNCHANGED guest
      BY <1>1, <3>1, <3>2
    <3>3. CASE SendToActive({}, {ScancodeForHost(NameOf(k))})
      <4>1. {} \in SUBSET Code
        OBVIOUS
      <4> QED  BY <3>1, <3>3, <4>1, Sending
    <3> QED  BY <2>2, <3>2, <3>3
  <2> QED  BY <2>1, <2>3 DEF TypeOK
<1>8. ASSUME NEW m \in Modifier, ModifierChanges(m)
      PROVE  TypeOK'
  <2> DEFINE now == IF m \in modifiers THEN modifiers \ {m} ELSE modifiers \union {m}
  <2>1. /\ now \subseteq Modifier /\ modifiers' = now
        /\ IF window_active THEN SyncModifiers(now) ELSE UNCHANGED <<held_modifiers, guest>>
        /\ Tear(RenamedBy(m)) /\ sent' = None
        /\ UNCHANGED <<keys, button, window_active, focus, overlay, open, active,
                       consumed_keys>>
    BY <1>1, <1>8 DEF ModifierChanges, tabs
  <2> HIDE DEF now
  <2>2. torn' \in SUBSET (Name \union Code)
    BY <1>1, <1>2, <2>1 DEF RenamedBy
  <2>3. guest' \in [Console -> SUBSET Code] /\ held_modifiers' \in SUBSET Modifier
    <3>1. CASE window_active
      <4>1. /\ (now \ held_modifiers) \intersect Forwarded \in SUBSET Code
            /\ SendToActive((now \ held_modifiers) \intersect Forwarded,
                            (held_modifiers \ now) \intersect Forwarded)
            /\ held_modifiers' = now
        BY <1>1, <2>1, <3>1 DEF SyncModifiers
      <4> QED  BY <2>1, <4>1, Sending
    <3>2. CASE ~window_active
      BY <1>1, <2>1, <3>2
    <3> QED  BY <3>1, <3>2
  <2> QED  BY <2>1, <2>2, <2>3 DEF TypeOK
<1>9. CASE MouseStep
  <2>1. /\ UNCHANGED <<keys, modifiers, window_active, held_modifiers, consumed_keys>>
        /\ sent' = None /\ button' \in BOOLEAN
        /\ focus' \in {"console", "filter", "rename", "palette"}
        /\ overlay' \in {"none", "menu", "switcher", "rename", "palette"}
    BY <1>9 DEF TypeOK, MouseStep, PressButton, ReleaseButton, Click, ClickTab, ClickCloses,
                ClickFilter, ClickOpensMenu, ClickTogglesSwitcher, ClickRename, ClickAway,
                SendCtrlAltDel, FocusAfterPress, host
  <2>2. torn' \in SUBSET (Name \union Code)
    <3>1. UNCHANGED torn \/ Tear(Outstanding) \/ \E c : Tear(LeftBehind(c))
      BY <1>9 DEF MouseStep, PressButton, ReleaseButton, ClickTab, ClickCloses,
                  ClickFilter, ClickOpensMenu, ClickTogglesSwitcher, ClickRename, ClickAway,
                  SendCtrlAltDel
    <3> QED  BY <1>1, <1>2, <1>4, <3>1
  <2>3. /\ guest' \in [Console -> SUBSET Code]
        /\ open' \in SUBSET Console /\ active' \in open' \union {None}
    <3>1. \A pressed \in SUBSET Code : \A released :
            SendToActive(pressed, released) => guest' \in [Console -> SUBSET Code]
      BY Sending
    <3>2. CASE \E c \in Console : ClickCloses(c)
      <4>1. PICK c \in open : CloseTab(c, AfterSending({}, {"button"}))
        BY <3>2 DEF ClickCloses
      <4>2. AfterSending({}, {"button"}) \in [Console -> SUBSET Code]
        BY <1>1 DEF AfterSending
      <4> QED  BY <4>1, <4>2, Closing
    <3>3. CASE \E c \in Console : ClickTab(c)
      <4>1. PICK c \in open : SendToActive({}, {"button"}) /\ active' = c /\ UNCHANGED open
        BY <3>3 DEF ClickTab
      <4> QED  BY <1>1, <3>1, <4>1
    <3>4. ASSUME UNCHANGED tabs,
                 \E pressed \in SUBSET Code : \E released : SendToActive(pressed, released)
          PROVE  /\ guest' \in [Console -> SUBSET Code]
                 /\ open' \in SUBSET Console /\ active' \in open' \union {None}
      BY <3>1, <3>4 DEF TypeOK, tabs
    <3>5. CASE PressButton
      <4>1. {"button"} \in SUBSET Code /\ SendToActive({"button"}, {}) /\ UNCHANGED tabs
        BY <1>1, <3>5 DEF PressButton
      <4> QED  BY <3>4, <4>1
    <3>6. CASE \/ ReleaseButton \/ ClickFilter \/ ClickOpensMenu \/ ClickTogglesSwitcher
               \/ ClickRename \/ ClickAway \/ SendCtrlAltDel
      <4>1. /\ {} \in SUBSET Code /\ UNCHANGED tabs
            /\ \E released : SendToActive({}, released)
        BY <3>6 DEF ReleaseButton, ClickFilter, ClickOpensMenu, ClickTogglesSwitcher,
                    ClickRename, ClickAway, SendCtrlAltDel
      <4> QED  BY <3>4, <4>1
    <3> QED  BY <1>9, <3>2, <3>3, <3>5, <3>6 DEF MouseStep
  <2> QED  BY <2>1, <2>2, <2>3 DEF TypeOK
<1>10. CASE SystemStep
  <2>1. /\ UNCHANGED <<keys, modifiers, button, overlay, held_modifiers, consumed_keys>>
        /\ sent' = None /\ window_active' \in BOOLEAN
        /\ focus' \in {"console", "filter", "rename", "palette"}
    BY <1>10 DEF TypeOK, SystemStep, Connected, ConnectionLost, WindowDeactivates,
                 WindowActivates, host
  <2>2. torn' \in SUBSET (Name \union Code)
    <3>1. \/ UNCHANGED torn \/ Tear(HeldByActive \union CodesDown)
          \/ Tear(HeldByActive \union consumed_keys)
          \/ Tear({}) \/ Tear(Homonyms)
      BY <1>10 DEF SystemStep, Connected, ConnectionLost, WindowDeactivates, WindowActivates
    <3> QED  BY <1>1, <1>2, <1>4, <3>1
  <2>3. /\ guest' \in [Console -> SUBSET Code]
        /\ open' \in SUBSET Console /\ active' \in open' \union {None}
    <3>1. CASE \E c \in Console : ConnectionLost(c)
      <4>1. PICK c \in open : CloseTab(c, guest)
        BY <3>1 DEF ConnectionLost
      <4> QED  BY <1>1, <4>1, Closing
    <3>2. CASE \/ \E c \in Console : Connected(c)
               \/ WindowDeactivates \/ WindowActivates
      BY <1>1, <3>2 DEF Connected, WindowDeactivates, WindowActivates, TypeOK, tabs
    <3> QED  BY <1>10, <3>1, <3>2 DEF SystemStep
  <2> QED  BY <2>1, <2>2, <2>3 DEF TypeOK
<1>11. CASE UNCHANGED vars
  BY <1>11 DEF TypeOK, vars
<1> QED  BY <1>5, <1>6, <1>7, <1>8, <1>9, <1>10, <1>11 DEF Next

----------------------------------------------------------------------------
(* The shown guest, when others come to be shown, and when nothing new is  *)
(* held down.                                                              *)

(* No guest is told of a press, and what the one that was shown holds is   *)
(* torn when another one is.                                               *)
LEMMA GuestsLose ==
  ASSUME Inv, torn \subseteq torn',
         \A c \in Console : guest'[c] \subseteq guest[c],
         active' \in Console \union {None},
         active' = active \/ active = None \/ guest'[active] \subseteq torn'
  PROVE  HiddenAreTorn' /\ Held' \subseteq Held
<1>1. active \in Console \union {None}
  BY DEF Inv, TypeOK
<1>2. HiddenAreTorn'
  <2> SUFFICES ASSUME NEW c \in Console, c # active'
               PROVE  guest'[c] \subseteq torn'
    BY DEF HiddenAreTorn
  <2>1. CASE c = active
    BY <2>1, ConsoleAssumption
  <2>2. CASE c # active
    BY <2>2 DEF Inv, HiddenAreTorn
  <2> QED  BY <2>1, <2>2
<1>3. Held' \subseteq Held
  <2>1. CASE active' = None
    BY <2>1 DEF Held, HeldByActive
  <2>2. CASE active' = active /\ active' # None
    BY <1>1, <2>2 DEF Held, HeldByActive
  <2>3. CASE active' # active /\ active' # None
    <3>1. guest[active'] \subseteq torn
      BY <2>3 DEF Inv, HiddenAreTorn
    <3> QED  BY <2>3, <3>1 DEF Held, HeldByActive
  <2> QED  BY <2>1, <2>2, <2>3
<1> QED  BY <1>2, <1>3

(* What goes on being held is torn, or was held before.                    *)
LEMMA NothingNew ==
  ASSUME Inv, TypeOK', TornTogether', HiddenAreTorn',
         keys \subseteq keys', UNCHANGED <<modifiers, held_modifiers>>,
         torn \subseteq torn', Consumed' \subseteq Consumed,
         \/ Held' \subseteq Held
         \/ window_active' /\ Held' \subseteq Held \union {"button"},
         "button" \in Held' => button',
         window_active' => window_active \/ Homonyms \subseteq torn' \/ held_modifiers = modifiers,
         ~window_active' => ~window_active \/ (Held' = {} /\ Consumed' = {}),
         focus' # "console"
           => focus # "console" \/ (Held' \intersect Key = {} /\ Consumed' = {})
  PROVE  Inv'
<1>1. \A k \in Key : NameOf(k)' = NameOf(k) /\ CodeOf(k)' = CodeOf(k)
  BY DEF NameOf, CodeOf, ScancodeForHost
<1>2. /\ keys \subseteq Key /\ keys' \subseteq Key /\ "button" \notin Forwarded
      /\ "button" \notin Key
  BY KeyAssumption DEF Inv, TypeOK, Forwarded
<1>3. ModifiersAgree'
  BY DEF Inv, ModifiersAgree
<1>4. UnheardAreTorn'
  BY <1>2 DEF Inv, UnheardAreTorn
<1>5. ModifiersWereSent'
  BY <1>2 DEF Inv, ModifiersWereSent
<1>6. Names \subseteq Names' /\ Consumed' \subseteq Names'
  BY <1>1, <1>2 DEF Inv, Names
<1>7. Held' \subseteq HeldByUser'
  <2>1. CodesDown \subseteq CodesDown'
    BY <1>1, <1>2 DEF CodesDown, CodeOf
  <2> QED  BY <1>2, <2>1 DEF Inv, HeldByUser
<1>8. OneKeyOneWay'
  <2> SUFFICES ASSUME NEW k \in keys', NameOf(k)' \in Consumed', CodeOf(k)' \in Held'
               PROVE  \E j \in keys' \ {k} : NameOf(j)' = NameOf(k)'
    BY DEF OneKeyOneWay
  <2>1. k \in Key /\ NameOf(k) \in Consumed /\ CodeOf(k) \in Held
    BY <1>1, <1>2, Codes
  <2>2. PICK j \in keys \ {k} : NameOf(j) = NameOf(k)
    BY <2>1 DEF Inv, OneKeyOneWay, Names
  <2> QED  BY <1>1, <1>2, <2>1, <2>2
<1> QED  BY <1>3, <1>4, <1>5, <1>6, <1>7, <1>8 DEF Inv

(* The key is the app's, and the guest goes on holding what it held.       *)
LEMMA ConsumeKeeps ==
  ASSUME Inv, TypeOK', HiddenAreTorn', NEW k \in Key, Consume(k),
         NEW what, Tear(what), RepeatsOtherwise(k) \subseteq what,
         Held' \subseteq Held,
         focus' = focus \/ Outstanding \union {NameOf(k)} \subseteq what
  PROVE  Inv'
<1>1. /\ window_active /\ focus = "console" /\ "cmd" \in modifiers
      /\ keys' = keys \union {k} /\ consumed_keys' = consumed_keys \union {NameOf(k)}
      /\ UNCHANGED <<modifiers, button, window_active, held_modifiers>>
  BY DEF Consume, KeyDown
<1>2. TornTogether' /\ torn \subseteq torn' /\ what \subseteq torn'
  BY TearKeeps DEF Inv
<1>3. \A j \in Key : NameOf(j)' = NameOf(j) /\ CodeOf(j)' = CodeOf(j)
  BY <1>1 DEF NameOf, CodeOf, ScancodeForHost
<1>4. /\ keys \subseteq Key /\ keys' \subseteq Key
      /\ Consumed' \subseteq Consumed \union {NameOf(k)}
  BY <1>1, <1>2 DEF Inv, TypeOK, Consumed
<1>5. ModifiersAgree' /\ ModifiersWereSent'
  BY <1>1, <1>2 DEF Inv, ModifiersAgree, ModifiersWereSent
<1>6. UnheardAreTorn'
  <2>1. CASE focus' = focus
    BY <1>1, <2>1 DEF UnheardAreTorn
  <2>2. CASE Outstanding \union {NameOf(k)} \subseteq what
    <3>1. Held' \intersect Key = {}
      BY <1>2, <2>2 DEF Held, Outstanding
    <3>2. Consumed' = {}
      BY <1>1, <1>2, <2>2 DEF Consumed, Outstanding
    <3> QED  BY <1>1, <3>1, <3>2 DEF UnheardAreTorn
  <2> QED  BY <2>1, <2>2
<1>7. Consumed' \subseteq Names'
  BY <1>1, <1>3, <1>4 DEF Inv, Names
<1>8. Held' \subseteq HeldByUser'
  <2>1. CodesDown \subseteq CodesDown'
    BY <1>1, <1>3, <1>4 DEF CodesDown, CodeOf
  <2> QED  BY <1>1, <2>1 DEF Inv, HeldByUser
<1>9. OneKeyOneWay'
  <2> SUFFICES ASSUME NEW i \in keys', NameOf(i)' \in Consumed', CodeOf(i)' \in Held'
               PROVE  \E j \in keys' \ {i} : NameOf(j)' = NameOf(i)'
    BY DEF OneKeyOneWay
  <2>1. i \in Key /\ NameOf(i) \in Consumed' /\ CodeOf(i) \in Held
    BY <1>3, <1>4
  <2>2. SUFFICES \E j \in keys' \ {i} : NameOf(j) = NameOf(i)
    BY <1>3, <1>4, <2>1
  <2>3. CASE NameOf(i) \in Consumed
    <3>1. PICK j \in keys \ {i} : NameOf(j) = NameOf(i)
      BY <2>1, <2>3 DEF Inv, OneKeyOneWay, Names
    <3> QED  BY <1>1, <3>1
  <2>4. CASE NameOf(i) \notin Consumed
    <3>1. NameOf(i) = NameOf(k) /\ NameOf(k) \notin consumed_keys /\ NameOf(k) \notin torn'
      BY <1>2, <1>4, <2>1, <2>4 DEF Consumed
    <3>2. k \notin keys
      BY <1>1, <1>2, <3>1 DEF RepeatsOtherwise
    <3>3. PICK j \in keys : j \in Key /\ CodeOf(i) = CodeOf(j)
      BY <2>1, Codes, KeysOfHeld
    <3>4. CodeOf(i) \notin torn
      BY <2>1 DEF Held
    <3>5. NameOf(j) = NameOf(i)
      BY <1>1, <2>1, <3>3, <3>4, CodeTellsName
    <3> QED  BY <1>1, <3>1, <3>2, <3>3, <3>5
  <2> QED  BY <2>3, <2>4
<1> QED  BY <1>2, <1>5, <1>6, <1>7, <1>8, <1>9 DEF Inv

----------------------------------------------------------------------------
(* A key goes down.                                                        *)

(* A press that goes to the guest keeps the invariant.                     *)
LEMMA ForwardPressKeeps ==
  ASSUME Inv, TypeOK', NEW k \in Key, ForwardPress(k)
  PROVE  Inv'
<1>1. /\ window_active /\ focus = "console" /\ "cmd" \notin modifiers
      /\ keys' = keys \union {k} /\ Tear(RepeatsOtherwise(k))
      /\ SendToActive({CodeOf(k)}, {})
      /\ UNCHANGED <<modifiers, button, window_active, held_modifiers, focus, active,
                     consumed_keys>>
  BY DEF ForwardPress, KeyDown, CodeOf, tabs
<1>2. TornTogether' /\ torn \subseteq torn' /\ RepeatsOtherwise(k) \subseteq torn'
  BY <1>1, TearKeeps DEF Inv
<1>3. \A j \in Key : NameOf(j)' = NameOf(j) /\ CodeOf(j)' = CodeOf(j)
  BY <1>1 DEF NameOf, CodeOf, ScancodeForHost
<1>4. /\ keys \subseteq Key /\ keys' \subseteq Key /\ CodeOf(k) \in Key
      /\ Consumed' \subseteq Consumed
  BY <1>1, <1>2, Codes DEF Inv, TypeOK, Consumed
<1>5. /\ \A c \in Console : c # active => guest'[c] = guest[c]
      /\ active # None => guest'[active] = guest[active] \union {CodeOf(k)}
  <2>1. TypeOK /\ {CodeOf(k)} \in SUBSET Code
    BY <1>4 DEF Inv, Code
  <2>2. /\ \A c \in Console : c # active => guest'[c] = guest[c]
        /\ active # None => guest'[active] = (guest[active] \union {CodeOf(k)}) \ {}
    BY <1>1, <2>1, Sending
  <2>3. (guest[active] \union {CodeOf(k)}) \ {} = guest[active] \union {CodeOf(k)}
    OBVIOUS
  <2> QED  BY <2>2, <2>3
<1>6. HiddenAreTorn' /\ Held' \subseteq Held \union {CodeOf(k)}
  BY <1>1, <1>2, <1>5 DEF Inv, HiddenAreTorn, Held, HeldByActive
<1>7. ModifiersAgree' /\ UnheardAreTorn'
  BY <1>1, <1>2 DEF Inv, ModifiersAgree, UnheardAreTorn
<1>8. ModifiersWereSent'
  BY <1>1, <1>4, <1>6, KeyAssumption DEF Inv, ModifiersWereSent, Forwarded
<1>9. Consumed' \subseteq Names'
  BY <1>1, <1>3, <1>4 DEF Inv, Names
<1>10. Held' \subseteq HeldByUser'
  <2>1. CodesDown \union {CodeOf(k)} \subseteq CodesDown'
    BY <1>1, <1>3, <1>4 DEF CodesDown, CodeOf
  <2> QED  BY <1>1, <1>6, <2>1 DEF Inv, HeldByUser
<1>11. OneKeyOneWay'
  <2> SUFFICES ASSUME NEW i \in keys', NameOf(i)' \in Consumed', CodeOf(i)' \in Held'
               PROVE  \E j \in keys' \ {i} : NameOf(j)' = NameOf(i)'
    BY DEF OneKeyOneWay
  <2>1. i \in Key /\ NameOf(i) \in Consumed /\ CodeOf(i) \in Held \union {CodeOf(k)}
    BY <1>3, <1>4, <1>6
  <2>2. SUFFICES \E j \in keys' \ {i} : NameOf(j) = NameOf(i)
    BY <1>3, <1>4, <2>1
  <2>3. CASE i \notin keys \/ CodeOf(i) \in Held
    <3>1. PICK j \in keys \ {i} : NameOf(j) = NameOf(i)
      BY <2>1, <2>3 DEF Inv, OneKeyOneWay, Names
    <3> QED  BY <1>1, <3>1
  <2>4. CASE i \in keys /\ CodeOf(i) \notin Held
    <3>1. NameOf(i) \notin torn /\ NameOf(i) \notin torn' /\ NameOf(i) \in consumed_keys
      BY <1>1, <1>2, <1>3, <2>1 DEF Consumed
    <3>2. NameOf(k) = NameOf(i)
      BY <1>1, <2>1, <2>4, <3>1, CodeTellsName
    <3>3. k \notin keys
      BY <1>1, <1>2, <3>1, <3>2 DEF RepeatsOtherwise
    <3> QED  BY <1>1, <2>4, <3>2, <3>3
  <2> QED  BY <2>3, <2>4
<1> QED  BY <1>2, <1>6, <1>7, <1>8, <1>9, <1>10, <1>11 DEF Inv

(* Some other console may be shown, and what is held down stays behind.    *)
LEMMA SwitchLoses ==
  ASSUME Inv, torn \subseteq torn', NEW c \in open, active' = c,
         \A d \in Console : guest'[d] \subseteq guest[d],
         LeftBehind(c) \subseteq torn'
  PROVE  HiddenAreTorn' /\ Held' \subseteq Held
<1>1. c \in Console /\ active \in Console \union {None}
  BY DEF Inv, TypeOK
<1>2. active' = active \/ active = None \/ guest'[active] \subseteq torn'
  BY <1>1 DEF LeftBehind, HeldByActive
<1> QED  BY <1>1, <1>2, GuestsLose

(* A tab goes: when it was the shown one, so does what it held.            *)
LEMMA CloseLoses ==
  ASSUME Inv, torn \subseteq torn', NEW c \in open,
         NEW held \in [Console -> SUBSET Code],
         \A d \in Console : held[d] \subseteq guest[d],
         CloseTab(c, held)
  PROVE  HiddenAreTorn' /\ Held' \subseteq Held
<1>1. /\ guest'[c] = {} /\ \A d \in Console : d # c => guest'[d] = held[d]
      /\ open' \in SUBSET Console /\ active' \in open' \union {None}
      /\ active # c => active' = active
  BY Closing DEF Inv
<1>2. /\ \A d \in Console : guest'[d] \subseteq guest[d]
      /\ active' \in Console \union {None} /\ torn \subseteq torn'
  BY <1>1
<1> QED  BY <1>1, <1>2, GuestsLose

(* So does any key that is pressed in the console,                         *)
LEMMA PressNext ==
  ASSUME Inv, TypeOK', NEW k \in Key, PressStep(k)
  PROVE  Inv'
<1>1. guest \in [Console -> SUBSET Code] /\ active \in open \union {None}
      /\ open \subseteq Console /\ TornTogether
  BY DEF Inv, TypeOK
<1>2. ASSUME NEW what, Tear(what)
      PROVE  torn \subseteq torn' /\ what \subseteq torn'
  BY <1>1, <1>2, TearKeeps
<1>3. ASSUME UNCHANGED <<guest, active>>, torn \subseteq torn'
      PROVE  HiddenAreTorn' /\ Held' \subseteq Held
  BY <1>1, <1>3, GuestsLose
<1>4. CASE NoShortcut(k)
  <2>1. /\ Consume(k) /\ Tear(RepeatsOtherwise(k)) /\ UNCHANGED <<focus, guest, active>>
    BY <1>4 DEF NoShortcut, tabs
  <2>2. HiddenAreTorn' /\ Held' \subseteq Held
    BY <1>2, <1>3, <2>1
  <2> QED  BY <2>1, <2>2, ConsumeKeeps
<1>5. CASE ShortcutCloses(k)
  <2>1. /\ Consume(k) /\ Tear(RepeatsOtherwise(k)) /\ UNCHANGED focus
        /\ active \in open /\ CloseTab(active, guest)
    BY <1>1, <1>5 DEF ShortcutCloses
  <2>2. HiddenAreTorn' /\ Held' \subseteq Held
    BY <1>1, <1>2, <2>1, CloseLoses
  <2> QED  BY <2>1, <2>2, ConsumeKeeps
<1>6. CASE ShortcutFilters(k) \/ ShortcutOpensPalette(k)
  <2> DEFINE what == RepeatsOtherwise(k) \union Outstanding \union {NameOf(k)}
  <2>1. Consume(k) /\ Tear(what) /\ UNCHANGED <<guest, active>>
    BY <1>6 DEF ShortcutFilters, ShortcutOpensPalette, tabs
  <2>2. HiddenAreTorn' /\ Held' \subseteq Held
    BY <1>2, <1>3, <2>1
  <2>3. RepeatsOtherwise(k) \subseteq what /\ Outstanding \union {NameOf(k)} \subseteq what
    OBVIOUS
  <2> QED  BY <2>1, <2>2, <2>3, ConsumeKeeps
<1>7. ASSUME NEW c \in Console, ShortcutSwitches(k, c)
      PROVE  Inv'
  <2> DEFINE what == RepeatsOtherwise(k) \union LeftBehind(c)
  <2>1. /\ Consume(k) /\ Tear(what) /\ UNCHANGED <<focus, guest>>
        /\ c \in open /\ active' = c
    BY <1>7 DEF ShortcutSwitches
  <2>2. RepeatsOtherwise(k) \subseteq what /\ LeftBehind(c) \subseteq what
    OBVIOUS
  <2>3. HiddenAreTorn' /\ Held' \subseteq Held
    BY <1>2, <2>1, <2>2, SwitchLoses
  <2> QED  BY <2>1, <2>2, <2>3, ConsumeKeeps
<1>8. CASE ForwardPress(k)
  BY <1>8, ForwardPressKeeps
<1>9. CASE TypeIntoInm(k)
  <2>1. /\ keys \subseteq keys'
        /\ UNCHANGED <<modifiers, button, window_active, held_modifiers, focus, active,
                       consumed_keys, guest, torn>>
    BY <1>9 DEF TypeIntoInm, KeyDown, tabs
  <2>2. HiddenAreTorn' /\ Held' = Held /\ Consumed' = Consumed /\ TornTogether'
    BY <1>1, <1>3, <2>1 DEF Held, HeldByActive, Consumed, TornTogether
  <2> QED  BY <2>1, <2>2, ButtonHeld, NothingNew
<1> QED  BY <1>4, <1>5, <1>6, <1>7, <1>8, <1>9 DEF PressStep

(* any that something else in the window hears,                            *)
LEMMA DialogNext ==
  ASSUME Inv, TypeOK', DialogStep
  PROVE  Inv'
<1>1. /\ keys \subseteq keys'
      /\ UNCHANGED <<modifiers, button, window_active, held_modifiers, consumed_keys, guest>>
      /\ focus' = focus \/ focus' = "console"
  BY DEF DialogStep, EscapeClosesOverlay, KeyClosesDialog, PaletteSwitches, KeyDown
<1>2. \/ UNCHANGED <<active, torn>>
      \/ \E c \in open : active' = c /\ Tear(LeftBehind(c))
  BY DEF DialogStep, EscapeClosesOverlay, KeyClosesDialog, PaletteSwitches, tabs
<1>3. TornTogether' /\ torn \subseteq torn'
  BY <1>2, TearKeeps DEF Inv, TornTogether
<1>4. guest \in [Console -> SUBSET Code] /\ active \in Console \union {None}
  BY DEF Inv, TypeOK
<1>5. HiddenAreTorn' /\ Held' \subseteq Held
  <2>1. CASE UNCHANGED <<active, torn>>
    BY <1>1, <1>3, <1>4, <2>1, GuestsLose
  <2>2. ASSUME NEW c \in open, active' = c, Tear(LeftBehind(c))
        PROVE  HiddenAreTorn' /\ Held' \subseteq Held
    <3>1. LeftBehind(c) \subseteq torn'
      BY <2>2, TearKeeps DEF Inv
    <3> QED  BY <1>1, <1>3, <1>4, <2>2, <3>1, SwitchLoses
  <2> QED  BY <1>2, <2>1, <2>2
<1>6. Consumed' \subseteq Consumed
  BY <1>1, <1>3 DEF Consumed
<1> QED  BY <1>1, <1>3, <1>5, <1>6, ButtonHeld, NothingNew

----------------------------------------------------------------------------
(* A key goes up.                                                          *)

(* any that is released,                                                   *)
LEMMA ReleaseNext ==
  ASSUME Inv, TypeOK', NEW k \in Key, ReleaseStep(k)
  PROVE  Inv'
<1>1. /\ k \in keys /\ keys' = keys \ {k}
      /\ UNCHANGED <<modifiers, button, window_active, focus, active, held_modifiers, torn>>
  BY DEF ReleaseStep, ReleaseElsewhere, SwallowRelease, ForwardRelease, KeyUp, tabs
<1>2. \A j \in Key : NameOf(j)' = NameOf(j) /\ CodeOf(j)' = CodeOf(j)
  BY <1>1 DEF NameOf, CodeOf, ScancodeForHost
<1>3. keys \subseteq Key /\ TornTogether /\ TypeOK
  BY DEF Inv, TypeOK
<1>4. ASSUME HiddenAreTorn', Held' \subseteq Held, Consumed' \subseteq Consumed,
             \A x \in Held' \intersect Key : \E i \in keys \ {k} : x = CodeOf(i),
             \A n \in Consumed' : n # NameOf(k)
      PROVE  Inv'
  <2>1. TornTogether' /\ ModifiersAgree' /\ UnheardAreTorn' /\ ModifiersWereSent'
    BY <1>1, <1>4 DEF Inv, TornTogether, ModifiersAgree, UnheardAreTorn, ModifiersWereSent
  <2>2. Consumed' \subseteq Names'
    BY <1>1, <1>2, <1>3, <1>4 DEF Inv, Names
  <2>3. Held' \subseteq HeldByUser'
    <3> SUFFICES ASSUME NEW x \in Held'
                 PROVE  x \in HeldByUser'
      OBVIOUS
    <3>1. x \in Key => x \in CodesDown'
      BY <1>1, <1>2, <1>3, <1>4 DEF CodesDown, CodeOf
    <3>2. x \notin Key => x \notin CodesDown
      BY <1>3, Codes DEF CodesDown, CodeOf
    <3>3. x \in HeldByUser
      BY <1>4 DEF Inv
    <3> QED  BY <1>1, <3>1, <3>2, <3>3 DEF HeldByUser
  <2>4. OneKeyOneWay'
    <3> SUFFICES ASSUME NEW i \in keys', NameOf(i)' \in Consumed', CodeOf(i)' \in Held'
                 PROVE  \E j \in keys' \ {i} : NameOf(j)' = NameOf(i)'
      BY DEF OneKeyOneWay
    <3>1. i \in keys /\ NameOf(i) \in Consumed' /\ CodeOf(i) \in Held
      BY <1>1, <1>2, <1>3, <1>4
    <3>2. PICK j \in keys \ {i} : NameOf(j) = NameOf(i)
      BY <1>4, <3>1 DEF Inv, OneKeyOneWay
    <3>3. j # k
      BY <1>4, <3>1, <3>2
    <3> QED  BY <1>1, <1>2, <1>3, <3>2, <3>3
  <2> QED  BY <1>4, <2>1, <2>2, <2>3, <2>4 DEF Inv
<1>5. ASSUME UNCHANGED guest
      PROVE  HiddenAreTorn' /\ Held' = Held
  BY <1>1, <1>5 DEF Inv, HiddenAreTorn, Held, HeldByActive
<1>6. CASE ReleaseElsewhere(k)
  <2>1. (~window_active \/ focus # "console") /\ UNCHANGED <<guest, consumed_keys>>
    BY <1>6 DEF ReleaseElsewhere
  <2>2. Held \intersect Key = {} /\ Consumed = {}
    BY <2>1 DEF Inv, UnheardAreTorn
  <2>3. Consumed' = Consumed
    BY <1>1, <2>1 DEF Consumed
  <2> QED  BY <1>4, <1>5, <2>1, <2>2, <2>3
<1>7. CASE SwallowRelease(k)
  <2>1. /\ NameOf(k) \in consumed_keys /\ consumed_keys' = consumed_keys \ {NameOf(k)}
        /\ UNCHANGED guest
    BY <1>7 DEF SwallowRelease
  <2>2. Consumed' = Consumed \ {NameOf(k)}
    BY <1>1, <2>1 DEF Consumed
  <2>3. ASSUME NEW x \in Held \intersect Key
        PROVE  \E i \in keys \ {k} : x = CodeOf(i)
    <3>1. PICK i \in keys : i \in Key /\ x = CodeOf(i)
      BY KeysOfHeld
    <3>2. CASE i = k
      <4>1. NameOf(k) \in Consumed
        BY <1>3, <2>1, <3>1, <3>2, TornAlike DEF Held, Consumed
      <4>2. PICK j \in keys \ {k} : NameOf(j) = NameOf(k)
        BY <1>1, <3>1, <3>2, <4>1 DEF Inv, OneKeyOneWay
      <4> QED  BY <3>1, <3>2, <4>2 DEF CodeOf
    <3> QED  BY <3>1, <3>2
  <2> QED  BY <1>4, <1>5, <2>1, <2>2, <2>3
<1>8. CASE ForwardRelease(k)
  <2>1. /\ NameOf(k) \notin consumed_keys /\ UNCHANGED consumed_keys
        /\ SendToActive({}, {CodeOf(k)})
    BY <1>8 DEF ForwardRelease, CodeOf
  <2>2. Consumed' = Consumed /\ \A n \in Consumed : n # NameOf(k)
    BY <1>1, <2>1 DEF Consumed
  <2>3. /\ \A c \in Console : c # active => guest'[c] = guest[c]
        /\ active # None => guest'[active] = (guest[active] \union {}) \ {CodeOf(k)}
    <3>1. {} \in SUBSET Code
      OBVIOUS
    <3> QED  BY <1>3, <2>1, <3>1, Sending
  <2>4. HiddenAreTorn' /\ Held' \subseteq Held \ {CodeOf(k)}
    BY <1>1, <2>3 DEF Inv, HiddenAreTorn, Held, HeldByActive
  <2>5. ASSUME NEW x \in Held' \intersect Key
        PROVE  \E i \in keys \ {k} : x = CodeOf(i)
    BY <2>4, KeysOfHeld
  <2> QED  BY <1>4, <2>2, <2>4, <2>5
<1> QED  BY <1>6, <1>7, <1>8 DEF ReleaseStep

----------------------------------------------------------------------------
(* Shift renames the keys that are down, and what it renames is torn.      *)

(* any modifier,                                                           *)
LEMMA ModifierNext ==
  ASSUME Inv, TypeOK', NEW m \in Modifier, ModifierChanges(m)
  PROVE  Inv'
<1> DEFINE now == IF m \in modifiers THEN modifiers \ {m} ELSE modifiers \union {m}
<1>1. /\ modifiers' = now /\ Tear(RenamedBy(m))
      /\ IF window_active THEN SyncModifiers(now) ELSE UNCHANGED <<held_modifiers, guest>>
      /\ UNCHANGED <<keys, button, window_active, focus, active, consumed_keys>>
  BY DEF ModifierChanges, tabs
<1>2. TornTogether' /\ torn \subseteq torn' /\ RenamedBy(m) \subseteq torn'
  BY <1>1, TearKeeps DEF Inv
<1>3. keys \subseteq Key /\ TypeOK /\ Consumed' \subseteq Consumed
  BY <1>1, <1>2 DEF Inv, TypeOK, Consumed
<1>4. CASE ~window_active
  <2>1. Held' = {} /\ Consumed' = {} /\ HiddenAreTorn'
    BY <1>1, <1>2, <1>3, <1>4 DEF Inv, UnheardAreTorn, HiddenAreTorn, Held, HeldByActive
  <2> QED  BY <1>1, <1>2, <1>4, <2>1
           DEF Inv, ModifiersAgree, UnheardAreTorn, ModifiersWereSent, OneKeyOneWay
<1>5. CASE window_active
  <2>1. /\ held_modifiers' = now
        /\ \A c \in Console : c # active => guest'[c] = guest[c]
        /\ active # None
             => guest'[active] = (guest[active] \union ((now \ held_modifiers) \intersect Forwarded))
                                   \ ((held_modifiers \ now) \intersect Forwarded)
    <3>1. (now \ held_modifiers) \intersect Forwarded \in SUBSET Code
      BY DEF Code
    <3>2. /\ held_modifiers' = now
          /\ SendToActive((now \ held_modifiers) \intersect Forwarded,
                          (held_modifiers \ now) \intersect Forwarded)
      BY <1>1, <1>5 DEF SyncModifiers
    <3> HIDE DEF now
    <3> QED  BY <1>3, <3>1, <3>2, Sending
  <2>2. HiddenAreTorn'
    BY <1>1, <1>2, <2>1 DEF Inv, HiddenAreTorn
  <2>3. Held' \subseteq (Held \ ((held_modifiers \ now) \intersect Forwarded))
                        \union (now \intersect Forwarded)
    BY <1>1, <1>2, <2>1 DEF Held, HeldByActive
  <2>4. Forwarded \intersect Key = {}
    BY KeyAssumption DEF Forwarded
  <2>5. ModifiersAgree' /\ UnheardAreTorn'
    BY <1>1, <1>3, <1>5, <2>1, <2>3, <2>4 DEF Inv, ModifiersAgree, UnheardAreTorn
  <2>6. Held' \intersect Forwarded \subseteq now
    BY <2>3 DEF Inv, ModifiersWereSent
  <2>7. ASSUME NEW i \in keys
        PROVE  \/ NameOf(i)' = NameOf(i) /\ CodeOf(i)' = CodeOf(i)
               \/ i \in Homonyms /\ Homonyms \subseteq torn'
    <3>1. i \in Key
      BY <1>3
    <3>2. CASE i \notin Homonyms
      BY <3>1, <3>2, Codes
    <3>3. CASE i \in Homonyms /\ m = "shift"
      <4>1. i \in {MainRow, Keypad}
        BY <3>1, <3>3, Codes
      <4>2. RenamedBy(m) = Homonyms
        BY <3>3, <4>1 DEF RenamedBy
      <4> QED  BY <1>2, <3>3, <4>2
    <3>4. CASE i \in Homonyms /\ m # "shift" /\ held_modifiers = modifiers
      BY <1>1, <2>1, <3>4 DEF NameOf, CodeOf, ScancodeForHost
    <3>5. CASE i \in Homonyms /\ Homonyms \subseteq torn
      BY <1>2, <3>5
    <3> QED  BY <1>5, <3>2, <3>3, <3>4, <3>5 DEF Inv, ModifiersAgree
  <2>8. ASSUME NEW i \in keys, NameOf(i) \notin torn' \/ CodeOf(i) \notin torn'
        PROVE  NameOf(i)' = NameOf(i) /\ CodeOf(i)' = CodeOf(i)
    BY <1>3, <2>7, <2>8, Codes
  <2>9. Held' \subseteq HeldByUser'
    <3> SUFFICES ASSUME NEW x \in Held'
                 PROVE  x \in HeldByUser'
      OBVIOUS
    <3>1. CASE x \in Forwarded
      BY <1>1, <2>6, <3>1 DEF HeldByUser
    <3>2. CASE x \in Key
      <4>1. x \in Held \intersect Key /\ x \notin torn'
        BY <2>3, <2>4, <3>2 DEF Held
      <4>2. PICK i \in keys : x = CodeOf(i)
        BY <4>1, KeysOfHeld
      <4>3. x = CodeOf(i)'
        BY <2>8, <4>1, <4>2
      <4> QED  BY <1>1, <4>3 DEF HeldByUser, CodesDown, CodeOf
    <3>3. CASE x \notin Key \union Forwarded
      <4>1. x \in Held /\ x \in HeldByUser
        BY <2>3, <3>3 DEF Inv
      <4>2. x \notin CodesDown
        BY <1>3, <3>3, Codes DEF CodesDown, CodeOf
      <4> QED  BY <1>1, <3>3, <4>1, <4>2 DEF HeldByUser
    <3> QED  BY <3>1, <3>2, <3>3
  <2>10. Consumed' \subseteq Names'
    <3> SUFFICES ASSUME NEW n \in Consumed'
                 PROVE  n \in Names'
      OBVIOUS
    <3>1. n \notin torn' /\ n \in Consumed
      BY <1>3 DEF Consumed
    <3>2. PICK i \in keys : n = NameOf(i)
      BY <3>1 DEF Inv, Names
    <3>3. n = NameOf(i)'
      BY <2>8, <3>1, <3>2
    <3> QED  BY <1>1, <3>3 DEF Names
  <2>11. OneKeyOneWay'
    <3> SUFFICES ASSUME NEW i \in keys', NameOf(i)' \in Consumed', CodeOf(i)' \in Held'
                 PROVE  \E j \in keys' \ {i} : NameOf(j)' = NameOf(i)'
      BY DEF OneKeyOneWay
    <3>1. i \in keys /\ i \in Key /\ NameOf(i)' \notin torn'
      BY <1>1, <1>3 DEF Consumed
    <3>2. NameOf(i)' = NameOf(i) /\ CodeOf(i)' = CodeOf(i)
      BY <2>7, <3>1, Codes
    <3>3. CodeOf(i) \in Held /\ NameOf(i) \in Consumed
      BY <1>3, <2>3, <2>4, <3>1, <3>2, Codes
    <3>4. PICK j \in keys \ {i} : NameOf(j) = NameOf(i)
      BY <3>1, <3>3 DEF Inv, OneKeyOneWay
    <3>5. NameOf(j)' = NameOf(j)
      BY <2>8, <3>1, <3>2, <3>4
    <3> QED  BY <1>1, <3>2, <3>4, <3>5
  <2> QED  BY <1>2, <2>1, <2>2, <2>5, <2>6, <2>9, <2>10, <2>11 DEF Inv, ModifiersWereSent
<1> QED  BY <1>4, <1>5

----------------------------------------------------------------------------
(* The mouse, and what happens unasked.                                    *)

(* the mouse, with what its clicks open and close,                         *)
LEMMA MouseNext ==
  ASSUME Inv, TypeOK', MouseStep
  PROVE  Inv'
<1>1. /\ UNCHANGED <<keys, modifiers, window_active, held_modifiers, consumed_keys>>
      /\ button' = button \/ ReleaseButton \/ PressButton
  BY DEF MouseStep, PressButton, ReleaseButton, Click, ClickTab, ClickCloses, ClickFilter,
         ClickOpensMenu, ClickTogglesSwitcher, ClickRename, ClickAway, SendCtrlAltDel, host
<1>2. /\ guest \in [Console -> SUBSET Code] /\ active \in Console \union {None}
      /\ TornTogether /\ TypeOK
  BY DEF Inv, TypeOK
<1>3. ASSUME NEW what, Tear(what)
      PROVE  TornTogether' /\ torn \subseteq torn' /\ what \subseteq torn'
  BY <1>2, <1>3, TearKeeps
<1>4. ASSUME NEW released, SendToActive({}, released)
      PROVE  /\ \A c \in Console : guest'[c] \subseteq guest[c]
             /\ active # None => guest'[active] = guest[active] \ released
  <2>1. {} \in SUBSET Code
    OBVIOUS
  <2>2. /\ \A c \in Console : c # active => guest'[c] = guest[c]
        /\ active # None => guest'[active] = (guest[active] \union {}) \ released
    BY <1>2, <1>4, <2>1, Sending
  <2>3. (guest[active] \union {}) \ released = guest[active] \ released
    OBVIOUS
  <2>4. ASSUME NEW c \in Console
        PROVE  guest'[c] \subseteq guest[c]
    <3>1. CASE c = active
      BY <2>2, <2>3, <3>1, ConsoleAssumption
    <3>2. CASE c # active
      BY <2>2, <3>2
    <3> QED  BY <3>1, <3>2
  <2> QED  BY <2>2, <2>3, <2>4
(* Nothing is pressed, and the same console is shown. *)
<1>5. ASSUME NEW released, SendToActive({}, released), UNCHANGED active,
             torn \subseteq torn'
      PROVE  HiddenAreTorn' /\ Held' \subseteq Held
  BY <1>2, <1>4, <1>5, GuestsLose
<1>6. ASSUME torn \subseteq torn' PROVE Consumed' \subseteq Consumed
  BY <1>1, <1>6 DEF Consumed
<1>7. ASSUME UNCHANGED torn PROVE TornTogether'
  BY <1>2, <1>7 DEF TornTogether
<1>8. CASE PressButton
  <2>1. /\ window_active /\ button' /\ focus' = "console" /\ UNCHANGED <<active, torn>>
        /\ SendToActive({"button"}, {}) /\ {"button"} \in SUBSET Code
    BY <1>8 DEF PressButton, tabs, Code
  <2>2. /\ \A c \in Console : c # active => guest'[c] = guest[c]
        /\ active # None => guest'[active] = (guest[active] \union {"button"}) \ {}
    BY <1>2, <2>1, Sending
  <2>3. HiddenAreTorn' /\ Held' \subseteq Held \union {"button"}
    BY <2>1, <2>2 DEF Inv, HiddenAreTorn, Held, HeldByActive
  <2> QED  BY <1>1, <1>6, <1>7, <2>1, <2>3, NothingNew
<1>9. CASE ReleaseButton
  <2>1. SendToActive({}, {"button"}) /\ UNCHANGED <<active, torn, focus>>
    BY <1>9 DEF ReleaseButton, tabs
  <2>2. HiddenAreTorn' /\ Held' \subseteq Held
    BY <1>5, <2>1
  <2>3. "button" \notin Held'
    BY <1>2, <1>4, <2>1 DEF Held, HeldByActive
  <2> QED  BY <1>1, <1>6, <1>7, <2>1, <2>2, <2>3, NothingNew
<1>10. ASSUME UNCHANGED <<button, torn>>, HiddenAreTorn', Held' \subseteq Held,
              focus' = focus \/ focus' = "console"
       PROVE  Inv'
  BY <1>1, <1>6, <1>7, <1>10, ButtonHeld, NothingNew
<1>11. CASE ClickOpensMenu \/ ClickTogglesSwitcher \/ ClickAway \/ SendCtrlAltDel
  <2>1. /\ UNCHANGED <<button, torn, active>> /\ \E released : SendToActive({}, released)
        /\ focus' = focus \/ focus' = "console"
    BY <1>11 DEF ClickOpensMenu, ClickTogglesSwitcher, ClickAway, SendCtrlAltDel,
                 FocusAfterPress, Click, host, tabs
  <2> QED  BY <1>5, <1>10, <2>1
<1>12. ASSUME NEW c \in Console, ClickCloses(c)
       PROVE  Inv'
  <2>1. /\ c \in open /\ CloseTab(c, AfterSending({}, {"button"}))
        /\ UNCHANGED <<button, torn>> /\ (focus' = focus \/ focus' = "console")
    BY <1>12 DEF ClickCloses, FocusAfterPress, Click, host
  <2>2. /\ AfterSending({}, {"button"}) \in [Console -> SUBSET Code]
        /\ \A d \in Console : AfterSending({}, {"button"})[d] \subseteq guest[d]
    BY <1>2 DEF AfterSending
  <2>3. HiddenAreTorn' /\ Held' \subseteq Held
    BY <2>1, <2>2, CloseLoses
  <2> QED  BY <1>10, <2>1, <2>3
<1>13. ASSUME NEW c \in Console, ClickTab(c)
       PROVE  Inv'
  <2>1. /\ c \in open /\ SendToActive({}, {"button"}) /\ active' = c /\ focus' = "console"
        /\ Tear(LeftBehind(c)) /\ UNCHANGED button
    BY <1>13 DEF ClickTab, Click, host
  <2>2. TornTogether' /\ torn \subseteq torn' /\ LeftBehind(c) \subseteq torn'
    BY <1>3, <2>1
  <2>3. HiddenAreTorn' /\ Held' \subseteq Held
    BY <1>4, <2>1, <2>2, SwitchLoses
  <2> QED  BY <1>1, <1>6, <2>1, <2>2, <2>3, ButtonHeld, NothingNew
<1>14. CASE ClickFilter \/ ClickRename
  <2>1. /\ SendToActive({}, {"button"}) /\ UNCHANGED <<active, button>> /\ Tear(Outstanding)
    BY <1>14 DEF ClickFilter, ClickRename, Click, host, tabs
  <2>2. TornTogether' /\ torn \subseteq torn' /\ Outstanding \subseteq torn'
    BY <1>3, <2>1
  <2>3. HiddenAreTorn' /\ Held' \subseteq Held
    BY <1>5, <2>1, <2>2
  <2>4. Held' \intersect Key = {} /\ Consumed' = {}
    <3>1. Held \intersect Key \subseteq Outstanding
      BY DEF Held, Outstanding
    <3>2. Held' \intersect torn' = {}
      BY DEF Held
    <3> QED  BY <1>1, <2>2, <2>3, <3>1, <3>2 DEF Consumed, Outstanding
  <2> QED  BY <1>1, <1>6, <2>1, <2>2, <2>3, <2>4, ButtonHeld, NothingNew
<1> QED  BY <1>8, <1>9, <1>11, <1>12, <1>13, <1>14 DEF MouseStep

(* and other windows, and consoles that come and go.                       *)
LEMMA SystemNext ==
  ASSUME Inv, TypeOK', SystemStep
  PROVE  Inv'
<1>1. UNCHANGED <<keys, modifiers, button, held_modifiers, consumed_keys>>
  BY DEF SystemStep, Connected, ConnectionLost, WindowDeactivates, WindowActivates, host
<1>2. /\ guest \in [Console -> SUBSET Code] /\ active \in open \union {None}
      /\ open \subseteq Console /\ TornTogether
  BY DEF Inv, TypeOK
<1>3. ASSUME NEW what, Tear(what)
      PROVE  TornTogether' /\ torn \subseteq torn' /\ what \subseteq torn'
  BY <1>2, <1>3, TearKeeps
<1>4. ASSUME torn \subseteq torn' PROVE Consumed' \subseteq Consumed
  BY <1>1, <1>4 DEF Consumed
<1>5. ASSUME UNCHANGED <<guest, active>>, torn \subseteq torn'
      PROVE  HiddenAreTorn' /\ Held' \subseteq Held
  BY <1>2, <1>5, GuestsLose
<1>6. ASSUME NEW c \in Console, Connected(c)
      PROVE  Inv'
  <2>1. /\ active' = c /\ focus' = "console" /\ UNCHANGED <<guest, window_active>>
        /\ Tear(HeldByActive \union CodesDown)
    BY <1>6 DEF Connected, host
  <2>2. TornTogether' /\ torn \subseteq torn' /\ HeldByActive \subseteq torn'
    BY <1>3, <2>1
  <2>3. active = None \/ guest'[active] \subseteq torn'
    BY <2>1, <2>2 DEF HeldByActive
  <2>4. HiddenAreTorn' /\ Held' \subseteq Held
    BY <1>2, <2>1, <2>2, <2>3, GuestsLose
  <2> QED  BY <1>1, <1>4, <2>1, <2>2, <2>4, ButtonHeld, NothingNew
<1>7. ASSUME NEW c \in Console, ConnectionLost(c)
      PROVE  Inv'
  <2>1. c \in open /\ CloseTab(c, guest) /\ UNCHANGED <<torn, focus, window_active>>
    BY <1>7 DEF ConnectionLost, host
  <2>2. HiddenAreTorn' /\ Held' \subseteq Held /\ TornTogether'
    BY <1>2, <2>1, CloseLoses DEF TornTogether
  <2> QED  BY <1>1, <1>4, <2>1, <2>2, ButtonHeld, NothingNew
<1>8. CASE WindowDeactivates
  <2>1. /\ ~window_active' /\ UNCHANGED <<guest, active, focus>>
        /\ Tear(HeldByActive \union consumed_keys)
    BY <1>8 DEF WindowDeactivates, tabs
  <2>2. TornTogether' /\ torn \subseteq torn' /\ HeldByActive \union consumed_keys \subseteq torn'
    BY <1>3, <2>1
  <2>3. Held' = {} /\ Consumed' = {}
    BY <1>1, <2>1, <2>2 DEF Held, HeldByActive, Consumed
  <2> QED  BY <1>1, <1>5, <2>1, <2>2, <2>3, NothingNew
<1>9. CASE WindowActivates
  <2>1. /\ window_active' /\ UNCHANGED <<guest, active, focus>>
        /\ Tear(IF modifiers = held_modifiers THEN {} ELSE Homonyms)
    BY <1>9 DEF WindowActivates, tabs
  <2>2. /\ TornTogether' /\ torn \subseteq torn'
        /\ held_modifiers = modifiers \/ Homonyms \subseteq torn'
    BY <1>3, <2>1
  <2> QED  BY <1>1, <1>4, <1>5, <2>1, <2>2, ButtonHeld, NothingNew
<1> QED  BY <1>6, <1>7, <1>8, <1>9 DEF SystemStep

----------------------------------------------------------------------------
(* The theorems.                                                           *)

(* The initial states satisfy the invariant.                               *)
LEMMA InvInit == Init => Inv
<1> SUFFICES ASSUME Init PROVE Inv
  OBVIOUS
<1>1. TypeOK
  BY DEF Init, TypeOK
<1>2. Held = {} /\ Consumed = {} /\ TornTogether
  BY DEF Init, Held, HeldByActive, Consumed, TornTogether
<1>3. HiddenAreTorn
  BY DEF Init, HiddenAreTorn
<1> QED  BY <1>1, <1>2, <1>3
         DEF Inv, Init, ModifiersAgree, UnheardAreTorn, ModifiersWereSent, OneKeyOneWay

(* Every step keeps the invariant.                                         *)
LEMMA InvNext == Inv /\ [Next]_vars => Inv'
<1> SUFFICES ASSUME Inv, [Next]_vars PROVE Inv'
  OBVIOUS
<1>1. TypeOK'
  BY TypeNext DEF Inv
<1>2. CASE UNCHANGED vars
  BY <1>2 DEF vars, Inv, TypeOK, HiddenAreTorn, TornTogether, ModifiersAgree, UnheardAreTorn,
              ModifiersWereSent, OneKeyOneWay, Held, HeldByActive, Consumed, Names, HeldByUser,
              CodesDown, CodeOf, NameOf, ScancodeForHost
<1> QED  BY <1>1, <1>2, PressNext, DialogNext, ReleaseNext, ModifierNext, MouseNext, SystemNext
         DEF Next

(* The invariant holds in every reachable state.                           *)
LEMMA Invariance == Spec => []Inv
BY InvInit, InvNext, PTL DEF Spec

(* The state keeps the types of the fields of IncusManager.                *)
THEOREM TypeCorrect == Spec => []TypeOK
<1>1. Inv => TypeOK
  BY DEF Inv
<1> QED  BY <1>1, Invariance, PTL

(* No guest holds, and inm remembers as consumed, what the user does not   *)
(* hold down, but for what was torn from its release (send_key,            *)
(* sync_modifiers, consumed_keys).                                         *)
THEOREM NothingGetsStuck == Spec => []NoStuckInput
<1>1. Inv => NoStuckInput
  <2> SUFFICES ASSUME Inv PROVE NoStuckInput
    OBVIOUS
  <2>1. ASSUME NEW c \in Console
        PROVE  guest[c] \ torn \subseteq (IF c = active THEN HeldByUser ELSE {})
    <3>1. CASE c = active
      BY <3>1, ConsoleAssumption DEF Inv, Held, HeldByActive
    <3>2. CASE c # active
      BY <3>2 DEF Inv, HiddenAreTorn
    <3> QED  BY <3>1, <3>2
  <2>2. consumed_keys \ torn \subseteq {NameOf(k) : k \in keys}
    BY DEF Inv, Consumed, Names
  <2> QED  BY <2>1, <2>2 DEF NoStuckInput
<1> QED  BY <1>1, Invariance, PTL

=============================================================================
