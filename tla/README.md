# inm in TLA+

`inm` is a desktop program for the consoles of Incus virtual machines: a tree of
instances on the left, tabs with SPICE consoles on the right. This directory
models the parts of it in which several threads, tasks and daemons act on shared
state, checks them with TLC, and proves the safety of ten of them, and two
refinements, with TLAPS.

Paths below are relative to the repository; `main.rs` and so on are in its `src/`.

## The system

Three schedulers run side by side.

* The **UI thread** (gpui). `IncusManager` in `main.rs` is its state. Handlers
  run to completion; an asynchronous task of the UI (`cx.spawn_in`) runs from one
  `.await` to the next. Everything in `IncusManager` is only touched here, so
  nothing is torn, but everything can have changed across an `.await`.
* The **tokio runtime** (`spice_session::runtime()`). Requests to the daemon, the
  tunnel of each console, the reader of the event stream. Several worker threads.
* **One GLib thread** for every SPICE session: its signals, a frame timer and an
  input pump per session.

| Component | State | Operations | What makes it hard | What makes it correct |
|---|---|---|---|---|
| Console tabs (`main.rs`) | `tabs`, `active`, `connecting`, one task per attempt | open, focus, close, switch remote, takeover prompt, frame pump | attempts cannot be cancelled; tasks name their tab by VM | one tab per VM, shown tab is open and the only one that converts, groups contiguous, nothing leaked, dead tabs close |
| Frame pacing (`spice_session.rs`, `main.rs`) | `visible`, `in_flight` (atomics), `dirty`, a channel of images | frame timer, pump, `set_active`, `render` | two threads, two flags, each load and store on its own | no lost wakeup, no lost damage, the shown console catches up |
| Frame retirement (`main.rs`) | `retired_frames`, `render_seq`, the atlas | deliver, retire, release, close, switch | the GPU is one draw behind | nothing destroyed in use, nothing leaked |
| Console session (`spice_session.rs`) | the tunnel's tasks and socket, the session and its timers, the handle | `start_console`, accept loop, pumps, `Drop`, build, disconnect | give-up at any stage, from any thread; a 20 s timeout | everything goes away, a dropped console is noticed |
| Instance list (`main.rs`, `incus.rs`) | `vms`, `remote_epoch`, `event_task`, readers under way | refresh, watchdog, event listener, switch remote | answers out of order, streams that break or fall silent | the list converges; no change is missed; no event of an old remote is acted on |
| Status messages (`main.rs`) | `messages`, one timer per notice | push, clear, expire | three parties remove from one list | order, identity, life of a notice |
| Keyboard and mouse (`main.rs`, `ui/console.rs`, `scancode/mod.rs`) | `consumed_keys`, `held_modifiers`, focus, overlay | key down/up, modifiers, buttons, shortcuts | press and release go to different places | nothing is stuck in a guest |
| Input pump (`main.rs`, `spice_session.rs`) | the channel, pending motion, button mask, mouse mode, last position | pointer, wheel and tap handlers; the 4 ms tick | a tick falls between two events of one handler; motion is collapsed; the mode changes | order, nothing lost but superseded motion, clicks where they were made, drags stay drags |
| Palette, menus, dialogs (`main.rs`, `ui/overlays.rs`, `ui/chrome.rs`) | `overlay`, drafts, highlight, filter, `grouped`, focus | open, type, choose, commit, dismiss | the list changes underneath; tasks come back to another dialog; clicks go through | dialogs are the user's, none loads for ever, Enter takes what was highlighted |
| Power actions, rename, details (`main.rs`, `incus.rs`) | a task each, its request, its operation and round | request, wait in rounds, report | every request looks up the remote anew; the wait is cut into rounds | each is reported, and as it went |
| Remote configuration (`incus_remote.rs`) | the current remote, the resolved ones | `current`, `switch_to` | shared by all requests; the configuration is edited meanwhile | a switch that fails changes nothing; in Operations, tabs and list |
| Input sources (`input_source.rs`, macOS) | the displaced source | switch, restore | retain counts | *planned* |
| Scancode tables, chrome, theme, packaging | data, layout, build scripts | | | not modelled |

They interact as follows. `switch_remote` acts on the tabs, the list, the
messages and the textures at once. `connect_console` calls `start_console`, whose
handle the tab owns; the tab's removal drops it (`ConsoleTabs` -> `ConsoleSession`).
The frame timer of a session sends to the pump of its tab, which retires the
image it replaces (`FramePacing` -> `FrameRetirement`). `set_active` tells every
budget whether it is visible (`ConsoleTabs` -> `FramePacing`). A read of the list
clears errors (`InstanceList` -> `StatusMessages`). A tab that comes or goes
changes where input is sent (`ConsoleTabs` -> `InputForwarding`); what is sent
goes through the pump's channel, and ends with the handle of the session
(`InputForwarding` -> `InputPump` -> `ConsoleSession`). A click in a menu or a
dialog begins a task (`Overlay` -> `Operations`), whose report is a message and
whose answer comes back to whatever dialog is up by then. A new list moves the
rows under the palette and the menus (`InstanceList` -> `Overlay`).

## Modules

Each component has a module `M`, its TLC instance `MCM` with the `.cfg` files, and,
where something is proved, `MProofs`. In a module the mutants (a plausible mistake
in an operator, named for it and commented "Mutant:") stand before the operator
they vary; they are not part of the specification.

**ConsoleTabs.** `tabs`, `active`, `connecting`, `current` are the fields of
`IncusManager` (and the current remote). `task[a]` is the a-th task of
`connect_console`; its stages are the stretches between its awaits: `Open` ->
`AskDaemon` -> `DaemonIsBusy` / `Fail` / `Connected` -> `PumpFrame`* ->
`PumpFindsNoTab` / `PumpEnds`. `session[a]` is `alive`, the queued `Shutdown` and
the frame sender as the pump can tell. `FirstTab`, `InsertPos`, `SetActive`,
`CloseTab` are the code's searches, including that `position` and `find` give the
first match and that a lookup is by VM. `orphaned` is history: the attempts on each
VM that the last switch of the remote found pending. No action reads it.

**FramePacing.** One step per load or store of a shared flag. The producer goes
`idle` -> `loaded` (visible seen) -> `built` -> `taken` -> sent; `stores` is what
the UI's `set_active` has still to write. They are written one at a time in any
order, `set_visible`'s own among them: more than the code can do, so that what holds
does not rest on that order. A surface
is known by its number of changes, an image by the surface it shows. Flags are
stored with `Relaxed`; each is read and written as one atomic step, and the
properties do not rest on an order between the two beyond the one the steps give.
**ConsoleScreen** is what the user may rely on: a repaint shows the surface as it
is or was since the last repaint, of the console that is shown. `Screen` in
FramePacing maps its `painted` to what a tab has painted; flags, channel and
threads are hidden.

**FrameRetirement.** `Render` is `render_seq += 1`, the release loop and the scene
it builds; `Draw` and `FenceSignals` are the renderer as the comments of
`release_retired_frames` describe it (external): it waits for the previous fence
before it records the next draw.

**ConsoleSession.** One session from `start_console` to its last task. `start` is
the caller's progress, `proxy` how far `Drop` has got, `accepted` the pump the
accept loop has spawned and not listed yet, `aborted` what an `AbortHandle` has
been used on. The session is requested, built, connected, and torn down on the
GLib thread.

**InstanceList.** `reader[i]` is a read of the list: the watchdog is one, the rest
are calls of `refresh`. `listener[e]` is the tokio task of epoch `e`, `changes[e]`
the queue to its half on the UI thread, `hearing[e]` whether that half still
listens. A daemon's instances are the number of changes made to them. `spoilt` is
history: a reader has failed or been overtaken.

**StatusMessages.** `messages` with ids; `timers` are the notices whose timer has
not fired. `last` is history. Here and in ConsoleSession the names that every module
has, as `MessagesInit` or `SessionSpec`, carry the module's, because the module of
their theorems extends both together with Operations.

**InputForwarding.** `guest[c]` is what the guest of console `c` has been told is
down. A key press goes to the listener of `focus`, from there through `overlay`,
Cmd and `handle_shortcut`, and then to `active`. `torn` is history: the keys whose
press has been separated from its release (by a switch of the tab, the focus,
another window, a repeat under another Cmd, or Shift renaming the key). The two
keys that share a name are torn together, as the code cannot tell them apart. Clicks
reach what is beneath the palette and the remote switcher (`LetsThrough`): the left
button closes them on its way, and with the palette gives the keyboard back
(`FocusAfterPress`); the right button on a row puts the menu in the palette's place
and leaves the keyboard where it was.

**InputPump.** `sending` is what a handler has still to send: `PointerMoves`,
`PressButton`, `TurnWheel`, `CapsLockChanges`, `SendCtrlAltDel` are the handlers,
`SendInput` one `send` on the channel, so that a tick may fall in between. A tick
goes `idle` -> `draining` (`DrainMotion`, `DrainOther`, `DrainShutdown`, one event
each) -> `delivering` (`DeliverMotion` .. `DeliverKey`) -> `idle`. `guest` is the
other end: where its pointer is, the mask it has seen, the buttons it was told are
down; in server mode it is moved by displacements. A place is one coordinate: the
code treats the two alike. `synced` is history. **InputLink** is what the pump
implements: a queue that loses nothing but a motion another one follows, what was
sent before there is a channel, and what Shutdown overtakes. `Link` maps its queue
to `actions`, the pending motion and the channel, in this order.

**Operations.** `task[t]` is one power action, rename or look at the details, from
`Begin` to `Report`; a request is asked of the remote that is current when it is
made (`Ask`), answered by the daemon it went to, and `wait` is repeated up to
`MaxRounds` times. `operation[t]` is what the daemon has made of it. `resolved` and
`loadable` are the remotes as RemoteCache and as config.yml have them. `spoilt` is
history: a request of the task failed, or went to another daemon.

**Overlay.** `overlay` is the enum of the code with the fields that decide
anything: whose menu, whether the details have come, the draft against the old
name, the palette's matches and selection. `painted` is the list the rows on
screen were made of, which is what a click goes by; `grouped` the cached rows.
`Occluded` tells which overlays keep clicks from what is beneath. The rows of the
palette are given by their order: `RowOf` counts what the stable sort of
`palette_matches` puts in front, `Matches` are the first `MaxRows`. `task[t]` is what
a task under way was begun for; what it does on its way is Operations.

## Runs

| Run | Question | Answer |
|---|---|---|
| `tabs` | do the tab list, the shown tab and the sessions agree in every interleaving of the user, the daemon, GLib and the pumps? | yes |
| `tabs_live` | is there one console of a VM, whatever attempts a switch of the remote has left behind; does a console whose connection is lost leave the tab bar? | one, and one for each of those; yes |
| `pacing` | is a wakeup or damage ever lost; does the shown console catch up, and never go back? | neither is; it does |
| `retirement` | is every texture destroyed, in order, and only when idle? | yes |
| `session` | does everything of a session go away, however it is given up? | yes |
| `list` | is a change missed, or an event of an old remote acted on? | no |
| `list_live` | does the list converge, does an old listener end? | yes |
| `messages` | order, identity and life of the messages | as told |
| `input` | is anything stuck in a guest, or remembered as consumed, but the very keys whose press was torn from its release? | no |
| `pump` | are order, clicks and drags kept, whatever the ticks fall between and whatever the mode is? | yes |
| `operations` | is every action reported, and as it went, however the remote is switched meanwhile? | yes |
| `dialogs` | do menus, dialogs and palette stay the user's over a list that changes and tasks that come back? | yes |

### Further configurations

These check one sentence of the repository each, or a wish a reader may have, that
the code does not keep; TLC ends each of them with a counterexample. They are
not among the runs because they ask no question about the design that the runs
above leave open, but each is a few steps long and worth a look before the code
next to it is changed: `tlc -config <cfg> <module>`.

| Configuration | Property | What the counterexample shows |
|---|---|---|
| MCConsoleTabsPump | `PumpClosesOnlyItsTab` | a pump that ends closes the tab of its VM that was opened since (main.rs:889) |
| MCConsoleTabsRemote | `TabsAreOfCurrentRemote` | an attempt that is pending when the remote is switched inserts its tab afterwards (main.rs:367 against 821) |
| MCConsoleTabsTakeOver | `TakesOverWhatWasAsked` | the takeover prompt of one remote, answered after a switch, forces open the VM of that name on another (main.rs:913) |
| MCFramePacingOwed | `FlagReturnedForPaint` | a repaint that something else asked for returns the flag for an image still in the channel (main.rs:1329); an image too many, nothing lost |
| MCFrameRetirementSwitch | `NothingIsDestroyedInUse` | a switch of the remote destroys textures the GPU may be reading (main.rs:303 against 378) |
| MCConsoleSessionDrop | `DropAbortsEveryPump` | the accept loop lists a pump that `Drop` has gone past (spice_session.rs:228, 383); it ends by itself when the session closes its end |
| MCInstanceListRemote | `ListIsOfCurrentRemote` | a late answer of the previous remote is shown as the list of the new one (main.rs:345) |
| MCInstanceListSilent | `WatchdogKeepsPolling` | a daemon that takes the watchdog's request and never answers stops it (main.rs:35 against 493) |
| MCStatusMessagesFocus | `ErrorsStayUntilRefresh` | a click on a tab clears errors (main.rs:205, 520 against 777) |
| MCStatusMessagesClear | `ClearsOnlyWhatRecovered` | the refresh after a failed power action clears its report (main.rs:560 against 954) |
| MCInputForwardingFurther | `KeyUpReleases` | the release of a shortcut that moved the focus is never seen, and the release of the same key, pressed plainly later, is swallowed in its place (ui/console.rs:39 against 51); with `HoldsRepeat`, so is that of a key that repeats while Cmd is tapped (ui/console.rs:53 against 43) |
| | `ReleasesOnlyWhatWasPressed` | the Escape that closed an overlay is released in the guest (ui/console.rs:51 against 34) |
| | `ModifiersAreReleased` | a modifier held while the tab changes stays down in the first guest (main.rs:1058 against 1084) |
| | `ButtonUpReleases` | a console that connects during a drag gets the release (ui/console.rs:153 against main.rs:1002) |
| | `DialogHasKeyboard` | a console that connects takes the keyboard from a dialog (main.rs:583 against 837) |
| MCOperationsAwait | `AwaitedWhereStarted` | after a switch the next round waits at the new remote, which does not know the operation; it is reported as failed (incus.rs:174) |
| MCOverlayEnter | `EnterTakesWhatWasSeen` | the list is read again after the last paint, and Enter takes the first row of it, which nobody has seen highlighted (main.rs:1214) |
| MCOverlayMenu | `MenuIsOnScreen` | the menu of an instance that leaves the list is not drawn but stays up (ui/overlays.rs:28) |
| MCOverlayKeyboard | `KeyboardIsOnScreen` | a menu takes the palette's place, and what is typed still goes to the palette that is gone (ui/chrome.rs:250) |

MCInputForwardingFurther has five properties of which one is stated and the rest
stand in comments: uncomment one at a time.

### Bounds

* `MaxAttempt`, `MaxDamage`, `MaxFrame`, `MaxRender`, `MaxChange`, `MaxSwitch`,
  `MaxRequest`, `MaxBreak`, `MaxId` and `MaxHandled` cap what would grow for ever. Each appears
  only in the guard of the action that would exceed it.
* Tabs: three VMs, two of one project, three attempts. Three tabs are the fewest
  in which a group can be split; three attempts let a VM be reopened beside
  another. One remote: the invariants that survive a switch are exercised by a
  switch to the same remote, which the switcher offers too. States are compared
  by `View`, all but `orphaned`: no action and no invariant of that run reads it.
  `tabs_live` has no view, two VMs and two attempts: one console that is lost while
  another is shown, or reopened; one attempt that a switch leaves behind while
  another is begun. A third, clicked when the first of two has failed or connected,
  is in MCConsoleTabsOnce.cfg, which takes minutes and is not among the runs:
  `tlc -config MCConsoleTabsOnce.cfg MCConsoleTabs` passes, and `ConsolesUnique`
  is the theorem.
* Pacing: two consoles, one of which changes twice, so that a change can come while
  an image of it is on its way. Retirement: two consoles, four images, five
  repaints: an image can be painted, retired, kept and released while others
  follow. The real constant, 2, is `KEEP_FOR_REPAINTS`.
* Session: two channels, so that one pump copies while the other is being
  accepted; the channels of SPICE do not differ here.
* List: one switch between two remotes, one change of each, one refresh under way
  beside the watchdog's read; two streams that break, fall silent or cannot
  be dialled for the safety run. For liveness no stream breaks: reads still fail,
  overtake each other and go to the remote that was left, which is the same work
  for the watchdog, and more is out of reach.
* Messages: six through a strip of three.
* Input: two consoles, a key of each kind, Shift and Cmd. `torn` is never reset,
  and the invariant claims less the more is torn: the run stops where that is
  more than `MaxTorn` = 3 (`CONSTRAINT FewTorn`), which lets the two keys that
  share a name be torn while Escape, the modifiers and the button are not, or
  those be torn while the keys are not. Control is in the
  module and not in the instances: it is forwarded as Shift is, and kept from the
  palette as Cmd is.
* Pump: four handlers, two places and the border, one button, a wheel of half
  notches that makes up to two clicks. Four handlers are a position to start from,
  a press, a drag and a release, or any other four. Ctrl+Alt+Del is two keys.
* Operations: two remotes, two tasks, two rounds of the ten: one that runs out
  and one that does not. Tasks share nothing but the remotes.
* Dialogs: two instances and two tasks: enough for the list to change under each
  kind of dialog, and for details of one instance to come to a dialog of the other
  or to a second one of the same. The palette has a row for each, so that its cut
  at twelve rows is not exercised; Overlay has it all the same.
* Symmetry is used for VMs of one project and for consoles, in runs without
  liveness properties.

`NoLeakedSession` is about the Shutdown that each way out sends. In Rust a handle that
is dropped takes its sender and its proxy along, so that a session forgotten with its
handle would end all the same, through `DroppedConsoleIsNoticed` of ConsoleSession;
what would leak is a tab put aside with its handle.

`NoStuckInput`, `ReportedAsItWent` and `EnterTakesHighlighted` exempt what `torn`,
`spoilt` and a highlight that is gone stand for: they say that the damage does not spread.
The damage itself is shown by the further configurations above.

`CHECK_DEADLOCK FALSE` is only said of ConsoleSession: a session really ends.

### Fairness

* ConsoleTabs: the GLib loop reads a queued Shutdown and ticks its timer, the UI
  executor polls a pump that is ready (weak). Nothing is asked of the user, the
  daemon or the network.
* FramePacing: a callback that has begun ends (weak). Each loop serves what is
  ready in turn, so a timer, a pump and a repaint that are ready again and again
  are served (strong; other consoles' timers and other events may come in between).
* ConsoleSession: Drop runs to its end, aborted tasks are dropped, the GLib loop
  serves requests, signals and timers, a dial ends one way or the other, and a tab
  whose frames have ended is closed, which is what `tabs_live` shows (weak).
* InstanceList: tasks that can run do, timers fire (weak). `FairSpec` also has a
  daemon answer the watchdog if it is asked again and again (strong); without it
  MCInstanceListSilent shows what happens.
* StatusMessages: a timer that is due fires (weak).
* Operations: tasks that are spawned are polled, a request is answered or fails,
  and a wait is answered at the latest when the `timeout=` it asks for is over
  (weak). That the daemon keeps to it is assumed: the code has no timeout of its
  own for these. Nothing makes an operation end.
* InputForwarding, InputPump and Overlay have no liveness.

## Proofs

`tlapm` checks the theorems below for every value of the constants that satisfies
the named assumptions of the module: constants are disjoint from `None`,
`FirstRemote` is a remote, `ProjectOf` is total, bounds are natural numbers,
`KEEP_FOR_REPAINTS` is at least 2, the wheel's buttons are none of the others,
the list is finite, and the key codes are no modifiers and no button, with Escape
and the shortcuts among them and the two homonyms both there and different, or
neither (`KeyAssumption`: the scancodes of `scancode/keyboard.rs` are distinct).

* `ConsoleTabsProofs`: `TypeOK`, `ActiveIsOpen`, `OnlyShownTabConverts`,
  `ProjectsContiguous`, `NoLeakedSession`. Together they are not
  inductive: closing the first tab of a VM stops *its* session, and for the others
  to keep theirs it must be known who owns what. `Inv` adds `Owned`: a pending or
  streaming task knows its VM, a tab belongs to an attempt that has inserted it, no
  two tabs share a session. `CloseTabKeeps` and `ConnectedKeeps` do the work on
  positions, on top of lemmas on what `RemoveAt` and `InsertAt` do to them; then one
  lemma per group of actions.
* `TabsHavePumps`, in the same module, compares two counts, tabs and pumps of a VM.
  Counting tabs is counting the sessions they own (no two share one), and both
  counts are of sets of attempts. A pump that ends may close another's tab, so
  no pairing of tabs with pumps is kept; that each end takes one pump and one tab, or
  finds no tab, is what `ShownHavePumps` carries through every step.
* `OneConsolePerVm`, in the same module, bounds a count by a mark. The consoles of a VM
  are its attempts under way and the sessions its tabs own, two disjoint finite sets;
  `ConsolesCounted` says that they are no more than the last switch left behind, and
  one if the VM is open or marked. The bound shrinks when the mark goes or the last tab
  closes, and each step that does so takes a console along (`TabsMayGo`, `AttemptEnds`);
  a click adds one only where neither was (`OpenCounts`), and a switch, which counts
  afresh, leaves no tab and no mark (`SwitchCounts`). The other half, that a mark has an attempt on its
  way, is needed for the attempt that fails to be one of those counted.
* `FramePacingProofs`: `TypeOK`, `NoLostWakeup`, `NoLostDamage`. The strengthening is
  that the only console whose debt is still to be cancelled is the shown one, and
  that damage is only flagged once there is some. `ImplementsScreen` is the
  refinement of ConsoleScreen: the invariant it needs orders the images on their
  way: painted, waiting in the tab, in the channel, being built, the surface.
* `FrameRetirementProofs`: `TypeOK`, `NoTextureLeaks`, `QueueInOrder` and, as an action
  property, `RetiredAreReleasedIdle`. The invariant adds that no two tabs share an
  image, that images are numbered, that what is about to be drawn is shown by a tab,
  and the core, `GpuReadsRecent`: an image of the queue the GPU may be reading was let
  go of in this repaint or the last, so that a distance of two repaints is enough.
* `InstanceListProofs`: `TypeOK`, `NoMissedChange` and, as an action property,
  `ActsOnCurrentRemoteOnly`. `ReadersKnow`: what a reader has been told is never ahead
  of the daemon, so that an answer which is not the latest list was overtaken.
  `ListenersKnow`, with `NewsIsCurrent`: the listener of this epoch, and every message
  in its queue, is of the remote that is current. `LaterIsSilent`: a switch finds its
  new epoch with an empty queue and no listener, and so re-establishes the rest.
* `InputForwardingProofs`: `TypeOK` and `NoStuckInput`. The property only bounds what is
  held; to stay true at a release it must be known that a release reaches what the
  press reached. Hence: hidden guests hold only what is torn; `held_modifiers` is what
  the modifiers are, as long as the homonyms are whole (else the name of a key no
  longer tells its scancode); what the console cannot hear the release of is torn;
  and, the core, `OneKeyOneWay`: a key whose name is consumed has not also been
  forwarded, unless another key of that name is down. One lemma per group of actions;
  `ConsumeKeeps` and `ForwardPressKeeps` are the two ways a press can go.
* `InputPumpProofs`: `TypeOK`, `MaskIsButtonsDown` and the refinement
  `ImplementsLink`. The mask of the guest, of the pump and the buttons down are one.
  For the refinement, draining a motion drops the one that was pending, which is the
  neighbour in front of it in the abstract queue; the lemmas on sequences say so.
* `ClickLandsWherePointed`, in the same module, is about all that is on its way: the
  rest of the handler's events, the channel, the pending motion and the actions, as
  one sequence. `AimedRight` says that in it the neighbour in front of a press is the
  motion to where it was made; `NextPressLands`, that a press at its head finds the
  guest there already. Draining removes only a motion in front of another motion, and
  so never the one a press goes by.
* `OperationsProofs`: `TypeOK` and `ReportedAsItWent`. `RoundsLeft`, that a task
  which has still to ask or to hear has a round left, is the strengthening.
* StatusMessages, also in `OperationsProofs`: `MessagesTypeOK`, that the strip is in
  order and not too long, is inductive by itself, and with it goes the action
  property `NoticesLast`. What they need is what `Vec::retain` leaves of a list
  of any length. `Retain` is a recursive function, and `OneByOneExists` and
  `OneByOneStays` say that there is one and what it yields: the elements that stay,
  each once and in order, by way of the positions they had (`Places`). Both are
  inductions over the length. The induction theorems of the library take an operator
  and cannot be used; `AllUpTo` has a set in its place, and rests on the least element
  of a set of naturals, from the well-foundedness of `<`.
* ConsoleSession, in the same module: `SessionTypeOK` and `SocketIsOwned`; and what
  `TunnelIsTakenDown` starts from, `GivenUpIsAborted` and `PumpsAreHeld`: ConsoleProxy
  loses sight of no task it has spawned. (A pump may still be listed after Drop has
  been through the list; see `DropAbortsEveryPump`.) The strengthening says what
  start_console owns at each stage (`StartAndTunnel`), that the tunnel's tasks
  come with the proxy and are aborted first (`TasksAreHeld`), and that the GLib thread
  only answers well once there is a session (`AnswerIsTrue`), so that a handle is only
  handed out for a session that was built, which is part of `SessionTypeOK`.
* `OverlayProofs`: `SidebarIsCurrent`, `LoadingIsFetched`, and the action property
  `DialogsAreTheUsers`. The invariant adds that what is up has one of the forms of the
  enum, with the fields of that form: the actions go by its kind alone. `TypeOK` is
  inductive by itself. `EnterTakesHighlighted` rests on the rows: no two
  instances are in one row (`RowsDiffer`: the one behind has strictly more before
  it), and where there are rows there is a first one (`FirstRow`, from the strict
  subset ordering of finite sets being well-founded).

The inductive invariants of InstanceList, InputForwarding, the clicks and
ConsoleSession were checked by TLC on small instances before they were proved.
`TypeOK` of ConsoleTabs and FramePacing, `OnlyShownTabConverts`, `QueueInOrder`,
`GivenUpIsAborted` and `PumpsAreHeld` are proved and not part of a run.

Only model-checked is every liveness property, and whatever rests on fairness or
ENABLED, which the prover does not do: `DeadTabCloses`, `PaintsLatest`,
`TunnelIsTakenDown`, `SessionEnds`, `DroppedConsoleIsNoticed`, `ListConverges`,
`OldListenersEnd`, `NoticesExpire`, `ActionsAreReported`. The safety properties of the
runs are all theorems.

No module declares a RECURSIVE operator. `SelectSeq` takes an operator and is built
into the prover without a definition, so that StatusMessages has its own `Retain`.

## Plan

Written, in this order: ConsoleTabs and its proofs, FramePacing and its proofs,
FrameRetirement and its proofs, ConsoleSession, InstanceList, StatusMessages,
InputForwarding, InputPump with InputLink, ConsoleScreen, Operations and Overlay,
with the proofs of all that is safety in them.

Next, modules:

1. `EventStreamReader`: the ping, the idle window and the backoff, in InstanceList
   abstracted to "in the end"; shown to implement the listener of InstanceList.
2. `Console`, an abstract specification of what one tab promises (opening, shown,
   lost, closed), and ConsoleTabs with ConsoleSession as its implementation under
   a refinement mapping; a composition of ConsoleTabs, FramePacing and
   FrameRetirement over the same tabs.
3. `InputSource`: the retain balance on macOS.

## Not modelled

Parsing and formatting of JSON and HTTP, TLS and certificates, the scancode and
Dvorak tables, pixel conversion, layout, colours, locale, the folding of tab
groups, the build and the packages: they are data, wording or I/O, and the
repository's own tests cover the tables. The mapping of pointer positions is
arithmetic on reals. gpui, spice-gtk, the GPU and the daemon appear as the code
uses them, marked external in the map.
