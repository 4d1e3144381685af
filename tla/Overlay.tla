------------------------------ MODULE Overlay -------------------------------
(***************************************************************************)
(* The menu or dialog that is up (enum Overlay in src/src/main.rs, drawn by*)
(* src/src/ui/overlays.rs), the sidebar and the keyboard focus, against    *)
(* what happens meanwhile: the list is read again, the remote switched, a  *)
(* console connects and takes the focus, and the tasks the menus have begun*)
(* come back.                                                              *)
(*                                                                         *)
(* The user acts on what was painted last: `painted' is the list that the  *)
(* rows and menus on screen were made of, `vms' the list as it is.  What   *)
(* the tasks do on their way is in Operations.                             *)
(***************************************************************************)
EXTENDS Integers, FiniteSetsExt

CONSTANTS
  Vm,      \* the instances, numbered in the order of the list
  Task,    \* bound: the tasks under way at once
  MaxRows, \* the rows of the palette (12)
  None

ASSUME VmAssumption == Vm \subseteq Nat /\ IsFiniteSet(Vm) /\ None \notin Vm
ASSUME RowsAssumption == MaxRows \in Nat \ {0}

VARIABLES
  vms,     \* IncusManager.vms: the status of each instance, "absent" if not listed
  filter,  \* the instances whose name contains the filter
  grouped, \* IncusManager.grouped: the cached rows of the sidebar
  overlay, \* IncusManager.overlay
  focus,   \* the element with the keyboard
  task,    \* what each task under way was begun for
  painted, \* the list as last painted
  taken    \* history: the instance that the last step took from the palette

vars == <<vms, filter, grouped, overlay, focus, task, painted, taken>>
lists == <<vms, filter, grouped, painted>>

Status == {"absent", "stopped", "running"} \* "stopped": whatever is not running
Draft == {"same", "other", "blank"} \* the new name, trimmed, against the old one

NoOverlay == [kind |-> "none"]
Switcher == [kind |-> "switcher"]
Menu(v, power) == [kind |-> "menu", vm |-> v, power |-> power]
Details(v, loaded) == [kind |-> "details", vm |-> v, loaded |-> loaded]
Rename(v, draft) == [kind |-> "rename", vm |-> v, draft |-> draft]
Palette(query, selected) ==  \* `query': the instances that contain it
  [kind |-> "palette", query |-> query, selected |-> selected]

Overlays ==
  {NoOverlay, Switcher}
    \union {Menu(v, power) : v \in Vm, power \in BOOLEAN}
    \union {Details(v, loaded) : v \in Vm, loaded \in BOOLEAN}
    \union {Rename(v, draft) : v \in Vm, draft \in Draft}
    \union UNION {{Palette(q, s) : s \in q \union {None}} : q \in SUBSET Vm}

TypeOK ==
  /\ {vms, grouped, painted} \subseteq [Vm -> Status]
  /\ filter \subseteq Vm
  /\ overlay \in Overlays
  /\ focus \in {"console", "filter", "palette", "rename"}
  /\ task \in [Task -> {None} \union ({"power", "rename", "details"} \X Vm)]
  /\ taken \in Vm \union {None}

Nothing == [v \in Vm |-> "absent"]

Init ==
  /\ vms = Nothing /\ filter = Vm /\ grouped = Nothing /\ painted = Nothing
  /\ overlay = NoOverlay /\ focus = "console"
  /\ task = [t \in Task |-> None]
  /\ taken = None

----------------------------------------------------------------------------
(* The list and the sidebar.                                               *)

(* regroup, for given rows and filter.                                     *)
Regrouped(list, needle) == [v \in Vm |-> IF v \in needle THEN list[v] ELSE "absent"]

SetVms(list) ==
  /\ vms' = list
  /\ grouped' = Regrouped(list, filter)

(* A read of the list comes back, with whatever it has become.             *)
ListRead ==
  /\ \E list \in [Vm -> Status] : SetVms(list)
  /\ taken' = None
  /\ UNCHANGED <<filter, painted, overlay, focus, task>>

Render ==
  /\ painted # vms
  /\ painted' = vms
  /\ taken' = None
  /\ UNCHANGED <<vms, filter, grouped, overlay, focus, task>>

(* Mutant: the rows are left as the old filter had them.                   *)
FilterKeyLeavesRows ==
  /\ focus = "filter"
  /\ filter' \in SUBSET Vm
  /\ taken' = None
  /\ UNCHANGED <<vms, grouped, painted, overlay, focus, task>>

(* handle_filter_key: a character, a backspace or Escape.                  *)
FilterKey ==
  /\ focus = "filter"
  /\ filter' \in SUBSET Vm
  /\ grouped' = Regrouped(vms, filter')
  /\ taken' = None
  /\ UNCHANGED <<vms, painted, overlay, focus, task>>

----------------------------------------------------------------------------
(* Clicks.  A menu, the details and the rename dialog occlude what is      *)
(* beneath them.  The palette and the remote switcher do not: a left press *)
(* anywhere closes them, and whatever is under the pointer gets it too.    *)

Occluded == overlay.kind \in {"menu", "details", "rename"}

AfterPress ==
  IF overlay.kind \in {"palette", "switcher"} THEN NoOverlay ELSE overlay
FocusAfterPress == IF overlay.kind = "palette" THEN "console" ELSE focus

(* The rows of the sidebar that are on screen.                             *)
Row(v) == ~Occluded /\ v \in filter /\ painted[v] # "absent"

Begin(what, v) ==
  \E t \in Task : task[t] = None /\ task' = [task EXCEPT ![t] = <<what, v>>]

ClickConsole ==
  /\ ~Occluded
  /\ overlay' = AfterPress /\ focus' = "console" /\ taken' = None
  /\ UNCHANGED <<lists, task>>

ClickFilter ==
  /\ ~Occluded
  /\ overlay' = AfterPress /\ focus' = "filter" /\ taken' = None
  /\ UNCHANGED <<lists, task>>

(* A console is opened, or shown, if the instance was painted as running.  *)
ClickRow(v) ==
  /\ Row(v)
  /\ overlay' = NoOverlay
  /\ focus' = IF painted[v] = "running" THEN "console" ELSE FocusAfterPress
  /\ taken' = None
  /\ UNCHANGED <<lists, task>>

(* The click goes on to the row.                                           *)
ClickStart(v) ==
  /\ Row(v) /\ painted[v] = "stopped"
  /\ Begin("power", v)
  /\ overlay' = NoOverlay /\ focus' = FocusAfterPress /\ taken' = None
  /\ UNCHANGED lists

(* With the right button, which closes nothing.                            *)
OpenMenu(v) ==
  /\ Row(v)
  /\ overlay' = Menu(v, FALSE) /\ taken' = None
  /\ UNCHANGED <<lists, focus, task>>

(* The press has closed the switcher by the time the click toggles it.     *)
ToggleSwitcher ==
  /\ ~Occluded
  /\ overlay' = IF AfterPress = Switcher THEN NoOverlay ELSE Switcher
  /\ focus' = FocusAfterPress /\ taken' = None
  /\ UNCHANGED <<lists, task>>

(* A press outside a menu or dialog, or on the cross of the details.  A    *)
(* click on a row of the palette closes it, too, and opens a console.      *)
ClickAway ==
  /\ overlay # NoOverlay
  /\ overlay' = NoOverlay
  /\ focus' = IF overlay.kind \in {"rename", "palette"} THEN "console" ELSE focus
  /\ taken' = None
  /\ UNCHANGED <<lists, task>>

(* switch_remote, when the remote can be resolved: if not, only the press  *)
(* has had an effect.  The click is lost if the switcher is repainted      *)
(* between press and release: that is ClickAway.                           *)
ClickRemote ==
  /\ overlay = Switcher
  /\ overlay' = NoOverlay /\ taken' = None
  /\ vms' = Nothing /\ grouped' = Nothing
  /\ UNCHANGED <<filter, painted, focus, task>>

----------------------------------------------------------------------------
(* The context menu.  It is drawn as long as its instance is listed, and   *)
(* offers what the status it was painted with allows.                      *)

Offered(v) == overlay.kind = "menu" /\ overlay.vm = v /\ painted[v] # "absent"

Hover(v) ==
  /\ Offered(v)
  /\ overlay' = Menu(v, ~overlay.power) /\ taken' = None
  /\ UNCHANGED <<lists, focus, task>>

ClickMenuConsole(v) ==
  /\ Offered(v) /\ painted[v] = "running"
  /\ overlay' = NoOverlay /\ focus' = "console" /\ taken' = None
  /\ UNCHANGED <<lists, task>>

(* Start what does not run; stop or restart what does.                     *)
ClickPower(v) ==
  /\ Offered(v) /\ overlay.power
  /\ Begin("power", v)
  /\ overlay' = NoOverlay /\ taken' = None
  /\ UNCHANGED <<lists, focus>>

(* begin_rename                                                            *)
ClickRename(v) ==
  /\ Offered(v) /\ painted[v] # "running"
  /\ overlay' = Rename(v, "same") /\ focus' = "rename" /\ taken' = None
  /\ UNCHANGED <<lists, task>>

(* show_details                                                            *)
ClickDetails(v) ==
  /\ Offered(v)
  /\ Begin("details", v)
  /\ overlay' = Details(v, FALSE) /\ taken' = None
  /\ UNCHANGED <<lists, focus>>

----------------------------------------------------------------------------
(* The dialogs' keys, which only the focused element hears.                *)

(* Escape in the console: dismiss_overlay.                                 *)
DismissOverlay ==
  /\ focus = "console" /\ overlay # NoOverlay
  /\ overlay' = NoOverlay /\ taken' = None
  /\ UNCHANGED <<lists, focus, task>>

CommandF ==
  /\ focus = "console"
  /\ focus' = "filter" /\ taken' = None
  /\ UNCHANGED <<lists, overlay, task>>

OpenPalette ==
  /\ focus = "console"
  /\ overlay' = Palette(Vm, None) /\ focus' = "palette" /\ taken' = None
  /\ UNCHANGED <<lists, task>>

Renaming == focus = "rename" /\ overlay.kind = "rename"

EditDraft ==
  /\ Renaming
  /\ \E draft \in Draft : overlay' = Rename(overlay.vm, draft)
  /\ taken' = None
  /\ UNCHANGED <<lists, focus, task>>

(* Escape, or Enter with a name that is blank or the old one.              *)
CancelRename ==
  /\ Renaming
  /\ overlay' = NoOverlay /\ focus' = "console" /\ taken' = None
  /\ UNCHANGED <<lists, task>>

CommitRename ==
  /\ Renaming /\ overlay.draft = "other"
  /\ Begin("rename", overlay.vm)
  /\ overlay' = NoOverlay /\ focus' = "console" /\ taken' = None
  /\ UNCHANGED lists

----------------------------------------------------------------------------
(* The palette.                                                            *)

Choosing == focus = "palette" /\ overlay.kind = "palette"

(* palette_matches: the listed instances that contain the query, the first *)
(* MaxRows of them; running ones first, else in the order of the list.     *)
Found(list) == {v \in overlay.query : list[v] # "absent"}

Before(list, v, w) ==
  \/ list[v] = "running" /\ list[w] # "running"
  \/ list[v] = list[w] /\ v < w

RowOf(list, v) == Cardinality({w \in Found(list) : Before(list, w, v)}) + 1

Matches(list) == {v \in Found(list) : RowOf(list, v) <= MaxRows}

AtRow(list, row) == CHOOSE v \in Matches(list) : RowOf(list, v) = row

(* The highlighted row: the selected instance if it is still there, or the *)
(* first row.                                                              *)
Current(list) ==
  IF overlay.selected \in Matches(list) THEN RowOf(list, overlay.selected) ELSE 1

Select(row) ==
  overlay' = [overlay EXCEPT
    !.selected = IF \E v \in Matches(vms) : RowOf(vms, v) = row
                 THEN AtRow(vms, row) ELSE None]

(* Down and Ctrl-N, up and Ctrl-P, Cmd-P.                                  *)
Move ==
  /\ Choosing
  /\ LET row == Current(vms)
         last == Max({1, Cardinality(Matches(vms))})
     IN  \/ Select(Min({row + 1, last}))
         \/ Select(Max({row - 1, 1}))
         \/ Select(IF row >= last THEN 1 ELSE row + 1)
  /\ taken' = None
  /\ UNCHANGED <<lists, focus, task>>

(* Mutant: the selection is kept, though it may not contain the query.     *)
EditQueryKeepsSelection ==
  /\ Choosing
  /\ \E query \in SUBSET Vm :
       /\ query \subseteq overlay.query \/ overlay.query \subseteq query
       /\ overlay' = Palette(query, overlay.selected)
  /\ taken' = None
  /\ UNCHANGED <<lists, focus, task>>

(* A character, a backspace, or Ctrl-U.                                    *)
EditQuery ==
  /\ Choosing
  /\ \E query \in SUBSET Vm :
       /\ query \subseteq overlay.query \/ overlay.query \subseteq query
       /\ overlay' = Palette(query, None)
  /\ taken' = None
  /\ UNCHANGED <<lists, focus, task>>

Take(v) ==
  /\ overlay' = NoOverlay /\ focus' = "console" /\ taken' = v
  /\ UNCHANGED <<lists, task>>

(* Mutant: the first of the list rather than the first row.                *)
EnterTakesFirstListed ==
  /\ Choosing /\ Matches(vms) # {}
  /\ Take(IF overlay.selected \in Matches(vms) THEN overlay.selected
          ELSE Min(Matches(vms)))

(* The console of what runs is opened; for what does not, there is an      *)
(* error message.                                                          *)
Enter ==
  /\ Choosing /\ Matches(vms) # {}
  /\ Take(IF overlay.selected \in Matches(vms) THEN overlay.selected
          ELSE AtRow(vms, 1))

ClosePalette ==
  /\ Choosing
  /\ overlay' = NoOverlay /\ focus' = "console" /\ taken' = None
  /\ UNCHANGED <<lists, task>>

----------------------------------------------------------------------------
(* What comes by itself.                                                   *)

(* A console connects (connect_console).                                   *)
Connected ==
  /\ focus' = "console" /\ taken' = None
  /\ UNCHANGED <<lists, overlay, task>>

(* A power action or a rename has ended: an error is reported, and the list*)
(* read again.                                                             *)
ActionEnds(t) ==
  /\ task[t] # None /\ task[t][1] # "details"
  /\ task' = [task EXCEPT ![t] = None] /\ taken' = None
  /\ UNCHANGED <<lists, overlay, focus>>

ShowsDetailsOf(v) == overlay.kind = "details" /\ overlay.vm = v

(* Mutant: an error closes whatever dialog is up.                          *)
DetailsFailAnyDialog(t) ==
  /\ task[t] # None /\ task[t][1] = "details"
  /\ overlay' = IF overlay.kind = "details" THEN NoOverlay ELSE overlay
  /\ task' = [task EXCEPT ![t] = None] /\ taken' = None
  /\ UNCHANGED <<lists, focus>>

(* Mutant: an error is only reported.                                      *)
DetailsFailQuietly(t) ==
  /\ task[t] # None /\ task[t][1] = "details"
  /\ task' = [task EXCEPT ![t] = None] /\ taken' = None
  /\ UNCHANGED <<lists, overlay, focus>>

DetailsFail(t) ==
  /\ task[t] # None /\ task[t][1] = "details"
  /\ overlay' = IF ShowsDetailsOf(task[t][2]) THEN NoOverlay ELSE overlay
  /\ task' = [task EXCEPT ![t] = None] /\ taken' = None
  /\ UNCHANGED <<lists, focus>>

DetailsLoad(t) ==
  /\ task[t] # None /\ task[t][1] = "details"
  /\ overlay' = IF ShowsDetailsOf(task[t][2]) THEN Details(task[t][2], TRUE) ELSE overlay
  /\ task' = [task EXCEPT ![t] = None] /\ taken' = None
  /\ UNCHANGED <<lists, focus>>

Next ==
  \/ ListRead \/ Render \/ FilterKey
  \/ ClickConsole \/ ClickFilter \/ ToggleSwitcher \/ ClickAway \/ ClickRemote
  \/ \E v \in Vm : \/ ClickRow(v) \/ ClickStart(v) \/ OpenMenu(v)
                   \/ Hover(v) \/ ClickMenuConsole(v) \/ ClickPower(v)
                   \/ ClickRename(v) \/ ClickDetails(v)
  \/ DismissOverlay \/ CommandF \/ OpenPalette
  \/ EditDraft \/ CancelRename \/ CommitRename
  \/ Move \/ EditQuery \/ Enter \/ ClosePalette
  \/ Connected
  \/ \E t \in Task : ActionEnds(t) \/ DetailsFail(t) \/ DetailsLoad(t)

Spec == Init /\ [][Next]_vars

----------------------------------------------------------------------------
(* What must hold.                                                         *)

(* The menus and dialogs are the user's: a task that comes back touches    *)
(* none but the details it was to fetch ("a slow failure for VM A must not *)
(* close the dialog they have since opened for VM B", src/src/main.rs:684).*)
DialogsAreTheUsers ==
  [][\A t \in Task :
       task[t] # None /\ task'[t] = None /\ overlay' # overlay
         => task[t][1] = "details" /\ ShowsDetailsOf(task[t][2])]_vars

(* A dialog that says the details are being loaded has a task that will    *)
(* fill or close it, however often dialogs were closed and opened again    *)
(* and requests failed: none loads for ever.                               *)
LoadingIsFetched ==
  overlay.kind = "details" /\ ~overlay.loaded
    => \E t \in Task : task[t] = <<"details", overlay.vm>>

(* Enter takes the row that was painted as highlighted, unless the list has*)
(* changed since; and what the user selected and can still choose, whatever*)
(* has become of the list ("a background refresh that reorders or removes  *)
(* rows cannot leave the selection pointing at a machine the user never    *)
(* highlighted", src/src/main.rs:1214).                                    *)
EnterTakesHighlighted ==
  [][taken' # None =>
       /\ vms = painted => taken' = AtRow(painted, Current(painted))
       /\ overlay.selected \in Matches(vms) => taken' = overlay.selected]_vars

(* The cached rows of the sidebar are those of the list and the filter, by *)
(* whatever way either has changed ("Called only when `vms` or `filter`    *)
(* changes", src/src/main.rs:1309).                                        *)
SidebarIsCurrent == grouped = Regrouped(vms, filter)

(* Enter takes a machine the user has seen highlighted.  If the list was   *)
(* read again since the last paint, and nothing had been selected, or the  *)
(* selected one is gone, the code takes the first row, whatever it is.     *)
EnterTakesWhatWasSeen ==
  [][taken' # None /\ Matches(painted) # {}
       => taken' = AtRow(painted, Current(painted))]_vars

(* A menu that is up is on screen.  The one of an instance that has left   *)
(* the list is not drawn, takes the next Escape all the same, and comes    *)
(* back with the instance.                                                 *)
MenuIsOnScreen ==
  overlay.kind = "menu" /\ painted = vms => vms[overlay.vm] # "absent"

(* What has the keyboard is on screen.  The palette gives way to a menu or *)
(* to the switcher without giving the keyboard back.                       *)
KeyboardIsOnScreen ==
  focus \in {"palette", "rename"} => overlay.kind = focus

=============================================================================
