---------------------------- MODULE OverlayProofs ---------------------------
(***************************************************************************)
(* The dialogs against the tasks that fill them, and the cached rows of    *)
(* the sidebar, and the rows of the palette against what Enter takes, for  *)
(* any instances, any number of tasks and any palette.                     *)
(***************************************************************************)
EXTENDS Overlay, FiniteSetTheorems, TLAPS

(* What is up is of one of the forms of enum Overlay.                      *)
OverlayForms ==
  \/ overlay = NoOverlay
  \/ overlay = Switcher
  \/ overlay = Menu(overlay.vm, overlay.power)
  \/ overlay = Details(overlay.vm, overlay.loaded)
  \/ overlay = Rename(overlay.vm, overlay.draft)
  \/ overlay = Palette(overlay.query, overlay.selected)

TasksAreMapped == task = [t \in Task |-> task[t]]

Inv == OverlayForms /\ TasksAreMapped /\ SidebarIsCurrent /\ LoadingIsFetched

(* The forms are told apart by their kinds.                                *)
LEMMA KindsOfForms ==
  /\ NoOverlay.kind = "none" /\ Switcher.kind = "switcher"
  /\ \A v, power : LET o == Menu(v, power)
                   IN o.kind = "menu" /\ o = Menu(o.vm, o.power)
  /\ \A v, loaded : LET o == Details(v, loaded)
                    IN /\ o.kind = "details" /\ o.vm = v /\ o.loaded = loaded
                       /\ o = Details(o.vm, o.loaded)
  /\ \A v : Details(v, TRUE).loaded
  /\ \A v : LET o == Details(v, TRUE) IN o = Details(o.vm, o.loaded)
  /\ \A v : LET o == Details(v, FALSE) IN o = Details(o.vm, o.loaded)
  /\ \A v, draft : LET o == Rename(v, draft)
                   IN o.kind = "rename" /\ o = Rename(o.vm, o.draft)
  /\ \A q, s : LET o == Palette(q, s)
               IN o.kind = "palette" /\ o = Palette(o.query, o.selected)
BY DEF NoOverlay, Switcher, Menu, Details, Rename, Palette

(* The initial states satisfy the invariant.                               *)
LEMMA InvInit == Init => Inv
<1> SUFFICES ASSUME Init
             PROVE  Inv
  OBVIOUS
<1>1. OverlayForms /\ LoadingIsFetched
  BY KindsOfForms DEF Init, OverlayForms, LoadingIsFetched
<1>2. TasksAreMapped
  BY DEF Init, TasksAreMapped
<1>3. SidebarIsCurrent
  BY DEF Init, SidebarIsCurrent, Regrouped, Nothing
<1> QED  BY <1>1, <1>2, <1>3 DEF Inv

(* The rows follow the list and the filter in every step.                  *)
LEMMA SidebarNext ==
  ASSUME SidebarIsCurrent, [Next]_vars
  PROVE  SidebarIsCurrent'
<1> USE DEF SidebarIsCurrent
<1>1. CASE UNCHANGED <<vms, filter, grouped>>
  BY <1>1 DEF Regrouped
<1>2. CASE ListRead
  BY <1>2 DEF ListRead, SetVms, Regrouped
<1>3. CASE FilterKey
  BY <1>3 DEF FilterKey, Regrouped
<1>4. CASE ClickRemote
  BY <1>4 DEF ClickRemote, Regrouped, Nothing
<1> QED
  BY <1>1, <1>2, <1>3, <1>4
  DEF Next, vars, lists, Render, ClickConsole, ClickFilter, ToggleSwitcher, ClickAway,
      ClickRow, ClickStart, OpenMenu, Hover, ClickMenuConsole, ClickPower, ClickRename,
      ClickDetails, DismissOverlay, CommandF, OpenPalette, EditDraft, CancelRename,
      CommitRename, Move, EditQuery, Enter, Take, ClosePalette, Connected, ActionEnds,
      DetailsFail, DetailsLoad

(* The actions of the user that leave the tasks alone put up no details.   *)
LEMMA UserNext ==
  ASSUME Inv, UNCHANGED task,
         \/ overlay' \in {overlay, NoOverlay, Switcher}
         \/ \E v, power : overlay' = Menu(v, power)
         \/ \E v, draft : overlay' = Rename(v, draft)
         \/ \E query, selected : overlay' = Palette(query, selected)
  PROVE  OverlayForms' /\ TasksAreMapped' /\ LoadingIsFetched'
<1> USE DEF Inv
<1>1. TasksAreMapped'
  BY DEF TasksAreMapped
<1>2. CASE overlay' = overlay
  BY <1>1, <1>2 DEF OverlayForms, LoadingIsFetched
<1>3. CASE overlay' # overlay
  <2>1. overlay'.kind # "details" /\ OverlayForms'
    BY <1>3, KindsOfForms DEF OverlayForms
  <2> QED  BY <1>1, <2>1 DEF LoadingIsFetched
<1> QED  BY <1>2, <1>3

(* Moving the highlight leaves the palette what it is.                     *)
LEMMA SelectKeepsPalette ==
  ASSUME OverlayForms, overlay.kind = "palette", NEW row, Select(row)
  PROVE  \E query, selected : overlay' = Palette(query, selected)
<1>1. overlay = Palette(overlay.query, overlay.selected)
  BY KindsOfForms DEF OverlayForms
<1>2. \A q, s, x : [Palette(q, s) EXCEPT !.selected = x] = Palette(q, x)
  BY DEF Palette
<1>3. PICK x : overlay' = [overlay EXCEPT !.selected = x]
  BY DEF Select
<1>4. overlay' = [Palette(overlay.query, overlay.selected) EXCEPT !.selected = x]
  BY <1>1, <1>3
<1>5. overlay' = Palette(overlay.query, x)
  BY <1>2, <1>4
<1> QED  BY <1>5

(* A task is begun: it takes the place of none under way.                  *)
LEMMA BeginEffect ==
  ASSUME TasksAreMapped, NEW what, NEW v, Begin(what, v)
  PROVE  /\ TasksAreMapped'
         /\ \E t \in Task : task'[t] = <<what, v>>
         /\ \A t \in Task : task[t] # None => task'[t] = task[t]
BY DEF TasksAreMapped, Begin

(* A task ends: the others stay.                                           *)
LEMMA EndEffect ==
  ASSUME TasksAreMapped, NEW t \in Task, task' = [task EXCEPT ![t] = None]
  PROVE  /\ TasksAreMapped'
         /\ \A u \in Task \ {t} : task'[u] = task[u]
BY DEF TasksAreMapped

(* Every step keeps the invariant.                                         *)
LEMMA InvNext ==
  ASSUME Inv, [Next]_vars
  PROVE  Inv'
<1>1. SidebarIsCurrent'
  BY SidebarNext DEF Inv
<1>2. OverlayForms' /\ TasksAreMapped' /\ LoadingIsFetched'
  <2>1. CASE \/ UNCHANGED vars \/ ListRead \/ Render \/ FilterKey
             \/ ClickConsole \/ ClickFilter \/ ToggleSwitcher \/ ClickAway \/ ClickRemote
             \/ DismissOverlay \/ CommandF \/ OpenPalette
             \/ EditDraft \/ CancelRename \/ EditQuery \/ Enter \/ ClosePalette \/ Connected
             \/ \E v \in Vm : \/ ClickRow(v) \/ OpenMenu(v) \/ Hover(v)
                              \/ ClickMenuConsole(v) \/ ClickRename(v)
    BY <2>1, UserNext
    DEF vars, ListRead, Render, FilterKey, ClickConsole, ClickFilter, ToggleSwitcher,
        ClickAway, ClickRemote, DismissOverlay, CommandF, OpenPalette, EditDraft,
        CancelRename, EditQuery, Enter, Take, ClosePalette, Connected, ClickRow, OpenMenu,
        Hover, ClickMenuConsole, ClickRename, AfterPress
  <2>2. CASE Move
    <3>1. UNCHANGED task /\ overlay.kind = "palette" /\ \E row : Select(row)
      BY <2>2 DEF Move, Choosing
    <3> QED  BY <3>1, UserNext, SelectKeepsPalette DEF Inv
  <2>3. ASSUME NEW what, NEW v, Begin(what, v),
               \/ overlay' = NoOverlay
               \/ what = "details" /\ overlay' = Details(v, FALSE)
        PROVE  OverlayForms' /\ TasksAreMapped' /\ LoadingIsFetched'
    <3>1. TasksAreMapped' /\ \E t \in Task : task'[t] = <<what, v>>
      BY <2>3, BeginEffect DEF Inv
    <3>2. CASE overlay' = NoOverlay
      BY <3>1, <3>2, KindsOfForms DEF OverlayForms, LoadingIsFetched
    <3>3. CASE what = "details" /\ overlay' = Details(v, FALSE)
      <4>1. overlay'.vm = v /\ OverlayForms'
        BY <3>3, KindsOfForms DEF OverlayForms
      <4> QED  BY <3>1, <3>3, <4>1 DEF LoadingIsFetched
    <3> QED  BY <2>3, <3>2, <3>3
  <2>4. CASE CommitRename \/ \E v \in Vm : ClickStart(v) \/ ClickPower(v) \/ ClickDetails(v)
    BY <2>3, <2>4 DEF CommitRename, ClickStart, ClickPower, ClickDetails
  <2>5. ASSUME NEW t \in Task, ActionEnds(t) \/ DetailsFail(t) \/ DetailsLoad(t)
        PROVE  OverlayForms' /\ TasksAreMapped' /\ LoadingIsFetched'
    <3>1. /\ TasksAreMapped'
          /\ \A u \in Task \ {t} : task'[u] = task[u]
      BY <2>5, EndEffect DEF ActionEnds, DetailsFail, DetailsLoad, Inv
    <3>2. CASE overlay' # overlay
      <4>1. \/ overlay' = NoOverlay
            \/ overlay' = Details(task[t][2], TRUE)
        BY <2>5, <3>2 DEF ActionEnds, DetailsFail, DetailsLoad
      <4>2. overlay'.kind = "details" => overlay'.loaded
        BY <4>1, KindsOfForms
      <4>3. OverlayForms'
        <5>1. CASE overlay' = NoOverlay
          BY <5>1 DEF OverlayForms
        <5>2. CASE overlay' = Details(task[t][2], TRUE)
          BY <5>2, KindsOfForms DEF OverlayForms
        <5> QED  BY <4>1, <5>1, <5>2
      <4> QED  BY <3>1, <4>2, <4>3 DEF LoadingIsFetched
    <3>3. CASE overlay' = overlay
      <4>1. OverlayForms'
        BY <3>3 DEF Inv, OverlayForms
      <4>2. ASSUME overlay.kind = "details", ~overlay.loaded
            PROVE  \E u \in Task : task'[u] = <<"details", overlay.vm>>
        <5>1. PICK u \in Task : task[u] = <<"details", overlay.vm>>
          BY <4>2 DEF Inv, LoadingIsFetched
        <5>2. u # t
          <6> SUFFICES ASSUME u = t
                       PROVE  FALSE
            OBVIOUS
          <6>1. task[t][1] = "details" /\ task[t][2] = overlay.vm
            BY <5>1
          <6>2. ShowsDetailsOf(task[t][2])
            BY <4>2, <6>1 DEF ShowsDetailsOf
          <6>3. overlay' = NoOverlay \/ overlay' = Details(task[t][2], TRUE)
            BY <2>5, <6>1, <6>2 DEF ActionEnds, DetailsFail, DetailsLoad
          <6> QED  BY <3>3, <4>2, <6>3, KindsOfForms
        <5> QED  BY <3>1, <5>1, <5>2
      <4> QED  BY <3>1, <3>3, <4>1, <4>2 DEF LoadingIsFetched
    <3> QED  BY <3>2, <3>3
  <2> QED  BY <2>1, <2>2, <2>4, <2>5 DEF Next
<1> QED  BY <1>1, <1>2 DEF Inv

(* The invariant holds in every reachable state.                           *)
THEOREM Invariance == Spec => []Inv
BY InvInit, InvNext, PTL DEF Spec

(* `grouped' is what regroup makes of `vms' and `filter'.                  *)
THEOREM SidebarCorrect == Spec => []SidebarIsCurrent
<1>1. Inv => SidebarIsCurrent
  BY DEF Inv
<1> QED  BY Invariance, <1>1, PTL

(* show_details fills or closes the dialog it has put up, whatever the user*)
(* does in between.                                                        *)
THEOREM LoadingCorrect == Spec => []LoadingIsFetched
<1>1. Inv => LoadingIsFetched
  BY DEF Inv
<1> QED  BY Invariance, <1>1, PTL

(* A task that comes back changes no dialog but the details of its own     *)
(* instance.                                                               *)
THEOREM DialogsCorrect == Spec => DialogsAreTheUsers
<1> DEFINE Kept == \A t \in Task :
              task[t] # None /\ task'[t] = None /\ overlay' # overlay
                => task[t][1] = "details" /\ ShowsDetailsOf(task[t][2])
<1>1. Inv /\ [Next]_vars => [Kept]_vars
  <2> SUFFICES ASSUME Inv, Next, NEW t \in Task,
                      task[t] # None, task'[t] = None, overlay' # overlay
               PROVE  task[t][1] = "details" /\ ShowsDetailsOf(task[t][2])
    OBVIOUS
  <2>1. ASSUME NEW what, NEW v, Begin(what, v)
        PROVE  FALSE
    BY <2>1, BeginEffect DEF Inv
  <2>2. PICK u \in Task : ActionEnds(u) \/ DetailsFail(u) \/ DetailsLoad(u)
    BY <2>1
    DEF Next, lists, ListRead, Render, FilterKey, ClickConsole, ClickFilter, ToggleSwitcher,
        ClickAway, ClickRemote, DismissOverlay, CommandF, OpenPalette, EditDraft,
        CancelRename, CommitRename, Move, EditQuery, Enter, Take, ClosePalette, Connected,
        ClickRow, ClickStart, OpenMenu, Hover, ClickMenuConsole, ClickPower, ClickRename,
        ClickDetails
  <2>3. u = t
    BY <2>2, EndEffect DEF ActionEnds, DetailsFail, DetailsLoad, Inv
  <2> QED  BY <2>2, <2>3 DEF ActionEnds, DetailsFail, DetailsLoad
<1> QED  BY Invariance, <1>1, PTL DEF Spec, DialogsAreTheUsers

----------------------------------------------------------------------------
(* The rows of the palette.                                                *)

(* What is found, and what comes before a row, are finitely many.          *)
LEMMA RowsAreFinite ==
  ASSUME NEW list, overlay.query \in SUBSET Vm, NEW v
  PROVE  /\ Found(list) \subseteq Vm
         /\ IsFiniteSet({w \in Found(list) : Before(list, w, v)})
         /\ RowOf(list, v) \in Nat \ {0}
<1>1. Found(list) \subseteq Vm
  BY DEF Found
<1>2. IsFiniteSet({w \in Found(list) : Before(list, w, v)})
  BY <1>1, FS_Subset, VmAssumption
<1>3. Cardinality({w \in Found(list) : Before(list, w, v)}) \in Nat
  BY <1>2, FS_CardinalityType
<1> QED  BY <1>1, <1>2, <1>3 DEF RowOf

(* The rows are in a strict order, which is total as a listed instance is  *)
(* either running or not.                                                  *)
LEMMA BeforeIsOrder ==
  ASSUME NEW list \in [Vm -> Status], overlay.query \in SUBSET Vm,
         NEW u \in Found(list), NEW v \in Found(list), NEW w \in Found(list)
  PROVE  /\ ~Before(list, v, v)
         /\ Before(list, u, v) /\ Before(list, v, w) => Before(list, u, w)
         /\ v # w => Before(list, v, w) \/ Before(list, w, v)
<1>1. {u, v, w} \subseteq Nat /\ {u, v, w} \subseteq Vm
  BY VmAssumption DEF Found
<1>2. {list[u], list[v], list[w]} \subseteq {"stopped", "running"}
  BY <1>1 DEF Found, Status
<1> QED  BY <1>1, <1>2 DEF Before

(* An instance has more before it than one in front of it has.             *)
LEMMA BeforeIsStrict ==
  ASSUME NEW list \in [Vm -> Status], overlay.query \in SUBSET Vm,
         NEW v \in Found(list), NEW w \in Found(list), Before(list, v, w)
  PROVE  LET Ahead(x) == {u \in Found(list) : Before(list, u, x)}
         IN  Ahead(v) \subseteq Ahead(w) /\ Ahead(v) # Ahead(w)
<1> DEFINE Ahead(x) == {u \in Found(list) : Before(list, u, x)}
<1>1. Ahead(v) \subseteq Ahead(w)
  BY BeforeIsOrder
<1>2. v \in Ahead(w) /\ v \notin Ahead(v)
  BY BeforeIsOrder
<1> QED  BY <1>1, <1>2

(* No two instances are in the same row.                                   *)
LEMMA RowsDiffer ==
  ASSUME NEW list \in [Vm -> Status], overlay.query \in SUBSET Vm,
         NEW v \in Found(list), NEW w \in Found(list), RowOf(list, v) = RowOf(list, w)
  PROVE  v = w
<1> DEFINE Ahead(x) == {u \in Found(list) : Before(list, u, x)}
<1>1. ASSUME NEW x \in Found(list), NEW y \in Found(list), Before(list, x, y)
      PROVE  RowOf(list, x) # RowOf(list, y)
  <2>1. Ahead(x) \in SUBSET Ahead(y) /\ Ahead(x) # Ahead(y)
    BY <1>1, BeforeIsStrict
  <2>2. IsFiniteSet(Ahead(x)) /\ IsFiniteSet(Ahead(y))
    BY RowsAreFinite
  <2>3. Cardinality(Ahead(y)) # Cardinality(Ahead(x))
    <3> HIDE DEF Ahead
    <3> QED  BY <2>1, <2>2, FS_Subset
  <2>4. Cardinality(Ahead(x)) \in Nat /\ Cardinality(Ahead(y)) \in Nat
    BY <2>2, FS_CardinalityType
  <2>5. /\ RowOf(list, x) = Cardinality(Ahead(x)) + 1
        /\ RowOf(list, y) = Cardinality(Ahead(y)) + 1
    BY DEF RowOf
  <2> HIDE DEF Ahead
  <2> QED  BY <2>3, <2>4, <2>5
<1> QED  BY <1>1, BeforeIsOrder

(* What is in a row of the palette is what that row holds.                 *)
LEMMA AtRowOf ==
  ASSUME NEW list \in [Vm -> Status], overlay.query \in SUBSET Vm,
         NEW v \in Matches(list)
  PROVE  AtRow(list, RowOf(list, v)) = v
<1>1. AtRow(list, RowOf(list, v)) \in Matches(list)
      /\ RowOf(list, AtRow(list, RowOf(list, v))) = RowOf(list, v)
  BY DEF AtRow
<1> QED  BY <1>1, RowsDiffer DEF Matches

(* Where there are rows there is a first one: of the sets of what comes    *)
(* before an instance one has no other within it, and that one is empty.   *)
LEMMA FirstRow ==
  ASSUME NEW list \in [Vm -> Status], overlay.query \in SUBSET Vm, Matches(list) # {}
  PROVE  AtRow(list, 1) \in Matches(list) /\ RowOf(list, AtRow(list, 1)) = 1
<1> DEFINE Ahead(x) == {u \in Found(list) : Before(list, u, x)}
           F == {Ahead(x) : x \in Found(list)}
           R == StrictSubsetOrdering(Vm)
<1>1. F \subseteq FiniteSubsetsOf(Vm) /\ F # {}
  <2>1. ASSUME NEW x \in Found(list)
        PROVE  Ahead(x) \in SUBSET Vm /\ IsFiniteSet(Ahead(x))
    BY RowsAreFinite
  <2>2. Found(list) # {}
    BY DEF Matches
  <2> QED  BY <2>1, <2>2 DEF FiniteSubsetsOf
<1>2. IsWellFoundedOn(R, FiniteSubsetsOf(Vm))
  BY FS_StrictSubsetOrderingWellFounded
<1>3. PICK X \in F : \A Y \in F : ~(<<Y, X>> \in R)
  <2> HIDE DEF F, R
  <2> QED  BY <1>1, <1>2, WFMin
<1>4. PICK m \in Found(list) : X = Ahead(m)
  OBVIOUS
<1>5. Ahead(m) = {}
  <2> SUFFICES ASSUME NEW u \in Ahead(m)
               PROVE  FALSE
    OBVIOUS
  <2>1. Ahead(u) \subseteq Ahead(m) /\ Ahead(u) # Ahead(m)
    BY BeforeIsStrict
  <2>2. Ahead(u) \in F /\ Ahead(m) \in SUBSET Vm /\ Ahead(u) \in SUBSET Vm
    BY RowsAreFinite
  <2>3. <<Ahead(u), X>> \in R
    BY <1>4, <2>1, <2>2 DEF StrictSubsetOrdering
  <2> QED  BY <1>3, <2>2, <2>3
<1>6. RowOf(list, m) = 1
  BY <1>5, FS_EmptySet DEF RowOf
<1>7. m \in Matches(list)
  BY <1>6, RowsAssumption DEF Matches
<1> QED  BY <1>6, <1>7 DEF AtRow

----------------------------------------------------------------------------
(* The types, and what Enter takes.                                        *)

(* The forms belong to the enum.                                           *)
LEMMA FormsAreOverlays ==
  /\ NoOverlay \in Overlays /\ Switcher \in Overlays
  /\ \A v \in Vm, power \in BOOLEAN : Menu(v, power) \in Overlays
  /\ \A v \in Vm, loaded \in BOOLEAN : Details(v, loaded) \in Overlays
  /\ \A v \in Vm, draft \in Draft : Rename(v, draft) \in Overlays
  /\ \A q \in SUBSET Vm : \A s \in q \union {None} : Palette(q, s) \in Overlays
BY DEF Overlays

(* What is up has the fields of its kind, and they are typed.              *)
LEMMA FieldsOfOverlays ==
  ASSUME overlay \in Overlays
  PROVE  /\ overlay.kind = "menu" => overlay.vm \in Vm /\ overlay.power \in BOOLEAN
         /\ overlay.kind = "rename" => overlay.vm \in Vm
         /\ overlay.kind = "palette" =>
              /\ overlay = Palette(overlay.query, overlay.selected)
              /\ overlay.query \in SUBSET Vm
              /\ overlay.selected \in overlay.query \union {None}
<1>1. CASE overlay \in {NoOverlay, Switcher}
  BY <1>1 DEF NoOverlay, Switcher
<1>2. CASE \E v \in Vm, power \in BOOLEAN : overlay = Menu(v, power)
  BY <1>2 DEF Menu
<1>3. CASE \E v \in Vm, loaded \in BOOLEAN : overlay = Details(v, loaded)
  BY <1>3 DEF Details
<1>4. CASE \E v \in Vm, draft \in Draft : overlay = Rename(v, draft)
  BY <1>4 DEF Rename
<1>5. CASE \E q \in SUBSET Vm : \E s \in q \union {None} : overlay = Palette(q, s)
  BY <1>5 DEF Palette
<1> QED  BY <1>1, <1>2, <1>3, <1>4, <1>5 DEF Overlays

(* The lists stay lists, whatever is read and filtered.                    *)
LEMMA ListsNext ==
  ASSUME TypeOK, [Next]_vars
  PROVE  {vms', grouped', painted'} \subseteq [Vm -> Status] /\ filter' \subseteq Vm
<1>1. \A list \in [Vm -> Status] : \A needle : Regrouped(list, needle) \in [Vm -> Status]
  BY DEF Regrouped, Status
<1>2. Nothing \in [Vm -> Status]
  BY DEF Nothing, Status
<1>3. {vms, grouped, painted} \subseteq [Vm -> Status] /\ filter \subseteq Vm
  BY DEF TypeOK
<1>4. CASE ListRead
  BY <1>1, <1>3, <1>4 DEF ListRead, SetVms
<1>5. CASE FilterKey
  BY <1>1, <1>3, <1>5 DEF FilterKey
<1>6. CASE Render
  BY <1>3, <1>6 DEF Render
<1>7. CASE ClickRemote
  BY <1>2, <1>3, <1>7 DEF ClickRemote
<1>8. CASE UNCHANGED lists
  BY <1>3, <1>8 DEF lists
<1> QED
  BY <1>4, <1>5, <1>6, <1>7, <1>8
  DEF Next, vars, lists, ClickConsole, ClickFilter, ToggleSwitcher, ClickAway, ClickRow,
      ClickStart, OpenMenu, Hover, ClickMenuConsole, ClickPower, ClickRename, ClickDetails,
      DismissOverlay, CommandF, OpenPalette, EditDraft, CancelRename, CommitRename, Move,
      EditQuery, Enter, Take, ClosePalette, Connected, ActionEnds, DetailsFail, DetailsLoad

(* The highlight is on a row or nowhere.                                   *)
LEMMA SelectType ==
  ASSUME TypeOK, overlay.kind = "palette", NEW row, Select(row)
  PROVE  overlay' \in Overlays
<1>1. /\ overlay = Palette(overlay.query, overlay.selected)
      /\ overlay.query \in SUBSET Vm
  BY FieldsOfOverlays DEF TypeOK
<1>2. PICK x \in overlay.query \union {None} : overlay' = [overlay EXCEPT !.selected = x]
  <2>1. (\E v \in Matches(vms) : RowOf(vms, v) = row) => AtRow(vms, row) \in Matches(vms)
    BY DEF AtRow
  <2>2. Matches(vms) \subseteq overlay.query
    BY DEF Matches, Found
  <2> QED  BY <2>1, <2>2 DEF Select
<1>3. \A q, s, y : [Palette(q, s) EXCEPT !.selected = y] = Palette(q, y)
  BY DEF Palette
<1>4. overlay' = Palette(overlay.query, x)
  BY <1>1, <1>2, <1>3
<1> QED  BY <1>1, <1>4, FormsAreOverlays

(* The overlay stays one of the enum.                                      *)
LEMMA OverlaysNext ==
  ASSUME TypeOK, [Next]_vars
  PROVE  overlay' \in Overlays
<1>1. overlay \in Overlays
  BY DEF TypeOK
<1>2. CASE overlay' \in {overlay, NoOverlay, Switcher}
  BY <1>1, <1>2, FormsAreOverlays
<1>3. ASSUME NEW v \in Vm, OpenMenu(v) \/ Hover(v) \/ ClickRename(v) \/ ClickDetails(v)
      PROVE  overlay' \in Overlays
  <2>1. (~overlay.power) \in BOOLEAN
    OBVIOUS
  <2>2. "same" \in Draft /\ FALSE \in BOOLEAN
    BY DEF Draft
  <2> QED  BY <1>3, <2>1, <2>2, FormsAreOverlays
           DEF OpenMenu, Hover, ClickRename, ClickDetails
<1>4. CASE OpenPalette
  BY <1>4, FormsAreOverlays DEF OpenPalette
<1>5. CASE EditDraft
  BY <1>1, <1>5, FormsAreOverlays, FieldsOfOverlays DEF EditDraft, Renaming
<1>6. CASE Move
  BY <1>6, SelectType DEF Move, Choosing
<1>7. CASE EditQuery
  BY <1>7, FormsAreOverlays DEF EditQuery
<1>8. ASSUME NEW t \in Task, DetailsLoad(t)
      PROVE  overlay' \in Overlays
  <2>1. task[t][2] \in Vm
    BY <1>8 DEF TypeOK, DetailsLoad
  <2> QED  BY <1>1, <1>8, <2>1, FormsAreOverlays DEF DetailsLoad
<1> QED
  BY <1>2, <1>3, <1>4, <1>5, <1>6, <1>7, <1>8
  DEF Next, vars, ListRead, Render, FilterKey, ClickConsole, ClickFilter, ToggleSwitcher,
      ClickAway, ClickRemote, ClickRow, ClickStart, ClickMenuConsole, ClickPower,
      DismissOverlay, CommandF, CancelRename, CommitRename, Enter, Take, ClosePalette,
      Connected, ActionEnds, DetailsFail, AfterPress

(* A task is begun for an instance that can be acted on, and ends.         *)
LEMMA TasksNext ==
  ASSUME TypeOK, [Next]_vars
  PROVE  task' \in [Task -> {None} \union ({"power", "rename", "details"} \X Vm)]
<1>1. task \in [Task -> {None} \union ({"power", "rename", "details"} \X Vm)]
  BY DEF TypeOK
<1>2. ASSUME NEW what \in {"power", "rename", "details"}, NEW v \in Vm, Begin(what, v)
      PROVE  task' \in [Task -> {None} \union ({"power", "rename", "details"} \X Vm)]
  BY <1>1, <1>2 DEF Begin
<1>3. CASE \E v \in Vm : ClickStart(v) \/ ClickPower(v) \/ ClickDetails(v)
  BY <1>2, <1>3 DEF ClickStart, ClickPower, ClickDetails
<1>4. CASE CommitRename
  BY <1>2, <1>4, FieldsOfOverlays DEF CommitRename, Renaming, TypeOK
<1>5. CASE \E t \in Task : ActionEnds(t) \/ DetailsFail(t) \/ DetailsLoad(t)
  BY <1>1, <1>5 DEF ActionEnds, DetailsFail, DetailsLoad
<1>6. CASE UNCHANGED task
  BY <1>1, <1>6
<1> QED
  BY <1>3, <1>4, <1>5, <1>6
  DEF Next, vars, ListRead, Render, FilterKey, ClickConsole, ClickFilter, ToggleSwitcher,
      ClickAway, ClickRemote, ClickRow, OpenMenu, Hover, ClickMenuConsole, ClickRename,
      DismissOverlay, CommandF, OpenPalette, EditDraft, CancelRename, Move, EditQuery,
      Enter, Take, ClosePalette, Connected

(* Only Enter takes an instance from the palette, and it takes a row of it.*)
LEMMA TakenNext ==
  ASSUME TypeOK, Next, taken' # None
  PROVE  /\ Enter
         /\ vms \in [Vm -> Status] /\ overlay.query \in SUBSET Vm
         /\ taken' \in Matches(vms) /\ Matches(vms) \subseteq Vm
<1>1. Enter
  BY DEF Next, ListRead, Render, FilterKey, ClickConsole, ClickFilter, ToggleSwitcher,
         ClickAway, ClickRemote, ClickRow, ClickStart, OpenMenu, Hover, ClickMenuConsole,
         ClickPower, ClickRename, ClickDetails, DismissOverlay, CommandF, OpenPalette,
         EditDraft, CancelRename, CommitRename, Move, EditQuery, ClosePalette, Connected,
         ActionEnds, DetailsFail, DetailsLoad
<1>2. vms \in [Vm -> Status] /\ overlay.query \in SUBSET Vm
  BY <1>1, FieldsOfOverlays DEF TypeOK, Enter, Choosing
<1>3. taken' \in Matches(vms)
  BY <1>1, <1>2, FirstRow DEF Enter, Take
<1>4. Matches(vms) \subseteq Vm
  BY <1>2 DEF Matches, Found
<1> QED  BY <1>1, <1>2, <1>3, <1>4

(* The types hold in every step.                                           *)
LEMMA TypeNext ==
  ASSUME TypeOK, [Next]_vars
  PROVE  TypeOK'
<1>1. focus' \in {"console", "filter", "palette", "rename"}
  BY DEF TypeOK, Next, vars, lists, ListRead, Render, FilterKey, ClickConsole, ClickFilter,
         ToggleSwitcher, ClickAway, ClickRemote, ClickRow, ClickStart, OpenMenu, Hover,
         ClickMenuConsole, ClickPower, ClickRename, ClickDetails, DismissOverlay, CommandF,
         OpenPalette, EditDraft, CancelRename, CommitRename, Move, EditQuery, Enter, Take,
         ClosePalette, Connected, ActionEnds, DetailsFail, DetailsLoad, FocusAfterPress
<1>2. taken' \in Vm \union {None}
  BY TakenNext DEF TypeOK, vars
<1> QED  BY <1>1, <1>2, ListsNext, OverlaysNext, TasksNext DEF TypeOK

(* Every component of the state keeps its type; in particular the palette  *)
(* never remembers a selection that does not contain its query.            *)
THEOREM TypeCorrect == Spec => []TypeOK
<1>1. Init => TypeOK
  <2> SUFFICES ASSUME Init
               PROVE  TypeOK
    OBVIOUS
  <2>1. Nothing \in [Vm -> Status]
    BY DEF Nothing, Status
  <2>2. task \in [Task -> {None} \union ({"power", "rename", "details"} \X Vm)]
    BY DEF Init
  <2> QED  BY <2>1, <2>2, FormsAreOverlays DEF Init, TypeOK
<1> QED  BY <1>1, TypeNext, PTL DEF Spec

(* Enter takes the row that was painted as highlighted, unless the list has*)
(* changed since, and always what the user selected and can still choose   *)
(* (handle_palette_key resolves the highlight as render_palette does).     *)
THEOREM EnterCorrect == Spec => EnterTakesHighlighted
<1> DEFINE Taken ==
      taken' # None =>
        /\ vms = painted => taken' = AtRow(painted, Current(painted))
        /\ overlay.selected \in Matches(vms) => taken' = overlay.selected
<1>1. TypeOK /\ [Next]_vars => [Taken]_vars
  <2> SUFFICES ASSUME TypeOK, Next, taken' # None
               PROVE  Taken
    OBVIOUS
  <2>1. Enter /\ vms \in [Vm -> Status] /\ overlay.query \in SUBSET Vm
    BY TakenNext
  <2>2. CASE overlay.selected \in Matches(vms)
    <3>1. taken' = overlay.selected
      BY <2>1, <2>2 DEF Enter, Take
    <3>2. AtRow(vms, Current(vms)) = overlay.selected
      BY <2>1, <2>2, AtRowOf DEF Current
    <3> QED  BY <3>1, <3>2
  <2>3. CASE overlay.selected \notin Matches(vms)
    <3>1. taken' = AtRow(vms, 1) /\ Current(vms) = 1
      BY <2>1, <2>3 DEF Enter, Take, Current
    <3> QED  BY <2>3, <3>1
  <2> QED  BY <2>2, <2>3
<1> QED  BY TypeCorrect, <1>1, PTL DEF Spec, EnterTakesHighlighted

=============================================================================
