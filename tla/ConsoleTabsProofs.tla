------------------------- MODULE ConsoleTabsProofs -------------------------
(***************************************************************************)
(* The safety of the tab list, for any number of VMs, projects, remotes    *)
(* and attempts.  The invariants of ConsoleTabs are inductive together     *)
(* with three facts about which task owns which tab (Owned below).         *)
(***************************************************************************)
EXTENDS ConsoleTabs, FiniteSetTheorems, SequenceTheorems, TLAPS

(* A task that is on its way to a tab, or serves one, knows its VM.        *)
TasksHaveVms ==
  \A a \in Attempt :
    task[a].stage \in Pending \union {"streaming"} => task[a].vm \in Vm

(* A tab belongs to an attempt that has got as far as inserting it; the    *)
(* pump of that attempt may be gone, when another one still serves the VM. *)
TabsAreInserted ==
  \A i \in DOMAIN tabs : task[tabs[i].att].stage \in {"streaming", "done"}

(* No two tabs share a session.                                            *)
SessionsDistinct ==
  \A i, j \in DOMAIN tabs : tabs[i].att = tabs[j].att => i = j

Owned == TasksHaveVms /\ TabsAreInserted /\ SessionsDistinct

Inv ==
  /\ TypeOK
  /\ Owned
  /\ ActiveIsOpen
  /\ OnlyShownTabConverts
  /\ ProjectsContiguous
  /\ NoLeakedSession

----------------------------------------------------------------------------
(* Positions in a list.                                                    *)

(* A non-empty set of naturals has a least member.  The library states     *)
(* this with an operator parameter; here it follows from the strict subset *)
(* ordering of the intervals 1..i being well-founded.                      *)
LEMMA LeastExists ==
  ASSUME NEW T \in SUBSET Nat, T # {}
  PROVE  \E m \in T : \A k \in T : m <= k
<1> DEFINE F == {1 .. i : i \in T}
           R == StrictSubsetOrdering(Nat)
<1>1. F \in SUBSET FiniteSubsetsOf(Nat) /\ F # {}
  <2>1. ASSUME NEW i \in T
        PROVE  1 .. i \in SUBSET Nat /\ IsFiniteSet(1 .. i)
    <3>1. i \in Nat /\ i \in Int /\ 1 \in Int
      OBVIOUS
    <3>2. 1 .. i \in SUBSET Nat
      BY <3>1
    <3> QED  BY <3>1, <3>2, FS_Interval
  <2>2. PICK i \in T : TRUE
    OBVIOUS
  <2>3. 1 .. i \in F
    OBVIOUS
  <2> QED  BY <2>1, <2>3 DEF FiniteSubsetsOf
<1>2. IsWellFoundedOn(R, FiniteSubsetsOf(Nat))
  BY FS_StrictSubsetOrderingWellFounded
<1>3. PICK X \in F : \A Y \in F : ~(<<Y, X>> \in R)
  <2> HIDE DEF F, R
  <2> QED  BY <1>1, <1>2, WFMin
<1>4. PICK m \in T : X = 1 .. m
  OBVIOUS
<1>5. ASSUME NEW k \in T
      PROVE  m <= k
  <2> SUFFICES ASSUME k < m
               PROVE  FALSE
    OBVIOUS
  <2>1. 1 .. k \subseteq 1 .. m /\ 1 .. k # 1 .. m
    <3>1. m \in 1 .. m /\ m \notin 1 .. k
      OBVIOUS
    <3> QED  BY <3>1
  <2>2. <<1 .. k, X>> \in R
    BY <1>4, <2>1 DEF StrictSubsetOrdering
  <2> QED  BY <1>3, <2>2
<1> QED  BY <1>5

(* A non-empty set of positions up to n has a last member.                 *)
LEMMA GreatestExists ==
  ASSUME NEW n \in Nat, NEW T \in SUBSET (1 .. n), T # {}
  PROVE  \E m \in T : \A k \in T : k <= m
<1> DEFINE U == {n - i : i \in T}
<1>1. U \in SUBSET Nat /\ U # {}
  <2>1. \A i \in T : n - i \in Nat
    OBVIOUS
  <2>2. PICK i \in T : TRUE
    OBVIOUS
  <2>3. n - i \in U
    OBVIOUS
  <2> QED  BY <2>1, <2>3
<1>2. PICK u \in U : \A k \in U : u <= k
  BY <1>1, LeastExists
<1>3. PICK m \in T : u = n - m
  OBVIOUS
<1>4. ASSUME NEW k \in T
      PROVE  k <= m
  <2>1. n - m <= n - k
    BY <1>2, <1>3
  <2> QED  BY <2>1
<1> QED  BY <1>4

(* RemoveAt drops the element at position i and shifts what follows it.    *)
LEMMA RemoveAtProperties ==
  ASSUME NEW S, NEW s \in Seq(S), NEW i \in 1 .. Len(s)
  PROVE  /\ RemoveAt(s, i) \in Seq(S)
         /\ Len(RemoveAt(s, i)) = Len(s) - 1
         /\ \A k \in 1 .. Len(s) - 1 :
              RemoveAt(s, i)[k] = IF k < i THEN s[k] ELSE s[k + 1]
<1> DEFINE p == SubSeq(s, 1, i - 1)
           q == SubSeq(s, i + 1, Len(s))
<1>0. Len(s) \in Nat
  OBVIOUS
<1>1. /\ p \in Seq(S) /\ Len(p) = i - 1
      /\ \A k \in 1 .. i - 1 : p[k] = s[k]
  BY <1>0, SubSeqProperties
<1>2. /\ q \in Seq(S) /\ Len(q) = Len(s) - i
      /\ \A k \in 1 .. Len(s) - i : q[k] = s[i + k]
  BY <1>0, SubSeqProperties
<1>3. RemoveAt(s, i) = p \o q
  BY DEF RemoveAt
<1> HIDE DEF p, q
<1>4. /\ p \o q \in Seq(S)
      /\ Len(p \o q) = Len(p) + Len(q)
      /\ \A k \in 1 .. Len(p) + Len(q) :
           (p \o q)[k] = IF k <= Len(p) THEN p[k] ELSE q[k - Len(p)]
  BY <1>1, <1>2, ConcatProperties
<1>5. ASSUME NEW k \in 1 .. Len(s) - 1
      PROVE  (p \o q)[k] = IF k < i THEN s[k] ELSE s[k + 1]
  <2>1. CASE k < i
    BY <1>0, <1>1, <1>2, <1>4, <2>1
  <2>2. CASE ~(k < i)
    <3>1. k - Len(p) \in 1 .. Len(s) - i /\ i + (k - Len(p)) = k + 1
      BY <1>0, <1>1, <2>2
    <3>2. (p \o q)[k] = q[k - Len(p)]
      BY <1>0, <1>1, <1>2, <1>4, <2>2
    <3> QED  BY <1>2, <2>2, <3>1, <3>2
  <2> QED  BY <2>1, <2>2
<1>6. Len(p \o q) = Len(s) - 1
  BY <1>0, <1>1, <1>2, <1>4
<1> QED  BY <1>3, <1>4, <1>5, <1>6

(* InsertAt puts e at position i and shifts what was there and after it.   *)
LEMMA InsertAtProperties ==
  ASSUME NEW S, NEW s \in Seq(S), NEW i \in 1 .. Len(s) + 1, NEW e \in S
  PROVE  /\ InsertAt(s, i, e) \in Seq(S)
         /\ Len(InsertAt(s, i, e)) = Len(s) + 1
         /\ \A k \in 1 .. Len(s) + 1 :
              InsertAt(s, i, e)[k] = IF k < i THEN s[k]
                                     ELSE IF k = i THEN e ELSE s[k - 1]
<1> DEFINE p == SubSeq(s, 1, i - 1)
           q == SubSeq(s, i, Len(s))
<1>0. Len(s) \in Nat
  OBVIOUS
<1>1. /\ p \in Seq(S) /\ Len(p) = i - 1
      /\ \A k \in 1 .. i - 1 : p[k] = s[k]
  BY <1>0, SubSeqProperties
<1>2. /\ q \in Seq(S) /\ Len(q) = Len(s) - i + 1
      /\ \A k \in 1 .. Len(s) - i + 1 : q[k] = s[i + k - 1]
  BY <1>0, SubSeqProperties
<1>3. InsertAt(s, i, e) = (p \o <<e>>) \o q
  BY DEF InsertAt
<1> DEFINE pe == p \o <<e>>
<1>4. /\ pe \in Seq(S) /\ Len(pe) = i
      /\ \A k \in 1 .. i : pe[k] = IF k = i THEN e ELSE p[k]
  BY <1>0, <1>1, ConcatProperties
<1>5. InsertAt(s, i, e) = pe \o q
  BY <1>3
<1> HIDE DEF p, q, pe
<1>6. /\ pe \o q \in Seq(S)
      /\ Len(pe \o q) = Len(pe) + Len(q)
      /\ \A k \in 1 .. Len(pe) + Len(q) :
           (pe \o q)[k] = IF k <= Len(pe) THEN pe[k] ELSE q[k - Len(pe)]
  BY <1>2, <1>4, ConcatProperties
<1>7. ASSUME NEW k \in 1 .. Len(s) + 1
      PROVE  (pe \o q)[k] = IF k < i THEN s[k] ELSE IF k = i THEN e ELSE s[k - 1]
  <2>1. CASE k <= i
    BY <1>0, <1>1, <1>2, <1>4, <1>6, <2>1
  <2>2. CASE ~(k <= i)
    <3>1. k - i \in 1 .. Len(s) - i + 1 /\ i + (k - i) - 1 = k - 1
      BY <1>0, <2>2
    <3>2. (pe \o q)[k] = q[k - i]
      <4>1. k \in 1 .. Len(pe) + Len(q) /\ ~(k <= Len(pe))
        BY <1>0, <1>2, <1>4, <2>2
      <4> QED  BY <1>4, <1>6, <4>1
    <3>3. q[k - i] = s[k - 1]
      BY <1>2, <3>1
    <3>4. ~(k < i) /\ k # i
      BY <2>2
    <3> QED  BY <3>2, <3>3, <3>4
  <2> QED  BY <2>1, <2>2
<1>8. Len(pe \o q) = Len(s) + 1
  BY <1>0, <1>2, <1>4, <1>6
<1> QED  BY <1>5, <1>6, <1>7, <1>8

----------------------------------------------------------------------------
(* What the helpers of ConsoleTabs return.                                 *)

(* `position' finds a tab of the VM when there is one.                     *)
LEMMA FirstTabIsTab ==
  ASSUME TypeOK, NEW v \in Vm, IsOpen(v)
  PROVE  FirstTab(v) \in 1 .. Len(tabs) /\ tabs[FirstTab(v)].vm = v
<1> DEFINE T == {i \in 1 .. Len(tabs) : tabs[i].vm = v}
<1>1. DOMAIN tabs = 1 .. Len(tabs)
  BY DEF TypeOK
<1>2. T \in SUBSET Nat /\ T # {}
  BY <1>1 DEF IsOpen, TypeOK
<1>3. \E m \in T : \A k \in T : m <= k
  <2> HIDE DEF T
  <2> QED  BY <1>2, LeastExists
<1> QED  BY <1>1, <1>3 DEF FirstTab

(* The insertion position is a position, behind every tab of the project   *)
(* and right behind one of them if there is any.                           *)
LEMMA InsertPosIsPosition ==
  ASSUME TypeOK, NEW v \in Vm
  PROVE  /\ InsertPos(v) \in 1 .. Len(tabs) + 1
         /\ \A i \in 1 .. Len(tabs) :
              ProjectOf[tabs[i].vm] = ProjectOf[v]
                => /\ i < InsertPos(v)
                   /\ InsertPos(v) - 1 \in 1 .. Len(tabs)
                   /\ ProjectOf[tabs[InsertPos(v) - 1].vm] = ProjectOf[v]
<1> DEFINE T == {i \in 1 .. Len(tabs) : ProjectOf[tabs[i].vm] = ProjectOf[v]}
<1>0. Len(tabs) \in Nat /\ DOMAIN tabs = 1 .. Len(tabs)
  BY DEF TypeOK
<1>1. CASE T = {}
  BY <1>0, <1>1 DEF InsertPos
<1>2. CASE T # {}
  <2> DEFINE last == CHOOSE i \in T : \A j \in T : j <= i
  <2>1. \E m \in T : \A k \in T : k <= m
    <3>1. T \in SUBSET (1 .. Len(tabs))
      OBVIOUS
    <3> HIDE DEF T
    <3> QED  BY <1>0, <1>2, <3>1, GreatestExists
  <2>2. last \in T /\ \A j \in T : j <= last
    <3> HIDE DEF T
    <3> QED  BY <2>1
  <2>3. InsertPos(v) = 1 + last
    BY <1>0, <1>2 DEF InsertPos
  <2> HIDE DEF last
  <2> QED  BY <1>0, <2>2, <2>3
<1> QED  BY <1>1, <1>2

(* The step of the tab list when the tab at `pos' goes.                    *)
Removed(pos) ==
  /\ pos \in 1 .. Len(tabs)
  /\ tabs' \in Seq(Tab)
  /\ Len(tabs') = Len(tabs) - 1
  /\ \A k \in 1 .. Len(tabs) - 1 :
       tabs'[k] = IF k < pos THEN tabs[k] ELSE tabs[k + 1]

(* What close_tab does: one tab of `v' goes and its session is stopped; if *)
(* `v' was shown, an open VM, or nothing when none is left, is shown.      *)
LEMMA CloseTabEffect ==
  ASSUME TypeOK, NEW v \in Vm, IsOpen(v), CloseTab(v)
  PROVE  \E pos \in 1 .. Len(tabs) :
           /\ Removed(pos)
           /\ tabs[pos].vm = v
           /\ session' = Stopped({tabs[pos].att})
           /\ \/ active # v /\ UNCHANGED <<active, visible>>
              \/ active = v /\ tabs' = <<>> /\ SetActive(None, tabs')
              \/ /\ active = v
                 /\ \E k \in 1 .. Len(tabs') : SetActive(tabs'[k].vm, tabs')
<1> DEFINE pos == FirstTab(v)
           ts  == RemoveAt(tabs, pos)
<1>1. pos \in 1 .. Len(tabs) /\ tabs[pos].vm = v
  BY FirstTabIsTab
<1>2. tabs' = ts
  BY DEF CloseTab
<1>3. Removed(pos)
  BY <1>1, <1>2, RemoveAtProperties DEF Removed, TypeOK
<1>4. session' = Stopped({tabs[pos].att})
  BY DEF CloseTab
<1>5. \/ active # v /\ UNCHANGED <<active, visible>>
      \/ active = v /\ tabs' = <<>> /\ SetActive(None, tabs')
      \/ /\ active = v
         /\ \E k \in 1 .. Len(tabs') : SetActive(tabs'[k].vm, tabs')
  <2>0. Len(tabs') \in Nat /\ Len(tabs) \in Nat
    BY <1>3 DEF Removed, TypeOK
  <2>1. CASE active # v
    BY <2>1 DEF CloseTab
  <2>2. CASE active = v /\ ts = <<>>
    BY <1>2, <2>2 DEF CloseTab
  <2>3. CASE active = v /\ ts # <<>>
    <3>1. Len(tabs') >= 1
      BY <1>2, <1>3, <2>0, <2>3 DEF Removed
    <3>2. CASE pos <= Len(ts)
      <4>1. SetActive(tabs'[pos].vm, tabs')
        BY <1>2, <2>3, <3>2 DEF CloseTab
      <4> QED  BY <1>1, <1>2, <2>0, <2>3, <3>2, <4>1
    <3>3. CASE ~(pos <= Len(ts))
      <4>1. SetActive(tabs'[Len(tabs')].vm, tabs')
        BY <1>2, <2>3, <3>3 DEF CloseTab
      <4> QED  BY <2>0, <2>3, <3>1, <4>1
    <3> QED  BY <3>2, <3>3
  <2> QED  BY <2>1, <2>2, <2>3
<1> QED  BY <1>1, <1>3, <1>4, <1>5

(* Every tab that is left was there before, in the same order, and every   *)
(* tab but the one at `pos' is left.                                       *)
LEMMA RemovedShifts ==
  ASSUME TypeOK, NEW pos \in 1 .. Len(tabs), Removed(pos)
  PROVE  /\ DOMAIN tabs = 1 .. Len(tabs) /\ Len(tabs) \in Nat
         /\ DOMAIN tabs' = 1 .. Len(tabs') /\ Len(tabs') \in Nat
         /\ \A k \in DOMAIN tabs' :
              \E i \in DOMAIN tabs :
                i = (IF k < pos THEN k ELSE k + 1) /\ tabs'[k] = tabs[i]
         /\ \A i \in DOMAIN tabs :
              i # pos => \E k \in DOMAIN tabs' : tabs'[k] = tabs[i]
<1>1. /\ DOMAIN tabs = 1 .. Len(tabs) /\ Len(tabs) \in Nat
      /\ DOMAIN tabs' = 1 .. Len(tabs') /\ Len(tabs') \in Nat
  BY DEF TypeOK, Removed
<1>2. ASSUME NEW k \in DOMAIN tabs'
      PROVE  \E i \in DOMAIN tabs :
               i = (IF k < pos THEN k ELSE k + 1) /\ tabs'[k] = tabs[i]
  BY <1>1 DEF Removed
<1>3. ASSUME NEW i \in DOMAIN tabs, i # pos
      PROVE  \E k \in DOMAIN tabs' : tabs'[k] = tabs[i]
  <2> DEFINE k == IF i < pos THEN i ELSE i - 1
  <2>1. k \in 1 .. Len(tabs) - 1 /\ (k < pos => k = i) /\ (~(k < pos) => k + 1 = i)
    BY <1>1, <1>3
  <2>2. k \in DOMAIN tabs' /\ tabs'[k] = tabs[i]
    BY <1>1, <2>1 DEF Removed
  <2> QED  BY <2>2
<1> QED  BY <1>1, <1>2, <1>3

----------------------------------------------------------------------------
(* Closing a tab, on its own account: what it keeps of the invariant.      *)

(* The part of the invariant that speaks of the tab list and the sessions. *)
TabInv ==
  /\ ActiveIsOpen
  /\ OnlyShownTabConverts
  /\ ProjectsContiguous
  /\ NoLeakedSession
  /\ SessionsDistinct

(* set_active leaves exactly the tabs of the shown VM converting.          *)
LEMMA SetActiveShows ==
  ASSUME NEW v, NEW ts \in Seq(Tab), SetActive(v, ts),
         \A i, j \in DOMAIN ts : ts[i].att = ts[j].att => i = j
  PROVE  /\ active' = v
         /\ \A i \in DOMAIN ts : visible'[ts[i].att] <=> ts[i].vm = active'
<1>1. active' = v
  BY DEF SetActive
<1>2. ASSUME NEW i \in DOMAIN ts
      PROVE  visible'[ts[i].att] <=> ts[i].vm = active'
  <2>1. ts[i].att \in Attempt
    <3>1. ts[i] \in Tab
      OBVIOUS
    <3> QED  BY <3>1 DEF Tab
  <2>2. visible'[ts[i].att] = \E j \in DOMAIN ts : ts[j].att = ts[i].att /\ ts[j].vm = v
    BY <2>1 DEF SetActive
  <2> QED  BY <1>1, <2>2
<1> QED  BY <1>1, <1>2

(* close_tab keeps the tab list, the shown tab and the sessions in step.   *)
LEMMA CloseTabKeeps ==
  ASSUME TypeOK, TabInv, NEW v \in Vm, IsOpen(v), CloseTab(v)
  PROVE  /\ TabInv'
         /\ tabs' \in Seq(Tab)
         /\ active' \in Vm \union {None}
         /\ session' \in [Attempt -> SessionState]
         /\ visible' \in [Attempt -> BOOLEAN]
         /\ \A k \in DOMAIN tabs' : \E i \in DOMAIN tabs : tabs'[k] = tabs[i]
<1>1. PICK pos \in 1 .. Len(tabs) :
           /\ Removed(pos)
           /\ tabs[pos].vm = v
           /\ session' = Stopped({tabs[pos].att})
           /\ \/ active # v /\ UNCHANGED <<active, visible>>
              \/ active = v /\ tabs' = <<>> /\ SetActive(None, tabs')
              \/ /\ active = v
                 /\ \E k \in 1 .. Len(tabs') : SetActive(tabs'[k].vm, tabs')
  BY CloseTabEffect
<1>2. /\ DOMAIN tabs = 1 .. Len(tabs) /\ Len(tabs) \in Nat
      /\ DOMAIN tabs' = 1 .. Len(tabs') /\ Len(tabs') \in Nat
      /\ \A k \in DOMAIN tabs' :
           \E i \in DOMAIN tabs :
             i = (IF k < pos THEN k ELSE k + 1) /\ tabs'[k] = tabs[i]
      /\ \A i \in DOMAIN tabs :
           i # pos => \E k \in DOMAIN tabs' : tabs'[k] = tabs[i]
  BY <1>1, RemovedShifts
<1>3. tabs' \in Seq(Tab)
  BY <1>1 DEF Removed
<1>4. SessionsDistinct'
  BY <1>1, <1>2 DEF SessionsDistinct, TabInv
<1>5. ProjectsContiguous'
  <2> SUFFICES ASSUME NEW i \in DOMAIN tabs', NEW j \in DOMAIN tabs',
                      NEW k \in DOMAIN tabs', i < j, j < k,
                      ProjectOf[tabs'[i].vm] = ProjectOf[tabs'[k].vm]
               PROVE  ProjectOf[tabs'[j].vm] = ProjectOf[tabs'[i].vm]
    BY DEF ProjectsContiguous
  <2> DEFINE sh(n) == IF n < pos THEN n ELSE n + 1
  <2>1. /\ sh(i) \in DOMAIN tabs /\ tabs'[i] = tabs[sh(i)]
        /\ sh(j) \in DOMAIN tabs /\ tabs'[j] = tabs[sh(j)]
        /\ sh(k) \in DOMAIN tabs /\ tabs'[k] = tabs[sh(k)]
    BY <1>2
  <2>2. sh(i) < sh(j) /\ sh(j) < sh(k)
    BY <1>2
  <2> HIDE DEF sh
  <2> QED  BY <2>1, <2>2 DEF TabInv, ProjectsContiguous
<1>6. NoLeakedSession'
  <2> SUFFICES ASSUME NEW a \in Attempt, session'[a] = "live"
               PROVE  \E k \in DOMAIN tabs' : tabs'[k].att = a
    BY DEF NoLeakedSession
  <2>1. session[a] = "live" /\ a # tabs[pos].att
    BY <1>1 DEF Stopped
  <2>2. PICK i \in DOMAIN tabs : tabs[i].att = a
    BY <2>1 DEF TabInv, NoLeakedSession
  <2> QED  BY <1>2, <2>1, <2>2
<1>7. ActiveIsOpen' /\ OnlyShownTabConverts' /\ active' \in Vm \union {None}
      /\ visible' \in [Attempt -> BOOLEAN]
  <2>1. CASE active # v /\ UNCHANGED <<active, visible>>
    <3>1. OnlyShownTabConverts'
      BY <1>2, <2>1 DEF TabInv, OnlyShownTabConverts
    <3>2. tabs # <<>>
      BY <1>2
    <3>3. PICK i \in DOMAIN tabs : tabs[i].vm = active
      BY <3>2 DEF TabInv, ActiveIsOpen, IsOpen
    <3>4. PICK k \in DOMAIN tabs' : tabs'[k] = tabs[i]
      BY <1>1, <1>2, <2>1, <3>3
    <3>5. active # None /\ tabs' # <<>>
      BY <1>2, <3>2, <3>4 DEF TabInv, ActiveIsOpen
    <3>6. ActiveIsOpen'
      BY <2>1, <3>3, <3>4, <3>5 DEF ActiveIsOpen, IsOpen
    <3> QED  BY <2>1, <3>1, <3>6 DEF TypeOK
  <2>2. CASE active = v /\ tabs' = <<>> /\ SetActive(None, tabs')
    <3>1. ActiveIsOpen' /\ active' \in Vm \union {None}
      BY <2>2 DEF ActiveIsOpen, SetActive
    <3>2. OnlyShownTabConverts'
      BY <1>3, <1>4, <2>2, SetActiveShows DEF OnlyShownTabConverts, SessionsDistinct
    <3>3. visible' \in [Attempt -> BOOLEAN]
      BY <2>2 DEF SetActive, TypeOK
    <3> QED  BY <3>1, <3>2, <3>3
  <2>3. CASE active = v /\ \E k \in 1 .. Len(tabs') : SetActive(tabs'[k].vm, tabs')
    <3>1. PICK k \in 1 .. Len(tabs') : SetActive(tabs'[k].vm, tabs')
      BY <2>3
    <3>2. tabs'[k].vm \in Vm /\ k \in DOMAIN tabs'
      <4>1. k \in DOMAIN tabs' /\ tabs'[k] \in Tab
        BY <1>2, <1>3
      <4> QED  BY <4>1 DEF Tab
    <3>3. ActiveIsOpen' /\ active' \in Vm \union {None}
      <4>1. active' = tabs'[k].vm /\ tabs' # <<>>
        BY <1>2, <3>1, <3>2 DEF SetActive
      <4>2. active' # None
        BY <3>2, <4>1, NoneAssumption
      <4> QED  BY <3>2, <4>1, <4>2 DEF ActiveIsOpen, IsOpen
    <3>4. OnlyShownTabConverts'
      BY <1>3, <1>4, <3>1, SetActiveShows DEF OnlyShownTabConverts, SessionsDistinct
    <3>5. visible' \in [Attempt -> BOOLEAN]
      BY <3>1 DEF SetActive, TypeOK
    <3> QED  BY <3>3, <3>4, <3>5
  <2> QED  BY <1>1, <2>1, <2>2, <2>3
<1>8. session' \in [Attempt -> SessionState]
  BY <1>1 DEF Stopped, TypeOK, SessionState
<1> QED  BY <1>2, <1>3, <1>4, <1>5, <1>6, <1>7, <1>8 DEF TabInv

----------------------------------------------------------------------------
(* The steps, one lemma for those that insert or remove tabs.              *)

(* `r' is the list of tabs `s' with `e' at position i.                      *)
Inserted(s, i, e, r) ==
  /\ r \in Seq(Tab)
  /\ Len(r) = Len(s) + 1
  /\ \A k \in 1 .. Len(s) + 1 :
       r[k] = IF k < i THEN s[k] ELSE IF k = i THEN e ELSE s[k - 1]

(* InsertAtProperties, for a list of tabs.                                  *)
LEMMA InsertTab ==
  ASSUME NEW s \in Seq(Tab), NEW i \in 1 .. Len(s) + 1, NEW e \in Tab
  PROVE  Inserted(s, i, e, InsertAt(s, i, e))
<1>1. s \in Seq(Tab) /\ i \in 1 .. Len(s) + 1 /\ e \in Tab
  OBVIOUS
<1> QED  BY ONLY <1>1, InsertAtProperties, SMTT(60) DEF Inserted

(* start_console's success: the inserted tab keeps its project together    *)
(* and is the shown one.                                                   *)
LEMMA ConnectedKeeps ==
  ASSUME Inv, NEW a \in Attempt, Connected(a)
  PROVE  Inv'
<1> DEFINE v == task[a].vm
           p == InsertPos(v)
           t == [vm |-> v, att |-> a]
           n == Len(tabs)
<1>1. /\ task[a].stage = "asked" /\ v \in Vm /\ t \in Tab
      /\ \A b \in Attempt : task[b] \in Task
  BY DEF Connected, Inv, Owned, TasksHaveVms, Pending, Tab, TypeOK
<1>2. /\ p \in 1 .. n + 1
      /\ \A i \in 1 .. n :
           ProjectOf[tabs[i].vm] = ProjectOf[v]
             => i < p /\ p - 1 \in 1 .. n /\ ProjectOf[tabs[p - 1].vm] = ProjectOf[v]
  BY <1>1, InsertPosIsPosition DEF Inv
<1>3. /\ tabs' \in Seq(Tab) /\ Len(tabs') = n + 1
      /\ \A k \in 1 .. n + 1 :
           tabs'[k] = IF k < p THEN tabs[k] ELSE IF k = p THEN t ELSE tabs[k - 1]
  <2>1. tabs \in Seq(Tab)
    BY DEF Inv, TypeOK
  <2>2. tabs' = InsertAt(tabs, p, t)
    BY DEF Connected
  <2>3. p \in 1 .. Len(tabs) + 1 /\ t \in Tab
    BY <1>1, <1>2
  <2> HIDE DEF p, t
  <2>4. Inserted(tabs, p, t, InsertAt(tabs, p, t))
    BY ONLY <2>1, <2>3, InsertTab
  <2> QED  BY ONLY <2>2, <2>4 DEF Inserted
<1>4. /\ n \in Nat /\ DOMAIN tabs = 1 .. n /\ DOMAIN tabs' = 1 .. n + 1
      /\ p \in DOMAIN tabs' /\ tabs'[p] = t
      /\ \A i \in DOMAIN tabs : \E k \in DOMAIN tabs' :
           k = (IF i < p THEN i ELSE i + 1) /\ tabs'[k] = tabs[i]
      /\ \A k \in DOMAIN tabs' : k # p =>
           \E i \in DOMAIN tabs :
             i = (IF k < p THEN k ELSE k - 1) /\ tabs'[k] = tabs[i]
  <2>1. n \in Nat /\ DOMAIN tabs = 1 .. n /\ DOMAIN tabs' = 1 .. n + 1
    BY <1>3 DEF Inv, TypeOK
  <2>2. p \in DOMAIN tabs' /\ tabs'[p] = t
    BY <1>2, <1>3, <2>1
  <2>3. ASSUME NEW i \in DOMAIN tabs
        PROVE  \E k \in DOMAIN tabs' :
                 k = (IF i < p THEN i ELSE i + 1) /\ tabs'[k] = tabs[i]
    <3> DEFINE k == IF i < p THEN i ELSE i + 1
    <3>1. k \in 1 .. n + 1 /\ k # p /\ (k < p => k = i) /\ (~(k < p) => k - 1 = i)
      BY <1>2, <2>1
    <3>2. tabs'[k] = tabs[i]
      BY <1>3, <3>1
    <3> QED  BY <2>1, <3>1, <3>2
  <2>4. ASSUME NEW k \in DOMAIN tabs', k # p
        PROVE  \E i \in DOMAIN tabs :
                 i = (IF k < p THEN k ELSE k - 1) /\ tabs'[k] = tabs[i]
    <3> DEFINE i == IF k < p THEN k ELSE k - 1
    <3>1. i \in 1 .. n
      BY <1>2, <2>1, <2>4
    <3>2. tabs'[k] = tabs[i]
      BY <1>3, <2>1, <2>4
    <3> QED  BY <2>1, <3>1, <3>2
  <2> QED  BY <2>1, <2>2, <2>3, <2>4
<1>5. /\ task' = [task EXCEPT ![a].stage = "streaming"]
      /\ connecting' = connecting \ {v}
      /\ session' = [session EXCEPT ![a] = "live"]
      /\ SetActive(v, tabs')
      /\ UNCHANGED <<queued, current, orphaned>>
  BY DEF Connected
<1> HIDE DEF v, p, t, n
<1>6. \A i \in DOMAIN tabs : tabs[i].att # a
  BY <1>1 DEF Inv, Owned, TabsAreInserted
<1>7. t.vm = v /\ t.att = a
  BY DEF t
<1>8. SessionsDistinct'
  <2> SUFFICES ASSUME NEW k \in DOMAIN tabs', NEW l \in DOMAIN tabs',
                      tabs'[k].att = tabs'[l].att
               PROVE  k = l
    BY DEF SessionsDistinct
  <2>1. CASE k = p \/ l = p
    BY <1>4, <1>6, <1>7, <2>1
  <2>2. CASE k # p /\ l # p
    <3>1. PICK i \in DOMAIN tabs :
            i = (IF k < p THEN k ELSE k - 1) /\ tabs'[k] = tabs[i]
      BY <1>4, <2>2
    <3>2. PICK j \in DOMAIN tabs :
            j = (IF l < p THEN l ELSE l - 1) /\ tabs'[l] = tabs[j]
      BY <1>4, <2>2
    <3>3. i = j
      BY <3>1, <3>2 DEF Inv, Owned, SessionsDistinct
    <3> QED  BY <1>2, <1>4, <2>2, <3>1, <3>2, <3>3
  <2> QED  BY <2>1, <2>2
<1>9. ActiveIsOpen' /\ OnlyShownTabConverts'
  <2>1. active' = v
    BY <1>5 DEF SetActive
  <2>2. tabs' # <<>> /\ v # None
    BY <1>1, <1>4, NoneAssumption
  <2>3. ActiveIsOpen'
    BY <1>4, <1>7, <2>1, <2>2 DEF ActiveIsOpen, IsOpen
  <2>4. OnlyShownTabConverts'
    BY <1>3, <1>5, <1>8, SetActiveShows DEF OnlyShownTabConverts, SessionsDistinct
  <2> QED  BY <2>3, <2>4
<1>10. ProjectsContiguous'
  <2> SUFFICES ASSUME NEW i \in DOMAIN tabs', NEW j \in DOMAIN tabs',
                      NEW k \in DOMAIN tabs', i < j, j < k,
                      ProjectOf[tabs'[i].vm] = ProjectOf[tabs'[k].vm]
               PROVE  ProjectOf[tabs'[j].vm] = ProjectOf[tabs'[i].vm]
    BY DEF ProjectsContiguous
  <2> DEFINE old(m) == IF m < p THEN m ELSE m - 1
             P(m) == ProjectOf[tabs[m].vm]
             Q(m) == ProjectOf[tabs'[m].vm]
             pr == ProjectOf[v]
  <2>0. /\ i \in Int /\ j \in Int /\ k \in Int /\ p \in Int
        /\ i \in 1 .. n + 1 /\ j \in 1 .. n + 1 /\ k \in 1 .. n + 1
    BY <1>2, <1>4
  <2>1. \A m \in DOMAIN tabs' : m # p => old(m) \in DOMAIN tabs /\ Q(m) = P(old(m))
    BY <1>4
  <2>2. Q(p) = pr
    BY <1>4, <1>7
  <2>3. \A m \in DOMAIN tabs :
          P(m) = pr => m < p /\ p - 1 \in DOMAIN tabs /\ P(p - 1) = pr
    BY <1>2, <1>4
  <2>4. \A x, y, z \in DOMAIN tabs : x < y /\ y < z /\ P(x) = P(z) => P(y) = P(x)
    BY DEF Inv, ProjectsContiguous
  <2>5. Q(i) = Q(k)
    OBVIOUS
  <2> SUFFICES Q(j) = Q(i)
    OBVIOUS
  <2> HIDE DEF P, Q, pr
  <2>6. CASE i = p
    <3>1. old(k) \in DOMAIN tabs /\ P(old(k)) = pr /\ ~(old(k) < p)
      BY <2>0, <2>1, <2>2, <2>5, <2>6
    <3> QED  BY <2>3, <3>1
  <2>7. CASE k = p
    <3>1. old(i) \in DOMAIN tabs /\ P(old(i)) = pr /\ old(i) = i
      BY <2>0, <2>1, <2>2, <2>5, <2>7
    <3>2. p - 1 \in DOMAIN tabs /\ P(p - 1) = pr
      BY <2>3, <3>1
    <3>3. old(j) \in DOMAIN tabs /\ Q(j) = P(old(j)) /\ old(j) = j
      BY <2>0, <2>1, <2>7
    <3>4. CASE j = p - 1
      BY <2>2, <2>5, <2>7, <3>2, <3>3, <3>4
    <3>5. CASE j # p - 1
      <4>1. i < j /\ j < p - 1
        BY <2>0, <2>7, <3>5
      <4>2. P(j) = P(i)
        BY <2>4, <3>1, <3>2, <3>3, <4>1
      <4> QED  BY <2>2, <2>5, <2>7, <3>1, <3>3, <4>2
    <3> QED  BY <3>4, <3>5
  <2>8. CASE i # p /\ k # p
    <3>1. /\ old(i) \in DOMAIN tabs /\ Q(i) = P(old(i))
          /\ old(k) \in DOMAIN tabs /\ Q(k) = P(old(k))
      BY <2>1, <2>8
    <3>2. CASE j = p
      (* i is before the new tab and k after it.                           *)
      <4>1. old(i) = i /\ old(k) = k - 1 /\ i <= p - 1 /\ p - 1 < k
        BY <2>0, <2>8, <3>2
      <4>2. CASE pr = Q(i)
        BY <2>2, <3>2, <4>2
      <4>3. CASE pr # Q(i)
        (* Then the new tab follows the last one of its project, or stands *)
        (* at the very end: either way nothing of Q(i) can come after it.  *)
        <5>1. CASE \E m \in DOMAIN tabs : P(m) = pr
          <6>1. p - 1 \in DOMAIN tabs /\ P(p - 1) = pr
            BY <2>3, <5>1
          <6>2. i # p - 1
            BY <3>1, <4>1, <4>3, <6>1
          <6>3. i < p - 1 /\ p - 1 < k
            BY <2>0, <4>1, <6>2
          <6>4. CASE k - 1 = p - 1
            BY <2>5, <3>1, <4>1, <4>3, <6>1, <6>4
          <6>5. CASE k - 1 # p - 1
            <7>1. p - 1 < k - 1
              BY <2>0, <3>2, <6>5
            <7>2. P(p - 1) = P(i)
              BY <2>4, <2>5, <3>1, <4>1, <6>1, <6>3, <7>1
            <7> QED  BY <3>1, <4>1, <4>3, <6>1, <7>2
          <6> QED  BY <6>4, <6>5
        <5>2. CASE ~ \E m \in DOMAIN tabs : P(m) = pr
          <6>1. p = n + 1
            <7>1. {m \in DOMAIN tabs : ProjectOf[tabs[m].vm] = ProjectOf[v]} = {}
              BY <5>2 DEF P, pr
            <7> QED  BY <7>1 DEF p, n, InsertPos
          <6> QED  BY <2>0, <3>2, <6>1
        <5> QED  BY <5>1, <5>2
      <4> QED  BY <4>2, <4>3
    <3>3. CASE j # p
      <4>1. old(j) \in DOMAIN tabs /\ Q(j) = P(old(j))
        BY <2>1, <3>3
      <4>2. old(i) < old(j) /\ old(j) < old(k)
        BY <2>0, <2>8, <3>3
      <4> HIDE DEF old
      <4> QED  BY <2>4, <2>5, <3>1, <4>1, <4>2
    <3> QED  BY <3>2, <3>3
  <2> QED  BY <2>6, <2>7, <2>8
<1>11. NoLeakedSession'
  <2> SUFFICES ASSUME NEW b \in Attempt, session'[b] = "live"
               PROVE  \E k \in DOMAIN tabs' : tabs'[k].att = b
    BY DEF NoLeakedSession
  <2>1. CASE b = a
    BY <1>4, <1>7, <2>1
  <2>2. CASE b # a
    <3>1. session[b] = "live"
      BY <1>5, <2>2 DEF Inv, TypeOK
    <3>2. PICK i \in DOMAIN tabs : tabs[i].att = b
      BY <3>1 DEF Inv, NoLeakedSession
    <3> QED  BY <1>4, <3>2
  <2> QED  BY <2>1, <2>2
<1>12. \A b \in Attempt :
         /\ task'[b].vm = task[b].vm
         /\ task'[b].stage = IF b = a THEN "streaming" ELSE task[b].stage
  BY <1>1, <1>5 DEF Inv, TypeOK, Task
<1>13. TasksHaveVms' /\ TabsAreInserted'
  <2>1. TasksHaveVms'
    BY <1>1, <1>12 DEF Inv, Owned, TasksHaveVms, v
  <2>2. ASSUME NEW k \in DOMAIN tabs'
        PROVE  task'[tabs'[k].att].stage \in {"streaming", "done"}
    <3>1. CASE k = p
      BY <1>4, <1>7, <1>12, <3>1
    <3>2. CASE k # p
      <4>1. PICK i \in DOMAIN tabs : tabs'[k] = tabs[i]
        BY <1>4, <3>2
      <4>2. tabs[i].att \in Attempt
        <5>1. tabs[i] \in Tab
          BY DEF Inv, TypeOK
        <5> QED  BY <5>1 DEF Tab
      <4> QED  BY <1>6, <1>12, <4>1, <4>2 DEF Inv, Owned, TabsAreInserted
    <3> QED  BY <3>1, <3>2
  <2> QED  BY <2>1, <2>2 DEF TabsAreInserted
<1>14. TypeOK'
  <2>1. active' \in Vm \union {None} /\ visible' \in [Attempt -> BOOLEAN]
    BY <1>1, <1>5 DEF SetActive, Inv, TypeOK
  <2>2. task' \in [Attempt -> Task]
    <3> DEFINE r == [task[a] EXCEPT !.stage = "streaming"]
    <3>1. r \in Task
      <4>1. task[a] \in Task
        BY DEF Inv, TypeOK
      <4> QED  BY <4>1 DEF Task, Stage
    <3>2. task' = [task EXCEPT ![a] = r]
      BY <1>5
    <3> HIDE DEF r
    <3> QED  BY <3>1, <3>2 DEF Inv, TypeOK
  <2>3. session' \in [Attempt -> SessionState]
    BY <1>5 DEF Inv, TypeOK, SessionState
  <2> QED  BY <1>3, <1>5, <2>1, <2>2, <2>3 DEF Inv, TypeOK
<1> QED  BY <1>8, <1>9, <1>10, <1>11, <1>13, <1>14 DEF Inv, Owned

(* The effects that a step which closes the tab of `v' shares: it may move *)
(* tasks to their end, and touches nothing else of the tasks.              *)
LEMMA CloseTabStepKeeps ==
  ASSUME Inv, NEW v \in Vm, IsOpen(v), CloseTab(v),
         UNCHANGED <<connecting, current, orphaned>>,
         queued' \in [Attempt -> BOOLEAN],
         task' \in [Attempt -> Task],
         \A a \in Attempt :
           \/ task'[a] = task[a]
           \/ task[a].stage = "streaming" /\ task'[a].stage = "done"
  PROVE  Inv'
<1>1. /\ TabInv'
      /\ tabs' \in Seq(Tab)
      /\ active' \in Vm \union {None}
      /\ session' \in [Attempt -> SessionState]
      /\ visible' \in [Attempt -> BOOLEAN]
      /\ \A k \in DOMAIN tabs' : \E i \in DOMAIN tabs : tabs'[k] = tabs[i]
  BY CloseTabKeeps DEF Inv, Owned, TabInv
<1>2. TypeOK'
  BY <1>1 DEF Inv, TypeOK
<1>3. TasksHaveVms'
  BY DEF Inv, Owned, TasksHaveVms, Pending
<1>4. TabsAreInserted'
  <2> SUFFICES ASSUME NEW k \in DOMAIN tabs'
               PROVE  task'[tabs'[k].att].stage \in {"streaming", "done"}
    BY DEF TabsAreInserted
  <2>1. PICK i \in DOMAIN tabs : tabs'[k] = tabs[i]
    BY <1>1
  <2>2. tabs[i].att \in Attempt
    <3>1. tabs[i] \in Tab
      BY DEF Inv, TypeOK
    <3> QED  BY <3>1 DEF Tab
  <2> QED  BY <2>1, <2>2 DEF Inv, Owned, TabsAreInserted
<1> QED  BY <1>1, <1>2, <1>3, <1>4 DEF Inv, Owned, TabInv

(* A step that leaves the tabs, what is shown, and the sessions alone, and *)
(* moves the tasks without touching those that have a tab.                 *)
LEMMA TaskStepKeeps ==
  ASSUME Inv, UNCHANGED <<tabs, active, session, visible, current, orphaned>>,
         queued' \in [Attempt -> BOOLEAN],
         task' \in [Attempt -> Task],
         connecting' \in SUBSET Vm,
         TasksHaveVms',
         \A a \in Attempt : task[a].stage \in {"streaming", "done"}
                              => task'[a].stage \in {"streaming", "done"}
  PROVE  Inv'
<1>1. TypeOK'
  BY DEF Inv, TypeOK
<1>2. TabsAreInserted' /\ SessionsDistinct'
  <2>1. \A i \in DOMAIN tabs : tabs[i] \in Tab
    BY DEF Inv, TypeOK
  <2>2. \A i \in DOMAIN tabs : tabs[i].att \in Attempt
    BY <2>1 DEF Tab
  <2> QED  BY <2>2 DEF Inv, Owned, TabsAreInserted, SessionsDistinct
<1>3. ActiveIsOpen' /\ OnlyShownTabConverts' /\ ProjectsContiguous'
      /\ NoLeakedSession'
  BY DEF Inv, ActiveIsOpen, IsOpen, OnlyShownTabConverts, ProjectsContiguous,
         NoLeakedSession
<1> QED  BY <1>1, <1>2, <1>3 DEF Inv, Owned

(* A step that only tells a session, or its channel, something.            *)
LEMMA SessionStepKeeps ==
  ASSUME Inv, UNCHANGED <<tabs, active, connecting, task, visible, current,
                          orphaned>>,
         queued' \in [Attempt -> BOOLEAN],
         session' \in [Attempt -> SessionState],
         \A a \in Attempt : session'[a] = "live" => session[a] = "live"
  PROVE  Inv'
<1>1. TypeOK'
  BY DEF Inv, TypeOK
<1>2. Owned'
  BY DEF Inv, Owned, TasksHaveVms, TabsAreInserted, SessionsDistinct
<1>3. ActiveIsOpen' /\ OnlyShownTabConverts' /\ ProjectsContiguous'
      /\ NoLeakedSession'
  BY DEF Inv, ActiveIsOpen, IsOpen, OnlyShownTabConverts, ProjectsContiguous,
         NoLeakedSession
<1> QED  BY <1>1, <1>2, <1>3 DEF Inv

----------------------------------------------------------------------------
(* The invariant, action by action.                                        *)

\* Before the first console is opened there is no tab, no task and no session
\* for the invariant to be wrong about (main).
LEMMA InvInit == Init => Inv
<1> SUFFICES ASSUME Init
             PROVE  Inv
  OBVIOUS
<1>1. TypeOK
  <2>1. NoTask("idle") \in Task
    BY DEF NoTask, Task, Stage
  <2>2. task \in [Attempt -> Task]
    BY <2>1 DEF Init
  <2>3. /\ session \in [Attempt -> SessionState]
        /\ visible \in [Attempt -> BOOLEAN]
        /\ queued \in [Attempt -> BOOLEAN]
    BY DEF Init, SessionState
  <2>4. /\ active \in Vm \union {None} /\ connecting \in SUBSET Vm
        /\ current \in Remote /\ orphaned \in [Vm -> SUBSET Attempt]
    BY RemoteAssumption DEF Init
  <2>5. tabs \in Seq(Tab)
    BY DEF Init
  <2> QED  BY <2>2, <2>3, <2>4, <2>5 DEF TypeOK
<1>2. Owned
  BY DEF Init, NoTask, Owned, TasksHaveVms, TabsAreInserted, SessionsDistinct, Pending
<1>3. ActiveIsOpen /\ OnlyShownTabConverts /\ ProjectsContiguous
  BY DEF Init, ActiveIsOpen, OnlyShownTabConverts, ProjectsContiguous
<1>4. NoLeakedSession
  BY DEF Init, NoLeakedSession
<1> QED  BY <1>1, <1>2, <1>3, <1>4 DEF Inv

\* What the user does to the tab bar and to the takeover prompt (open_or_focus,
\* focus_tab, close_tab, switch_remote, the answers of the prompt) keeps the
\* invariant.
LEMMA UserStepKeeps == Inv /\ UserStep => Inv'
<1> SUFFICES ASSUME Inv, UserStep
             PROVE  Inv'
  OBVIOUS
<1> USE DEF Inv
<1>1. ASSUME NEW v \in Vm, FocusTab(v)
      PROVE  Inv'
  <2>1. active' = v /\ visible' \in [Attempt -> BOOLEAN] /\ v # None
    <3>1. active' = v /\ v # None
      BY <1>1, NoneAssumption DEF FocusTab, SetActive
    <3>2. visible' \in [Attempt -> BOOLEAN]
      BY <1>1 DEF FocusTab, SetActive, TypeOK
    <3> QED  BY <3>1, <3>2
  <2>2. OnlyShownTabConverts'
    <3>1. SetActive(v, tabs) /\ tabs' = tabs /\ tabs \in Seq(Tab)
      BY <1>1 DEF FocusTab, TypeOK
    <3> QED  BY <3>1, SetActiveShows DEF OnlyShownTabConverts, Owned, SessionsDistinct
  <2>3. ActiveIsOpen'
    BY <1>1, <2>1 DEF FocusTab, ActiveIsOpen, IsOpen, TypeOK
  <2>4. TypeOK'
    BY <1>1, <2>1 DEF FocusTab, TypeOK
  <2>5. Owned' /\ ProjectsContiguous' /\ NoLeakedSession'
    BY <1>1 DEF FocusTab, Owned, TasksHaveVms, TabsAreInserted, SessionsDistinct,
                ProjectsContiguous, NoLeakedSession
  <2> QED  BY <2>2, <2>3, <2>4, <2>5
<1>2. ASSUME NEW v \in Vm, UserClosesTab(v)
      PROVE  Inv'
  BY <1>2, CloseTabStepKeeps DEF UserClosesTab, TypeOK
<1>3. ASSUME NEW v \in Vm, NEW a \in Attempt, Open(v, a)
      PROVE  Inv'
  <2>1. /\ \A b \in Attempt \ {a} : task'[b] = task[b]
        /\ task'[a].stage = "opening" /\ task'[a].vm = v
        /\ task' \in [Attempt -> Task]
    <3> DEFINE r == [task[a] EXCEPT !.stage = "opening", !.vm = v]
    <3>1. r \in Task /\ r.stage = "opening" /\ r.vm = v
      BY DEF TypeOK, Task, Stage
    <3>2. task' = [task EXCEPT ![a] = r]
      BY <1>3 DEF Open
    <3> HIDE DEF r
    <3>3. /\ \A b \in Attempt \ {a} : task'[b] = task[b]
          /\ task'[a] = r /\ task' \in [Attempt -> Task]
      BY <3>1, <3>2 DEF TypeOK
    <3> QED  BY <1>3, <3>1, <3>3 DEF Open
  <2>2. connecting' = connecting \union {v} /\ task[a].stage = "idle"
    BY <1>3 DEF Open
  <2>3. TasksHaveVms'
    BY <2>1 DEF Owned, TasksHaveVms
  <2>4. UNCHANGED <<tabs, active, session, visible, queued, current, orphaned>>
    BY <1>3 DEF Open
  <2> QED  BY <2>1, <2>2, <2>3, <2>4, TaskStepKeeps DEF TypeOK
<1>4. ASSUME NEW r \in Remote, SwitchRemote(r)
      PROVE  Inv'
  <2>1. /\ tabs' = <<>> /\ active' = None /\ connecting' = {} /\ current' = r
        /\ session' = Stopped({tabs[i].att : i \in DOMAIN tabs})
        /\ orphaned' = [v \in Vm |-> UnderWay(v)]
        /\ UNCHANGED <<task, visible, queued>>
    BY <1>4 DEF SwitchRemote
  <2>2. session' \in [Attempt -> SessionState]
    BY <2>1 DEF Stopped, TypeOK, SessionState
  <2>3. orphaned' \in [Vm -> SUBSET Attempt]
    BY <2>1 DEF UnderWay
  <2>4. tabs' \in Seq(Tab) /\ DOMAIN tabs' = {}
    BY <2>1
  <2>5. TypeOK'
    BY <2>1, <2>2, <2>3, <2>4 DEF TypeOK
  <2>6. Owned' /\ ActiveIsOpen' /\ OnlyShownTabConverts' /\ ProjectsContiguous'
    BY <2>1, <2>4 DEF Owned, TasksHaveVms, TabsAreInserted, SessionsDistinct,
                ActiveIsOpen, OnlyShownTabConverts, ProjectsContiguous
  <2>7. NoLeakedSession'
    <3>1. \A a \in Attempt : session'[a] # "live"
      BY <2>1 DEF Stopped, NoLeakedSession
    <3> QED  BY <3>1 DEF NoLeakedSession
  <2> QED  BY <2>5, <2>6, <2>7
<1>5. ASSUME NEW a \in Attempt, DeclineTakeOver(a)
      PROVE  Inv'
  <2>1. /\ \A b \in Attempt \ {a} : task'[b] = task[b]
        /\ task'[a].stage = "done"
        /\ task' \in [Attempt -> Task]
        /\ connecting' = connecting \ {task[a].vm}
        /\ task[a].stage = "prompting"
        /\ UNCHANGED <<tabs, active, session, visible, queued, current, orphaned>>
    BY <1>5 DEF DeclineTakeOver, NoTask, TypeOK, Task, Stage
  <2>2. TasksHaveVms'
    BY <2>1 DEF Owned, TasksHaveVms, Pending
  <2> QED  BY <2>1, <2>2, TaskStepKeeps DEF TypeOK
<1>6. ASSUME NEW a \in Attempt, AcceptTakeOver(a)
      PROVE  Inv'
  <2>1. /\ \A b \in Attempt \ {a} : task'[b] = task[b]
        /\ task'[a].stage = "opening" /\ task'[a].vm = task[a].vm
        /\ task' \in [Attempt -> Task]
        /\ task[a].stage = "prompting"
        /\ UNCHANGED <<tabs, active, connecting, session, visible, queued, current,
                       orphaned>>
    <3> DEFINE r == [task[a] EXCEPT !.stage = "opening", !.force = TRUE]
    <3>1. r \in Task /\ r.stage = "opening" /\ r.vm = task[a].vm
      BY DEF TypeOK, Task, Stage
    <3>2. task' = [task EXCEPT ![a] = r]
      BY <1>6 DEF AcceptTakeOver
    <3> HIDE DEF r
    <3>3. /\ \A b \in Attempt \ {a} : task'[b] = task[b]
          /\ task'[a] = r /\ task' \in [Attempt -> Task]
      BY <3>1, <3>2 DEF TypeOK
    <3> QED  BY <1>6, <3>1, <3>3 DEF AcceptTakeOver
  <2>2. TasksHaveVms'
    BY <2>1 DEF Owned, TasksHaveVms, Pending
  <2> QED  BY <2>1, <2>2, TaskStepKeeps DEF TypeOK
<1> QED  BY <1>1, <1>2, <1>3, <1>4, <1>5, <1>6 DEF UserStep

\* The daemon's answer to a request for a console (connect_console's match on
\* start_console's result) keeps the invariant.
LEMMA DaemonStepKeeps ==
  ASSUME Inv, NEW a \in Attempt, DaemonStep(a)
  PROVE  Inv'
<1> USE DEF Inv
<1>1. CASE AskDaemon(a)
  <2>1. /\ \A b \in Attempt \ {a} : task'[b] = task[b]
        /\ task'[a].stage = "asked" /\ task'[a].vm = task[a].vm
        /\ task' \in [Attempt -> Task]
        /\ task[a].stage = "opening"
        /\ UNCHANGED <<tabs, active, connecting, session, visible, queued, current,
                       orphaned>>
    <3> DEFINE r == [task[a] EXCEPT !.stage = "asked", !.remote = current]
    <3>1. r \in Task /\ r.stage = "asked" /\ r.vm = task[a].vm
      BY DEF TypeOK, Task, Stage
    <3>2. task' = [task EXCEPT ![a] = r]
      BY <1>1 DEF AskDaemon
    <3> HIDE DEF r
    <3>3. /\ \A b \in Attempt \ {a} : task'[b] = task[b]
          /\ task'[a] = r /\ task' \in [Attempt -> Task]
      BY <3>1, <3>2 DEF TypeOK
    <3> QED  BY <1>1, <3>1, <3>3 DEF AskDaemon
  <2>2. TasksHaveVms'
    BY <2>1 DEF Owned, TasksHaveVms, Pending
  <2> QED  BY <2>1, <2>2, TaskStepKeeps DEF TypeOK
<1>2. CASE DaemonIsBusy(a)
  <2>1. /\ \A b \in Attempt \ {a} : task'[b] = task[b]
        /\ task'[a].stage = "prompting" /\ task'[a].vm = task[a].vm
        /\ task' \in [Attempt -> Task]
        /\ task[a].stage = "asked"
        /\ UNCHANGED <<tabs, active, connecting, session, visible, queued, current,
                       orphaned>>
    <3> DEFINE r == [task[a] EXCEPT !.stage = "prompting"]
    <3>1. r \in Task /\ r.stage = "prompting" /\ r.vm = task[a].vm
      <4>1. task[a] \in Task
        BY DEF TypeOK
      <4> QED  BY <4>1 DEF Task, Stage
    <3>2. task' = [task EXCEPT ![a] = r]
      BY <1>2 DEF DaemonIsBusy
    <3> HIDE DEF r
    <3>3. /\ \A b \in Attempt \ {a} : task'[b] = task[b]
          /\ task'[a] = r /\ task' \in [Attempt -> Task]
      BY <3>1, <3>2 DEF TypeOK
    <3> QED  BY <1>2, <3>1, <3>3 DEF DaemonIsBusy
  <2>2. TasksHaveVms'
    BY <2>1 DEF Owned, TasksHaveVms, Pending
  <2> QED  BY <2>1, <2>2, TaskStepKeeps DEF TypeOK
<1>3. CASE Fail(a)
  <2>1. /\ \A b \in Attempt \ {a} : task'[b] = task[b]
        /\ task'[a].stage = "done"
        /\ task' \in [Attempt -> Task]
        /\ connecting' = connecting \ {task[a].vm}
        /\ task[a].stage \in {"opening", "asked"}
        /\ UNCHANGED <<tabs, active, session, visible, queued, current, orphaned>>
    BY <1>3 DEF Fail, NoTask, TypeOK, Task, Stage
  <2>2. TasksHaveVms'
    BY <2>1 DEF Owned, TasksHaveVms, Pending
  <2> QED  BY <2>1, <2>2, TaskStepKeeps DEF TypeOK
<1>4. CASE Connected(a)
  BY <1>4, ConnectedKeeps
<1> QED  BY <1>1, <1>2, <1>3, <1>4 DEF DaemonStep

\* The steps of build_session on the glib thread end a session but never
\* touch the tab list, and keep the invariant.
LEMMA GlibStepKeeps ==
  ASSUME Inv, NEW a \in Attempt, GlibStep(a)
  PROVE  Inv'
<1> USE DEF Inv
<1>1. CASE SendFrame(a)
  BY <1>1, SessionStepKeeps DEF SendFrame, TypeOK
<1>2. CASE HandleShutdown(a)
  BY <1>2, SessionStepKeeps DEF HandleShutdown, TypeOK, SessionState
<1>3. CASE Disconnected(a)
  BY <1>3, SessionStepKeeps DEF Disconnected, TypeOK, SessionState
<1>4. CASE FrameTimerEnds(a)
  BY <1>4, SessionStepKeeps DEF FrameTimerEnds, TypeOK, SessionState
<1>5. CASE SendFails(a)
  BY <1>5, SessionStepKeeps DEF SendFails, TypeOK, SessionState
<1> QED  BY <1>1, <1>2, <1>3, <1>4, <1>5 DEF GlibStep

\* The frame pump of a tab, with the close_tab at its end (connect_console),
\* keeps the invariant.
LEMMA PumpStepKeeps ==
  ASSUME Inv, NEW a \in Attempt, PumpStep(a)
  PROVE  Inv'
<1> USE DEF Inv
<1>1. CASE PumpFrame(a)
  BY <1>1, SessionStepKeeps DEF PumpFrame, TypeOK
<1>2. ASSUME task[a].stage = "streaming", task' = [task EXCEPT ![a] = NoTask("done")]
      PROVE  /\ task' \in [Attempt -> Task]
             /\ task'[a].stage = "done"
             /\ \A b \in Attempt \ {a} : task'[b] = task[b]
  BY <1>2 DEF NoTask, TypeOK, Task, Stage
<1>3. ASSUME task[a].stage = "streaming", task' = [task EXCEPT ![a] = NoTask("done")],
             UNCHANGED <<tabs, active, connecting, session, visible, current, orphaned>>,
             queued' \in [Attempt -> BOOLEAN]
      PROVE  Inv'
  <2>1. TasksHaveVms'
    BY <1>2, <1>3 DEF Owned, TasksHaveVms, Pending
  <2> QED  BY <1>2, <1>3, <2>1, TaskStepKeeps DEF TypeOK
<1>4. CASE PumpFindsNoTab(a)
  BY <1>3, <1>4 DEF PumpFindsNoTab, TypeOK
<1>5. CASE PumpEnds(a)
  <2>1. CASE IsOpen(task[a].vm)
    <3>1. task[a].vm \in Vm /\ task[a].stage = "streaming"
      BY <1>5 DEF PumpEnds, Owned, TasksHaveVms
    <3>2. CloseTab(task[a].vm) /\ UNCHANGED <<connecting, queued, current, orphaned>>
      BY <1>5, <2>1 DEF PumpEnds
    <3>3. task' = [task EXCEPT ![a] = NoTask("done")]
      BY <1>5 DEF PumpEnds
    <3>4. /\ task' \in [Attempt -> Task]
          /\ \A b \in Attempt :
               \/ task'[b] = task[b]
               \/ task[b].stage = "streaming" /\ task'[b].stage = "done"
      BY <1>2, <3>1, <3>3
    <3>5. queued' \in [Attempt -> BOOLEAN]
      BY <3>2 DEF TypeOK
    <3> QED  BY <2>1, <3>1, <3>2, <3>4, <3>5, CloseTabStepKeeps
  <2>2. CASE ~IsOpen(task[a].vm)
    BY <1>3, <1>5, <2>2 DEF PumpEnds, TypeOK
  <2> QED  BY <2>1, <2>2
<1> QED  BY <1>1, <1>4, <1>5 DEF PumpStep

\* The invariant is inductive: every step of the program, on whichever thread,
\* keeps it.
LEMMA InvNext == Inv /\ [Next]_vars => Inv'
<1> SUFFICES ASSUME Inv, [Next]_vars
             PROVE  Inv'
  OBVIOUS
<1>1. CASE UserStep
  BY <1>1, UserStepKeeps
<1>2. ASSUME NEW a \in Attempt, DaemonStep(a) \/ GlibStep(a) \/ PumpStep(a)
      PROVE  Inv'
  BY <1>2, DaemonStepKeeps, GlibStepKeeps, PumpStepKeeps
<1>3. CASE UNCHANGED vars
  BY <1>3 DEF vars, Inv, TypeOK, Owned, TasksHaveVms, TabsAreInserted,
              SessionsDistinct, ActiveIsOpen, IsOpen, OnlyShownTabConverts,
              ProjectsContiguous, NoLeakedSession
<1> QED  BY <1>1, <1>2, <1>3 DEF Next

(* The inductive invariant holds in every reachable state.                 *)
THEOREM Invariance == Spec => []Inv
BY InvInit, InvNext, PTL DEF Spec

(* Every variable keeps its type, whatever the number of VMs and attempts. *)
THEOREM TypeCorrect == Spec => []TypeOK
<1>1. Inv => TypeOK
  BY DEF Inv
<1> QED  BY <1>1, Invariance, PTL

(* What active_tab and set_active rely on: the shown VM is open, and its   *)
(* console is the one that converts frames.                                *)
THEOREM ShownTabCorrect == Spec => [](ActiveIsOpen /\ OnlyShownTabConverts)
<1>1. Inv => ActiveIsOpen /\ OnlyShownTabConverts
  BY DEF Inv
<1> QED  BY <1>1, Invariance, PTL

(* connect_console's insertion keeps every project's tabs together under   *)
(* any interleaving of connecting, closing and switching.                  *)
THEOREM ProjectsStayContiguous == Spec => []ProjectsContiguous
<1>1. Inv => ProjectsContiguous
  BY DEF Inv
<1> QED  BY <1>1, Invariance, PTL

(* Every console that nobody stopped is owned by a tab.                    *)
THEOREM NoSessionLeaks == Spec => []NoLeakedSession
<1>1. Inv => NoLeakedSession
  BY DEF Inv
<1> QED  BY <1>1, Invariance, PTL

----------------------------------------------------------------------------
(* The pumps.  PumpEnds closes the first tab of its VM, whoever opened it: *)
(* what it leaves is counted, VM by VM.                                    *)

(* The sessions the tabs of `v' own, and the tasks that serve `v'.         *)
Shown(v) == {a \in Attempt : \E i \in DOMAIN tabs : tabs[i].vm = v /\ tabs[i].att = a}
Pumps(v) == {a \in Attempt : task[a].stage = "streaming" /\ task[a].vm = v}

ShownHavePumps == \A v \in Vm : Cardinality(Shown(v)) <= Cardinality(Pumps(v))

(* The sets that are counted are finite.                                   *)
LEMMA SetsOfAttempts ==
  ASSUME NEW S \in SUBSET Attempt
  PROVE  IsFiniteSet(S) /\ Cardinality(S) \in Nat
<1>1. 1 \in Int /\ MaxAttempt \in Int
  BY AttemptAssumption
<1>2. IsFiniteSet(Attempt)
  BY <1>1, FS_Interval DEF Attempt
<1>3. IsFiniteSet(S)
  BY <1>2, FS_Subset
<1> QED  BY <1>3, FS_CardinalityType

(* The tabs of a VM can be counted.                                        *)
LEMMA TabsOfAreFinite ==
  ASSUME Inv, NEW v \in Vm
  PROVE  Cardinality({i \in DOMAIN tabs : tabs[i].vm = v}) \in Nat
<1>1. DOMAIN tabs = 1 .. Len(tabs) /\ Len(tabs) \in Int /\ 1 \in Int
  BY DEF Inv, TypeOK
<1>2. IsFiniteSet(DOMAIN tabs)
  BY <1>1, FS_Interval
<1>3. IsFiniteSet({i \in DOMAIN tabs : tabs[i].vm = v})
  BY <1>2, FS_Subset
<1> QED  BY <1>3, FS_CardinalityType

(* Counting sessions is counting tabs.                                     *)
LEMMA TabsAreSessions ==
  ASSUME Inv, NEW v \in Vm
  PROVE  Cardinality({i \in DOMAIN tabs : tabs[i].vm = v}) <= Cardinality(Shown(v))
<1> DEFINE P == {i \in DOMAIN tabs : tabs[i].vm = v}
           f == [i \in P |-> tabs[i].att]
<1>1. \A i \in P : tabs[i].att \in Shown(v)
  <2> SUFFICES ASSUME NEW i \in P
               PROVE  tabs[i].att \in Shown(v)
    OBVIOUS
  <2>1. tabs[i] \in Tab
    BY DEF Inv, TypeOK
  <2> QED  BY <2>1 DEF Shown, Tab
<1>2. f \in [P -> Shown(v)]
  BY <1>1
<1>3. \A i, j \in P : f[i] = f[j] => i = j
  BY DEF Inv, Owned, SessionsDistinct
<1>4. Shown(v) \in SUBSET Attempt
  BY DEF Shown
<1> HIDE DEF P, f
<1>5. f \in Injection(P, Shown(v))
  BY <1>2, <1>3 DEF Injection, IsInjective
<1>6. IsFiniteSet(Shown(v))
  BY <1>4, SetsOfAttempts
<1>7. Cardinality(P) <= Cardinality(Shown(v))
  BY <1>5, <1>6, FS_Injection
<1> QED  BY <1>7 DEF P

(* A tab less takes its session with it.                                   *)
LEMMA CloseTabHides ==
  ASSUME Inv, NEW v \in Vm, IsOpen(v), CloseTab(v)
  PROVE  \E a \in Attempt :
           a \in Shown(v) /\ \A w \in Vm : Shown(w)' \subseteq Shown(w) \ {a}
<1>1. PICK pos \in 1 .. Len(tabs) : Removed(pos) /\ tabs[pos].vm = v
  BY CloseTabEffect DEF Inv
<1>2. /\ DOMAIN tabs = 1 .. Len(tabs) /\ Len(tabs) \in Nat
      /\ \A k \in DOMAIN tabs' :
           \E i \in DOMAIN tabs :
             i = (IF k < pos THEN k ELSE k + 1) /\ tabs'[k] = tabs[i]
      /\ DOMAIN tabs' = 1 .. Len(tabs') /\ Len(tabs') \in Nat
  BY <1>1, RemovedShifts DEF Inv
<1>3. tabs[pos].att \in Shown(v)
  <2>1. tabs[pos] \in Tab
    BY DEF Inv, TypeOK
  <2> QED  BY <1>1, <1>2, <2>1 DEF Shown, Tab
<1>4. ASSUME NEW w \in Vm, NEW a \in Shown(w)'
      PROVE  a \in Shown(w) \ {tabs[pos].att}
  <2>1. PICK k \in DOMAIN tabs' : tabs'[k].vm = w /\ tabs'[k].att = a
    BY DEF Shown
  <2>2. PICK i \in DOMAIN tabs : i = (IF k < pos THEN k ELSE k + 1) /\ tabs'[k] = tabs[i]
    BY <1>2
  <2>3. i # pos
    BY <1>2, <2>2
  <2>4. a # tabs[pos].att
    BY <1>2, <2>1, <2>2, <2>3 DEF Inv, Owned, SessionsDistinct
  <2> QED  BY <1>4, <2>1, <2>2, <2>4 DEF Shown
<1>5. tabs[pos].att \in Attempt
  BY <1>3 DEF Shown
<1> QED  BY <1>3, <1>4, <1>5

(* A tab more is that of the attempt that goes on as its pump.             *)
LEMMA ConnectedShows ==
  ASSUME Inv, NEW a \in Attempt, Connected(a)
  PROVE  \A w \in Vm :
           Shown(w)' \subseteq Shown(w) \union (IF w = task[a].vm THEN {a} ELSE {})
<1> DEFINE v == task[a].vm
           p == InsertPos(v)
           t == [vm |-> v, att |-> a]
<1>1. v \in Vm /\ t \in Tab /\ t.vm = v /\ t.att = a
  BY DEF Connected, Inv, Owned, TasksHaveVms, Pending, Tab
<1>2. p \in 1 .. Len(tabs) + 1 /\ tabs \in Seq(Tab)
  BY <1>1, InsertPosIsPosition DEF Inv, TypeOK
<1>3. tabs' = InsertAt(tabs, p, t)
  BY DEF Connected
<1> HIDE DEF v, p, t
<1>4. Inserted(tabs, p, t, tabs')
  BY ONLY <1>1, <1>2, <1>3, InsertTab
<1>5. \A k \in DOMAIN tabs' : tabs'[k] = t \/ \E i \in DOMAIN tabs : tabs'[k] = tabs[i]
  <2>1. /\ DOMAIN tabs = 1 .. Len(tabs) /\ Len(tabs) \in Nat
        /\ DOMAIN tabs' = 1 .. Len(tabs) + 1
    BY <1>2, <1>4 DEF Inserted
  <2> SUFFICES ASSUME NEW k \in DOMAIN tabs', tabs'[k] # t
               PROVE  \E i \in DOMAIN tabs : tabs'[k] = tabs[i]
    OBVIOUS
  <2>2. CASE k < p
    BY <1>2, <1>4, <2>1, <2>2 DEF Inserted
  <2>3. CASE ~(k < p)
    <3>1. k # p
      BY <1>2, <1>4, <2>1 DEF Inserted
    <3>2. k - 1 \in DOMAIN tabs /\ tabs'[k] = tabs[k - 1]
      BY <1>2, <1>4, <2>1, <2>3, <3>1 DEF Inserted
    <3> QED  BY <3>2
  <2> QED  BY <2>2, <2>3
<1> QED  BY <1>1, <1>5 DEF Shown, v

(* The pumps of every other task go on.                                    *)
LEMMA PumpsOfOthers ==
  ASSUME Inv, NEW a \in Attempt, NEW k \in Task, task' = [task EXCEPT ![a] = k]
  PROVE  \A v \in Vm :
           Pumps(v)' = IF k.stage = "streaming" /\ k.vm = v THEN Pumps(v) \union {a}
                                                             ELSE Pumps(v) \ {a}
<1>1. task \in [Attempt -> Task]
  BY DEF Inv, TypeOK
<1>2. /\ task'[a] = k
      /\ \A b \in Attempt : b # a => task'[b] = task[b]
  BY <1>1
<1> QED  BY <1>2 DEF Pumps

(* How the counts go: a tab comes with a pump ...                          *)
LEMMA CountsFollow ==
  ASSUME NEW S \in SUBSET Attempt, NEW P \in SUBSET Attempt,
         Cardinality(S) <= Cardinality(P),
         NEW T \in SUBSET Attempt, NEW a \in Attempt
  PROVE  /\ T \subseteq S => Cardinality(T) <= Cardinality(P)
         /\ T \subseteq S \union {a} /\ a \notin P => Cardinality(T) <= Cardinality(P \union {a})
<1>1. /\ IsFiniteSet(S) /\ Cardinality(S) \in Nat
      /\ IsFiniteSet(P) /\ Cardinality(P) \in Nat
      /\ IsFiniteSet(T) /\ Cardinality(T) \in Nat
  BY SetsOfAttempts
<1>2. ASSUME T \subseteq S
      PROVE  Cardinality(T) <= Cardinality(P)
  <2>1. Cardinality(T) <= Cardinality(S)
    BY <1>1, <1>2, FS_Subset
  <2> QED  BY <1>1, <2>1
<1>3. ASSUME T \subseteq S \union {a}, a \notin P
      PROVE  Cardinality(T) <= Cardinality(P \union {a})
  <2>1. IsFiniteSet(S \union {a}) /\ Cardinality(S \union {a}) <= Cardinality(S) + 1
    <3>1. /\ IsFiniteSet(S \union {a})
          /\ Cardinality(S \union {a}) = IF a \in S THEN Cardinality(S) ELSE Cardinality(S) + 1
      BY <1>1, FS_AddElement
    <3> QED  BY <1>1, <3>1
  <2>2. Cardinality(P \union {a}) = Cardinality(P) + 1
    BY <1>1, <1>3, FS_AddElement
  <2>3. Cardinality(T) <= Cardinality(S \union {a})
    BY <1>3, <2>1, FS_Subset
  <2>4. Cardinality(S \union {a}) \in Nat
    BY SetsOfAttempts
  <2> QED  BY <1>1, <2>1, <2>2, <2>3, <2>4
<1> QED  BY <1>2, <1>3

(* ... and a pump goes with a tab.                                         *)
LEMMA CountsDrop ==
  ASSUME NEW S \in SUBSET Attempt, NEW P \in SUBSET Attempt,
         Cardinality(S) <= Cardinality(P),
         NEW T \in SUBSET Attempt, NEW a \in Attempt, NEW b \in S, T \subseteq S \ {b}
  PROVE  Cardinality(T) <= Cardinality(P \ {a})
<1>1. /\ IsFiniteSet(S) /\ Cardinality(S) \in Nat
      /\ IsFiniteSet(P) /\ Cardinality(P) \in Nat
      /\ IsFiniteSet(T) /\ Cardinality(T) \in Nat
  BY SetsOfAttempts
<1>2. IsFiniteSet(S \ {b}) /\ Cardinality(S \ {b}) = Cardinality(S) - 1
  BY <1>1, FS_RemoveElement
<1>3. Cardinality(P \ {a}) >= Cardinality(P) - 1
  <2>1. Cardinality(P \ {a}) = IF a \in P THEN Cardinality(P) - 1 ELSE Cardinality(P)
    BY <1>1, FS_RemoveElement
  <2> QED  BY <1>1, <2>1
<1>4. Cardinality(T) <= Cardinality(S \ {b})
  BY <1>2, FS_Subset
<1>5. Cardinality(P \ {a}) \in Nat
  BY SetsOfAttempts
<1> QED  BY <1>1, <1>2, <1>3, <1>4, <1>5

(* Every step keeps a pump for each session that is shown.                 *)
LEMMA PumpsCounted ==
  ASSUME Inv, ShownHavePumps, [Next]_vars
  PROVE  ShownHavePumps'
<1>0. /\ task \in [Attempt -> Task]
      /\ \A v \in Vm : Shown(v) \in SUBSET Attempt /\ Shown(v)' \in SUBSET Attempt
                       /\ Pumps(v) \in SUBSET Attempt /\ Pumps(v)' \in SUBSET Attempt
      /\ \A v \in Vm : Cardinality(Shown(v)) <= Cardinality(Pumps(v))
  BY DEF Inv, TypeOK, Shown, Pumps, ShownHavePumps
<1>1. ASSUME \A v \in Vm : Shown(v)' \subseteq Shown(v) /\ Pumps(v)' = Pumps(v)
      PROVE  ShownHavePumps'
  <2>1. ASSUME NEW v \in Vm
        PROVE  Cardinality(Shown(v)') <= Cardinality(Pumps(v)')
    <3>1. IsFiniteSet(Shown(v)) /\ Cardinality(Shown(v)) \in Nat
          /\ Cardinality(Shown(v)') \in Nat /\ Cardinality(Pumps(v)) \in Nat
      BY <1>0, SetsOfAttempts
    <3>2. Cardinality(Shown(v)') <= Cardinality(Shown(v))
      BY <1>1, <3>1, FS_Subset
    <3> QED  BY <1>0, <1>1, <3>1, <3>2
  <2> QED  BY <2>1 DEF ShownHavePumps
<1>2. ASSUME UNCHANGED tabs
      PROVE  \A v \in Vm : Shown(v)' = Shown(v)
  BY <1>2 DEF Shown
<1>3. ASSUME UNCHANGED task
      PROVE  \A v \in Vm : Pumps(v)' = Pumps(v)
  BY <1>3 DEF Pumps
<1>4. ASSUME UNCHANGED <<tabs, task>>
      PROVE  ShownHavePumps'
  BY <1>1, <1>2, <1>3, <1>4
<1>5. ASSUME NEW v \in Vm, UserClosesTab(v)
      PROVE  ShownHavePumps'
  <2>1. \A w \in Vm : Shown(w)' \subseteq Shown(w)
    BY <1>5, CloseTabHides DEF UserClosesTab
  <2>2. \A w \in Vm : Pumps(w)' = Pumps(w)
    BY <1>3, <1>5 DEF UserClosesTab
  <2> QED  BY <1>1, <2>1, <2>2
<1>6. ASSUME NEW r \in Remote, SwitchRemote(r)
      PROVE  ShownHavePumps'
  <2>1. \A w \in Vm : Shown(w)' \subseteq Shown(w)
    BY <1>6 DEF SwitchRemote, Shown
  <2>2. \A w \in Vm : Pumps(w)' = Pumps(w)
    BY <1>3, <1>6 DEF SwitchRemote
  <2> QED  BY <1>1, <2>1, <2>2
<1>7. ASSUME NEW a \in Attempt, UNCHANGED tabs,
             task[a].stage # "streaming", task'[a].stage # "streaming",
             \A b \in Attempt : b # a => task'[b] = task[b]
      PROVE  ShownHavePumps'
  <2>1. \A v \in Vm : Pumps(v)' = Pumps(v)
    BY <1>7 DEF Pumps
  <2> QED  BY <1>1, <1>2, <1>7, <2>1
<1>8. ASSUME NEW v \in Vm, NEW a \in Attempt, Open(v, a)
      PROVE  ShownHavePumps'
  <2>1. UNCHANGED tabs /\ task[a].stage = "idle"
        /\ task' = [task EXCEPT ![a].stage = "opening", ![a].vm = v]
    BY <1>8 DEF Open
  <2> QED  BY <1>0, <1>7, <2>1 DEF Task
<1>9. ASSUME NEW a \in Attempt,
             \/ DeclineTakeOver(a) \/ AcceptTakeOver(a)
             \/ AskDaemon(a) \/ DaemonIsBusy(a) \/ Fail(a)
      PROVE  ShownHavePumps'
  <2>1. UNCHANGED tabs /\ task[a].stage # "streaming"
    BY <1>9 DEF DeclineTakeOver, AcceptTakeOver, AskDaemon, DaemonIsBusy, Fail
  <2>2. /\ task'[a].stage # "streaming"
        /\ \A b \in Attempt : b # a => task'[b] = task[b]
    BY <1>0, <1>9
    DEF DeclineTakeOver, AcceptTakeOver, AskDaemon, DaemonIsBusy, Fail, NoTask, Task
  <2> QED  BY <1>7, <2>1, <2>2
<1>10. ASSUME NEW a \in Attempt, Connected(a)
       PROVE  ShownHavePumps'
  <2>0. PICK v \in Vm : v = task[a].vm
    BY <1>10 DEF Connected, Inv, Owned, TasksHaveVms, Pending
  <2>1. PICK k \in Task :
          /\ task[a].stage = "asked" /\ k.stage = "streaming" /\ k.vm = v
          /\ task' = [task EXCEPT ![a] = k]
    <3> DEFINE k == [task[a] EXCEPT !.stage = "streaming"]
    <3>1. /\ task[a].stage = "asked" /\ k \in Task /\ k.stage = "streaming" /\ k.vm = v
          /\ task' = [task EXCEPT ![a] = k]
      BY <1>0, <1>10, <2>0 DEF Connected, Task, Stage
    <3> QED  BY <3>1
  <2>2. ASSUME NEW w \in Vm
        PROVE  Cardinality(Shown(w)') <= Cardinality(Pumps(w)')
    <3>1. a \notin Pumps(w)
      BY <2>1 DEF Pumps
    <3>2. Pumps(w)' = IF v = w THEN Pumps(w) \union {a} ELSE Pumps(w)
      <4>1. Pumps(w)' = IF k.stage = "streaming" /\ k.vm = w THEN Pumps(w) \union {a}
                                                             ELSE Pumps(w) \ {a}
        BY <2>1, PumpsOfOthers
      <4>2. Pumps(w) \ {a} = Pumps(w)
        BY <3>1
      <4> QED  BY <2>1, <4>1, <4>2
    <3>3. Shown(w)' \subseteq Shown(w) \union (IF w = v THEN {a} ELSE {})
      BY <1>10, <2>0, ConnectedShows
    <3>4. CASE w = v
      BY <1>0, <3>1, <3>2, <3>3, <3>4, CountsFollow
    <3>5. CASE w # v
      BY <1>0, <3>2, <3>3, <3>5, CountsFollow
    <3> QED  BY <3>4, <3>5
  <2> QED  BY <2>2 DEF ShownHavePumps
<1>11. ASSUME NEW a \in Attempt, PumpFindsNoTab(a) \/ PumpEnds(a)
       PROVE  ShownHavePumps'
  <2> DEFINE k == NoTask("done")
  <2>1. /\ task[a].stage = "streaming" /\ k \in Task /\ k.stage = "done"
        /\ task' = [task EXCEPT ![a] = k]
    BY <1>11 DEF PumpFindsNoTab, PumpEnds, NoTask, Task, Stage
  <2>2. PICK v \in Vm : v = task[a].vm
    BY <2>1 DEF Inv, Owned, TasksHaveVms
  <2> HIDE DEF k
  <2>3. \A w \in Vm : Pumps(w)' = Pumps(w) \ {a}
    BY <2>1, PumpsOfOthers
  <2>4. \A w \in Vm : w # v => Pumps(w)' = Pumps(w)
    BY <2>2, <2>3 DEF Pumps
  <2>5. \A w \in Vm : Shown(w)' \subseteq Shown(w)
    <3>1. CASE IsOpen(v) /\ CloseTab(v)
      BY <2>2, <3>1, CloseTabHides
    <3>2. CASE ~(IsOpen(v) /\ CloseTab(v))
      BY <1>2, <1>11, <2>2, <3>2 DEF PumpFindsNoTab, PumpEnds
    <3> QED  BY <3>1, <3>2
  <2>6. ASSUME NEW w \in Vm, w # v
        PROVE  Cardinality(Shown(w)') <= Cardinality(Pumps(w)')
    BY <1>0, <2>4, <2>5, <2>6, CountsFollow
  <2>7. Cardinality(Shown(v)') <= Cardinality(Pumps(v)')
    <3>1. CASE ~IsOpen(v)
      <4>1. Shown(v) = {}
        BY <3>1 DEF IsOpen, Shown
      <4>2. Shown(v)' = {}
        BY <2>2, <2>5, <4>1
      <4>3. Cardinality(Pumps(v)') \in Nat
        BY <1>0, <2>2, SetsOfAttempts
      <4> QED  BY <4>2, <4>3, FS_EmptySet
    <3>2. CASE IsOpen(v)
      <4>1. CloseTab(v)
        BY <1>11, <2>2, <3>2 DEF PumpFindsNoTab, PumpEnds
      <4>2. PICK b \in Attempt : b \in Shown(v) /\ \A w \in Vm : Shown(w)' \subseteq Shown(w) \ {b}
        BY <2>2, <3>2, <4>1, CloseTabHides
      <4>3. /\ Shown(v)' \subseteq Shown(v) \ {b} /\ Pumps(v)' = Pumps(v) \ {a}
            /\ Shown(v) \in SUBSET Attempt /\ Shown(v)' \in SUBSET Attempt
            /\ Pumps(v) \in SUBSET Attempt /\ Cardinality(Shown(v)) <= Cardinality(Pumps(v))
        BY <1>0, <2>2, <2>3, <4>2
      <4>4. Cardinality(Shown(v)') <= Cardinality(Pumps(v) \ {a})
        BY <4>2, <4>3, CountsDrop
      <4> QED  BY <4>3, <4>4
    <3> QED  BY <3>1, <3>2
  <2> QED  BY <2>6, <2>7 DEF ShownHavePumps
<1> QED
  BY <1>4, <1>5, <1>6, <1>8, <1>9, <1>10, <1>11
  DEF Next, UserStep, DaemonStep, GlibStep, PumpStep, FocusTab, SendFrame, SendFails,
      HandleShutdown, Disconnected, FrameTimerEnds, PumpFrame, vars

(* However often the pumps close each other's tabs, for any number of      *)
(* attempts, a tab is never left that no pump would close.                 *)
THEOREM TabsKeepPumps == Spec => []TabsHavePumps
<1>1. Init => ShownHavePumps
  <2> SUFFICES ASSUME Init, NEW v \in Vm
               PROVE  Cardinality(Shown(v)) <= Cardinality(Pumps(v))
    BY DEF ShownHavePumps
  <2>1. Shown(v) = {}
    BY DEF Init, Shown
  <2>2. Pumps(v) \in SUBSET Attempt
    BY DEF Pumps
  <2>3. Cardinality(Pumps(v)) \in Nat
    BY <2>2, SetsOfAttempts
  <2> QED  BY <2>1, <2>3, FS_EmptySet
<1>2. Inv /\ ShownHavePumps /\ [Next]_vars => ShownHavePumps'
  BY PumpsCounted
<1>3. Inv /\ ShownHavePumps => TabsHavePumps
  <2> SUFFICES ASSUME Inv, ShownHavePumps, NEW v \in Vm
               PROVE  Cardinality({i \in DOMAIN tabs : tabs[i].vm = v}) <= Cardinality(Pumps(v))
    BY DEF TabsHavePumps, Pumps
  <2>1. Shown(v) \in SUBSET Attempt /\ Pumps(v) \in SUBSET Attempt
    BY DEF Shown, Pumps
  <2>2. Cardinality(Shown(v)) \in Nat /\ Cardinality(Pumps(v)) \in Nat
    BY <2>1, SetsOfAttempts
  <2>3. Cardinality({i \in DOMAIN tabs : tabs[i].vm = v}) \in Nat
    BY TabsOfAreFinite
  <2>4. Cardinality({i \in DOMAIN tabs : tabs[i].vm = v}) <= Cardinality(Shown(v))
    BY TabsAreSessions
  <2>5. Cardinality(Shown(v)) <= Cardinality(Pumps(v))
    BY DEF ShownHavePumps
  <2> QED  BY <2>2, <2>3, <2>4, <2>5
<1> QED  BY Invariance, <1>1, <1>2, <1>3, PTL DEF Spec

----------------------------------------------------------------------------
(* The consoles.  A step that ends an attempt takes the mark of its VM     *)
(* away, whoever set it, and a click then makes another attempt: what is   *)
(* counted is that each of them uses up one that a switch left behind.     *)

Consoles(v) == UnderWay(v) \union Shown(v)
Taken(v) == IF IsOpen(v) \/ v \in connecting THEN 1 ELSE 0

(* A mark stands for an attempt.                                           *)
MarkIsMeant(v) == v \in connecting => ~IsOpen(v) /\ UnderWay(v) # {}

Counted(v) ==
  /\ Cardinality(Consoles(v)) <= Cardinality(orphaned[v]) + Taken(v)
  /\ MarkIsMeant(v)

ConsolesCounted == \A v \in Vm : Counted(v)

(* A VM is open when a session of it is shown, and no attempt that is      *)
(* still under way has a tab.                                              *)
LEMMA OpenIsShown ==
  ASSUME Inv, NEW v \in Vm
  PROVE  /\ IsOpen(v) <=> Shown(v) # {}
         /\ UnderWay(v) \intersect Shown(v) = {}
         /\ UnderWay(v) \in SUBSET Attempt /\ Shown(v) \in SUBSET Attempt
         /\ Consoles(v) \in SUBSET Attempt /\ orphaned[v] \in SUBSET Attempt
<1>1. \A i \in DOMAIN tabs : tabs[i].att \in Attempt
  <2>1. \A i \in DOMAIN tabs : tabs[i] \in Tab
    BY DEF Inv, TypeOK
  <2> QED  BY <2>1 DEF Tab
<1>2. IsOpen(v) <=> Shown(v) # {}
  BY <1>1 DEF IsOpen, Shown
<1>3. UnderWay(v) \intersect Shown(v) = {}
  BY DEF UnderWay, Shown, Pending, Inv, Owned, TabsAreInserted
<1>4. orphaned[v] \in SUBSET Attempt
  BY DEF Inv, TypeOK
<1> QED  BY <1>2, <1>3, <1>4 DEF UnderWay, Shown, Consoles

(* What a VM loses may be its mark, or its last tab, if it loses a console *)
(* with it.                                                                *)
LEMMA FewerConsoles ==
  ASSUME Inv, NEW v \in Vm, Counted(v), UNCHANGED orphaned,
         Consoles(v)' \subseteq Consoles(v),
         \/ Taken(v) = 0 \/ Taken(v)' = 1
         \/ Consoles(v)' # Consoles(v)
  PROVE  Cardinality(Consoles(v)') <= Cardinality(orphaned'[v]) + Taken(v)'
<1> DEFINE C == Consoles(v)
           D == Consoles(v)'
           o == Cardinality(orphaned[v])
<1>1. /\ IsFiniteSet(C) /\ Cardinality(C) \in Nat
      /\ Cardinality(D) \in Nat /\ o \in Nat
  <2>1. C \in SUBSET Attempt /\ orphaned[v] \in SUBSET Attempt
    BY OpenIsShown
  <2>2. D \in SUBSET Attempt
    BY <2>1
  <2> HIDE DEF C, D
  <2> QED  BY <2>1, <2>2, SetsOfAttempts
<1>2. Cardinality(C) <= o + Taken(v)
  BY DEF Counted
<1>3. Taken(v) \in {0, 1} /\ Taken(v)' \in {0, 1}
  BY DEF Taken
<1>4. orphaned'[v] = orphaned[v]
  OBVIOUS
<1>5. D \subseteq C /\ (Taken(v) = 0 \/ Taken(v)' = 1 \/ D # C)
  OBVIOUS
<1> HIDE DEF C, D
<1>6. Cardinality(D) <= Cardinality(C) /\ (D # C => Cardinality(D) # Cardinality(C))
  BY <1>1, <1>5, FS_Subset
<1>7. Cardinality(D) <= o + Taken(v)'
  <2> HIDE DEF o
  <2> QED  BY <1>1, <1>2, <1>3, <1>5, <1>6
<1> QED  BY <1>4, <1>7 DEF D, o

(* Tabs may go as long as the attempts and the marks are left alone.       *)
LEMMA TabsMayGo ==
  ASSUME Inv, Inv', NEW v \in Vm, Counted(v), UNCHANGED orphaned,
         UnderWay(v)' = UnderWay(v), Shown(v)' \subseteq Shown(v),
         v \in connecting' <=> v \in connecting
  PROVE  Counted(v)'
<1>1. /\ IsOpen(v) <=> Shown(v) # {}
      /\ UnderWay(v) \intersect Shown(v) = {}
  BY OpenIsShown
<1>2. IsOpen(v)' <=> Shown(v)' # {}
  <2>1. \A i \in DOMAIN tabs' : tabs'[i] \in Tab
    BY DEF Inv, TypeOK
  <2>2. \A i \in DOMAIN tabs' : tabs'[i].att \in Attempt
    BY <2>1 DEF Tab
  <2> QED  BY <2>2 DEF IsOpen, Shown
<1>3. MarkIsMeant(v)'
  BY <1>1, <1>2 DEF Counted, MarkIsMeant
<1>4. Consoles(v)' \subseteq Consoles(v)
  BY DEF Consoles
<1>5. \/ Taken(v) = 0 \/ Taken(v)' = 1
      \/ Consoles(v)' # Consoles(v)
  <2>1. CASE IsOpen(v) /\ ~IsOpen(v)'
    BY <1>1, <1>2, <2>1 DEF Consoles
  <2>2. CASE ~(IsOpen(v) /\ ~IsOpen(v)')
    BY <2>2 DEF Taken
  <2> QED  BY <2>1, <2>2
<1>6. Cardinality(Consoles(v)') <= Cardinality(orphaned'[v]) + Taken(v)'
  BY <1>4, <1>5, FewerConsoles
<1> QED  BY <1>3, <1>6 DEF Counted

(* The end of an attempt, with a tab or without one.                       *)
LEMMA AttemptEnds ==
  ASSUME Inv, Inv', ConsolesCounted, NEW a \in Attempt,
         Fail(a) \/ DeclineTakeOver(a) \/ Connected(a)
  PROVE  ConsolesCounted'
<1>0. task \in [Attempt -> Task]
  BY DEF Inv, TypeOK
<1>1. PICK v \in Vm : v = task[a].vm
  BY DEF Fail, DeclineTakeOver, Connected, Inv, Owned, TasksHaveVms, Pending
<1>2. /\ a \in UnderWay(v) /\ connecting' = connecting \ {v} /\ UNCHANGED orphaned
      /\ task'[a].stage \in {"done", "streaming"}
      /\ \A b \in Attempt : b # a => task'[b] = task[b]
  BY <1>0, <1>1 DEF Fail, DeclineTakeOver, Connected, UnderWay, Pending, NoTask, Task
<1>3. \A w \in Vm : UnderWay(w)' = UnderWay(w) \ {a}
  BY <1>2 DEF UnderWay, Pending
<1>4. \A w \in Vm :
        Shown(w)' \subseteq Shown(w) \union (IF w = v /\ Connected(a) THEN {a} ELSE {})
  <2>1. CASE Connected(a)
    BY <1>1, <2>1, ConnectedShows
  <2>2. CASE Fail(a) \/ DeclineTakeOver(a)
    BY <2>2 DEF Fail, DeclineTakeOver, Shown
  <2> QED  BY <2>1, <2>2
<1>5. ASSUME NEW w \in Vm, w # v
      PROVE  Counted(w)'
  <2>1. UnderWay(w)' = UnderWay(w)
    BY <1>1, <1>3, <1>5 DEF UnderWay
  <2> QED  BY <1>2, <1>4, <1>5, <2>1, TabsMayGo DEF ConsolesCounted
<1>6. Counted(v)'
  <2>1. MarkIsMeant(v)'
    BY <1>2 DEF MarkIsMeant
  <2>2. Consoles(v)' \subseteq Consoles(v)
    BY <1>2, <1>3, <1>4 DEF Consoles
  <2>3. Taken(v)' = 1 \/ Consoles(v)' # Consoles(v)
    <3>1. CASE Connected(a)
      <4>1. active' = v /\ v # None
        BY <1>1, <3>1, NoneAssumption DEF Connected, SetActive
      <4>2. IsOpen(v)'
        BY <4>1 DEF Inv, ActiveIsOpen
      <4> QED  BY <4>2 DEF Taken
    <3>2. CASE ~Connected(a)
      <4>1. a \notin Shown(v)
        BY <1>2, OpenIsShown
      <4>2. a \in Consoles(v) /\ a \notin Consoles(v)'
        BY <1>2, <1>3, <1>4, <3>2, <4>1 DEF Consoles
      <4> QED  BY <4>2
    <3> QED  BY <3>1, <3>2
  <2>4. Cardinality(Consoles(v)') <= Cardinality(orphaned'[v]) + Taken(v)'
    BY <1>2, <2>2, <2>3, FewerConsoles DEF ConsolesCounted
  <2> QED  BY <2>1, <2>4 DEF Counted
<1> QED  BY <1>5, <1>6 DEF ConsolesCounted

(* A click: there is neither a tab of the VM nor a mark.                   *)
LEMMA OpenCounts ==
  ASSUME Inv, Inv', ConsolesCounted, NEW v \in Vm, NEW a \in Attempt, Open(v, a)
  PROVE  ConsolesCounted'
<1>0. task \in [Attempt -> Task]
  BY DEF Inv, TypeOK
<1>1. /\ ~IsOpen(v) /\ v \notin connecting /\ task[a].stage = "idle"
      /\ connecting' = connecting \union {v} /\ UNCHANGED <<tabs, orphaned>>
      /\ task'[a].stage = "opening" /\ task'[a].vm = v
      /\ \A b \in Attempt : b # a => task'[b] = task[b]
  BY <1>0 DEF Open, Task
<1>2. \A w \in Vm : /\ UnderWay(w)' = UnderWay(w) \union (IF w = v THEN {a} ELSE {})
                    /\ Shown(w)' = Shown(w)
  BY <1>1 DEF UnderWay, Pending, Shown
<1>3. ASSUME NEW w \in Vm, w # v
      PROVE  Counted(w)'
  BY <1>1, <1>2, <1>3, TabsMayGo DEF ConsolesCounted
<1>4. Counted(v)'
  <2>1. MarkIsMeant(v)'
    BY <1>1, <1>2 DEF MarkIsMeant, IsOpen
  <2>2. Taken(v) = 0 /\ Taken(v)' = 1 /\ Consoles(v)' = Consoles(v) \union {a}
    BY <1>1, <1>2 DEF Taken, Consoles
  <2>3. /\ IsFiniteSet(Consoles(v)) /\ Cardinality(Consoles(v)) \in Nat
        /\ Cardinality(orphaned[v]) \in Nat
    BY OpenIsShown, SetsOfAttempts
  <2>4. Cardinality(Consoles(v)) <= Cardinality(orphaned[v])
    BY <2>2, <2>3 DEF ConsolesCounted, Counted
  <2>5. Cardinality(Consoles(v) \union {a}) <= Cardinality(orphaned[v]) + 1
    <3>1. Cardinality(Consoles(v) \union {a}) \in {Cardinality(Consoles(v)), Cardinality(Consoles(v)) + 1}
      BY <2>3, FS_AddElement
    <3> QED  BY <2>3, <2>4, <3>1
  <2> QED  BY <1>1, <2>1, <2>2, <2>5 DEF Counted
<1> QED  BY <1>3, <1>4 DEF ConsolesCounted

(* A switch: what is left of the consoles is what it leaves behind.        *)
LEMMA SwitchCounts ==
  ASSUME Inv, NEW r \in Remote, SwitchRemote(r)
  PROVE  ConsolesCounted'
<1> SUFFICES ASSUME NEW v \in Vm
             PROVE  Counted(v)'
  BY DEF ConsolesCounted
<1>1. UnderWay(v)' = UnderWay(v) /\ Shown(v)' = {} /\ orphaned'[v] = UnderWay(v)
  BY DEF SwitchRemote, UnderWay, Shown
<1>2. Consoles(v)' = orphaned'[v]
  BY <1>1 DEF Consoles
<1>3. Cardinality(orphaned'[v]) \in Nat
  BY <1>1, OpenIsShown, SetsOfAttempts
<1>4. Taken(v)' \in {0, 1} /\ MarkIsMeant(v)'
  BY DEF Taken, MarkIsMeant, SwitchRemote
<1> QED  BY <1>2, <1>3, <1>4 DEF Counted

(* Every step keeps the count.                                             *)
LEMMA ConsolesStayCounted ==
  ASSUME Inv, ConsolesCounted, [Next]_vars
  PROVE  ConsolesCounted'
<1>0. Inv' /\ task \in [Attempt -> Task]
  BY InvNext DEF Inv, TypeOK
<1>1. ASSUME UNCHANGED <<connecting, orphaned>>,
             \A w \in Vm : Shown(w)' \subseteq Shown(w),
             \A w \in Vm : UnderWay(w)' = UnderWay(w)
      PROVE  ConsolesCounted'
  BY <1>0, <1>1, TabsMayGo DEF ConsolesCounted
<1>2. ASSUME UNCHANGED tabs
      PROVE  \A w \in Vm : Shown(w)' \subseteq Shown(w)
  BY <1>2 DEF Shown
<1>3. ASSUME UNCHANGED task
      PROVE  \A w \in Vm : UnderWay(w)' = UnderWay(w)
  BY <1>3 DEF UnderWay
<1>4. ASSUME NEW a \in Attempt, task'[a].vm = task[a].vm,
             task[a].stage \in Pending, task'[a].stage \in Pending,
             \A b \in Attempt : b # a => task'[b] = task[b]
      PROVE  \A w \in Vm : UnderWay(w)' = UnderWay(w)
  BY <1>4 DEF UnderWay
<1>5. ASSUME NEW a \in Attempt,
             task[a].stage = "streaming", task' = [task EXCEPT ![a] = NoTask("done")]
      PROVE  \A w \in Vm : UnderWay(w)' = UnderWay(w)
  <2>1. /\ task'[a].stage = "done"
        /\ \A b \in Attempt : b # a => task'[b] = task[b]
    BY <1>0, <1>5 DEF NoTask, Task
  <2> QED  BY <1>5, <2>1 DEF UnderWay, Pending
<1>6. ASSUME UNCHANGED <<tabs, connecting, task, orphaned>>
      PROVE  ConsolesCounted'
  BY <1>1, <1>2, <1>3, <1>6
<1>7. ASSUME NEW v \in Vm, UserClosesTab(v)
      PROVE  ConsolesCounted'
  <2>1. UNCHANGED <<connecting, task, orphaned>> /\ IsOpen(v) /\ CloseTab(v)
    BY <1>7 DEF UserClosesTab
  <2>2. \A w \in Vm : Shown(w)' \subseteq Shown(w)
    BY <2>1, CloseTabHides
  <2> QED  BY <1>1, <1>3, <2>1, <2>2
<1>8. ASSUME NEW a \in Attempt, AcceptTakeOver(a) \/ AskDaemon(a) \/ DaemonIsBusy(a)
      PROVE  ConsolesCounted'
  <2>1. UNCHANGED <<tabs, connecting, orphaned>>
    BY <1>8 DEF AcceptTakeOver, AskDaemon, DaemonIsBusy
  <2>2. /\ task'[a].vm = task[a].vm
        /\ task[a].stage \in Pending /\ task'[a].stage \in Pending
        /\ \A b \in Attempt : b # a => task'[b] = task[b]
    BY <1>0, <1>8 DEF AcceptTakeOver, AskDaemon, DaemonIsBusy, Task, Pending
  <2> QED  BY <1>1, <1>2, <1>4, <2>1, <2>2
<1>9. ASSUME NEW a \in Attempt, PumpFindsNoTab(a) \/ PumpEnds(a)
      PROVE  ConsolesCounted'
  <2>1. /\ task[a].stage = "streaming" /\ task' = [task EXCEPT ![a] = NoTask("done")]
        /\ UNCHANGED <<connecting, orphaned>>
        /\ UNCHANGED tabs \/ (IsOpen(task[a].vm) /\ CloseTab(task[a].vm))
    BY <1>9 DEF PumpFindsNoTab, PumpEnds
  <2>2. task[a].vm \in Vm
    BY <2>1 DEF Inv, Owned, TasksHaveVms
  <2>3. \A w \in Vm : Shown(w)' \subseteq Shown(w)
    BY <1>2, <2>1, <2>2, CloseTabHides
  <2> QED  BY <1>1, <1>5, <2>1, <2>3
<1>10. ASSUME NEW a \in Attempt, Fail(a) \/ DeclineTakeOver(a) \/ Connected(a)
       PROVE  ConsolesCounted'
  BY <1>0, <1>10, AttemptEnds
<1>11. ASSUME NEW v \in Vm, NEW a \in Attempt, Open(v, a)
       PROVE  ConsolesCounted'
  BY <1>0, <1>11, OpenCounts
<1>12. ASSUME NEW r \in Remote, SwitchRemote(r)
       PROVE  ConsolesCounted'
  BY <1>12, SwitchCounts
<1> QED
  BY <1>6, <1>7, <1>8, <1>9, <1>10, <1>11, <1>12
  DEF Next, UserStep, DaemonStep, GlibStep, PumpStep, FocusTab, SendFrame, SendFails,
      HandleShutdown, Disconnected, FrameTimerEnds, PumpFrame, vars

(* A VM has one console at most, and one more for each attempt on it that  *)
(* the last remote switch left behind (open_or_focus, connect_console,     *)
(* switch_remote); and no VM stays marked as connecting when nothing is on *)
(* its way.                                                                *)
THEOREM ConsolesUnique == Spec => []OneConsolePerVm
<1>1. Init => ConsolesCounted
  <2> SUFFICES ASSUME Init, NEW v \in Vm
               PROVE  Counted(v)
    BY DEF ConsolesCounted
  <2>1. Consoles(v) = {} /\ orphaned[v] = {} /\ v \notin connecting
    BY DEF Init, NoTask, Consoles, UnderWay, Shown, Pending
  <2>2. Taken(v) \in {0, 1}
    BY DEF Taken
  <2> QED  BY <2>1, <2>2, FS_EmptySet DEF Counted, MarkIsMeant
<1>2. Inv /\ ConsolesCounted /\ [Next]_vars => ConsolesCounted'
  BY ConsolesStayCounted
<1>3. Inv /\ ConsolesCounted => OneConsolePerVm
  <2> SUFFICES ASSUME Inv, ConsolesCounted, NEW v \in Vm
               PROVE  /\ Cardinality({i \in DOMAIN tabs : tabs[i].vm = v}) + Cardinality(UnderWay(v))
                           <= Cardinality(orphaned[v]) + Taken(v)
                      /\ MarkIsMeant(v)
    BY DEF OneConsolePerVm, Taken, MarkIsMeant
  <2> DEFINE n == Cardinality({i \in DOMAIN tabs : tabs[i].vm = v})
  <2>1. /\ IsFiniteSet(UnderWay(v)) /\ Cardinality(UnderWay(v)) \in Nat
        /\ IsFiniteSet(Shown(v)) /\ Cardinality(Shown(v)) \in Nat
        /\ Cardinality(orphaned[v]) \in Nat
    BY OpenIsShown, SetsOfAttempts
  <2>2. Cardinality(Consoles(v)) = Cardinality(UnderWay(v)) + Cardinality(Shown(v))
    <3>1. UnderWay(v) \intersect Shown(v) = {}
      BY OpenIsShown
    <3>2. Cardinality(UnderWay(v) \union Shown(v))
            = Cardinality(UnderWay(v)) + Cardinality(Shown(v)) - 0
      BY <2>1, <3>1, FS_Union, FS_EmptySet
    <3> QED  BY <2>1, <3>2 DEF Consoles
  <2>3. n <= Cardinality(Shown(v))
    BY TabsAreSessions
  <2>4. n \in Nat
    BY TabsOfAreFinite
  <2>5. /\ Cardinality(Consoles(v)) <= Cardinality(orphaned[v]) + Taken(v)
        /\ Taken(v) \in {0, 1} /\ MarkIsMeant(v)
    BY DEF ConsolesCounted, Counted, Taken
  <2> HIDE DEF n
  <2>6. n + Cardinality(UnderWay(v)) <= Cardinality(orphaned[v]) + Taken(v)
    BY <2>1, <2>2, <2>3, <2>4, <2>5
  <2> QED  BY <2>5, <2>6 DEF n
<1> QED  BY Invariance, <1>1, <1>2, <1>3, PTL DEF Spec

=============================================================================
