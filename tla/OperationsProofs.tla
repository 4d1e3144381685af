-------------------------- MODULE OperationsProofs --------------------------
(***************************************************************************)
(* Theorems about what the app has running and has to say of it.           *)
(*                                                                         *)
(* Operations: actions are reported as they went, for any remotes, any     *)
(* number of tasks and any number of rounds.                               *)
(*                                                                         *)
(* StatusMessages, where they are reported: the strip keeps its order and  *)
(* its notices, however long it is and however many messages come.  It     *)
(* rests on lemmas about what Vec::retain leaves of a sequence, by         *)
(* induction over its length.                                              *)
(*                                                                         *)
(* ConsoleSession, the daemon's operation of a console: the socket and the *)
(* tasks of its tunnel have an owner, for any set of SPICE channels.       *)
(***************************************************************************)
EXTENDS Operations, StatusMessages, ConsoleSession,
        SequenceTheorems, WellFoundedInduction, TLAPS

Record ==
  [stage: Stage, request: Request \union {None}, asks: Remote \union {None},
   at: Remote \union {None}, round: 0..MaxRounds]

(* A task that has still to ask, or to hear, has rounds left.              *)
RoundsLeft ==
  \A t \in Task : task[t].stage \in {"idle", "next", "sent"} => task[t].round < MaxRounds

Inv == TypeOK /\ RoundsLeft /\ ReportedAsItWent

(* What the step of one task leaves alone.                                 *)
LEMMA BecomesEffect ==
  ASSUME TypeOK, NEW t \in Task, NEW to \in Record, Becomes(t, to)
  PROVE  /\ task' \in [Task -> Record]
         /\ \A u \in Task : task'[u] = IF u = t THEN to ELSE task[u]
BY DEF TypeOK, Record, Becomes

(* It is enough to look at the task that takes the step, when it changes   *)
(* neither the remotes' types nor what the daemons have of other tasks.    *)
LEMMA TaskStepKeeps ==
  ASSUME Inv, NEW t \in Task, NEW to \in Record, Becomes(t, to),
         current' \in Remote, resolved' \subseteq Remote, loadable' \subseteq Remote,
         operation' \in [Task -> {"none", "running", "success", "failure"}],
         \A u \in Task \ {t} : operation'[u] = operation[u],
         spoilt' \subseteq Task, spoilt \subseteq spoilt',
         to.stage \in {"idle", "next", "sent"} => to.round < MaxRounds,
         to.stage = "ok" /\ to.request \in {"power", "rename", "wait"}
           => operation'[t] = "success",
         to.stage = "error" /\ to.request \in {"power", "rename", "wait"} /\ t \notin spoilt'
           => operation'[t] = "failure" \/ to.round = MaxRounds
  PROVE  Inv'
<1>1. /\ task' \in [Task -> Record]
      /\ \A u \in Task : task'[u] = IF u = t THEN to ELSE task[u]
  BY BecomesEffect DEF Inv
<1>2. TypeOK'
  BY <1>1 DEF TypeOK, Record
<1>3. RoundsLeft'
  BY <1>1 DEF Inv, RoundsLeft
<1>4. ReportedAsItWent'
  <2> SUFFICES ASSUME NEW u \in Task
               PROVE  /\ Acts(u)' /\ task'[u].stage = "ok" => operation'[u] = "success"
                      /\ Acts(u)' /\ task'[u].stage = "error" /\ u \notin spoilt'
                           => operation'[u] = "failure" \/ task'[u].round = MaxRounds
    BY DEF ReportedAsItWent
  <2>1. CASE u = t
    BY <1>1, <2>1 DEF Acts
  <2>2. CASE u # t
    BY <1>1, <2>2 DEF Acts, Inv, ReportedAsItWent
  <2> QED  BY <2>1, <2>2
<1> QED  BY <1>2, <1>3, <1>4 DEF Inv

(* The record of a task, as its type gives it.                             *)
LEMMA RecordOfTask ==
  ASSUME Inv, NEW t \in Task
  PROVE  /\ task[t] \in Record
         /\ task[t].stage \in {"idle", "next", "sent"} => task[t].round + 1 \in 0..MaxRounds
BY RoundAssumption DEF Inv, TypeOK, RoundsLeft, Record

(* The initial states satisfy the inductive invariant.                     *)
LEMMA InvInit == Init => Inv
<1> SUFFICES ASSUME Init
             PROVE  Inv
  OBVIOUS
<1>1. Idle \in Record
  BY RoundAssumption DEF Idle, Record, Stage
<1>2. TypeOK
  BY <1>1, RemoteAssumption DEF Init, TypeOK, Record
<1> QED  BY <1>2, RoundAssumption DEF Init, Inv, RoundsLeft, ReportedAsItWent, Idle

(* The remotes, and what the daemons do by themselves.                     *)
LEMMA RemoteNext ==
  ASSUME Inv, NEW r \in Remote, SwitchTo(r) \/ ConfigChanges(r)
  PROVE  Inv'
BY DEF SwitchTo, ConfigChanges, Inv, TypeOK, RoundsLeft, ReportedAsItWent, Acts

LEMMA OperationNext ==
  ASSUME Inv, NEW t \in Task, OperationEnds(t)
  PROVE  Inv'
BY DEF OperationEnds, remotes, Inv, TypeOK, RoundsLeft, ReportedAsItWent, Acts

(* A task begins, and asks.                                                *)
LEMMA AskingNext ==
  ASSUME Inv, NEW t \in Task,
         PowerAction(t) \/ CommitRename(t) \/ ShowDetails(t) \/ Ask(t)
  PROVE  Inv'
<1> USE DEF remotes, Inv, TypeOK
<1>1. ASSUME NEW what \in {"power", "rename", "instance"}, Begin(t, what)
      PROVE  Inv'
  <2> DEFINE to == [Idle EXCEPT !.stage = "next", !.request = what]
  <2>0. Idle \in Record /\ Idle.round = 0
    BY RoundAssumption DEF Idle, Record, Stage
  <2>1. to \in Record /\ to.stage = "next" /\ to.round = 0
    BY <2>0 DEF Record, Stage, Request
  <2>2. Becomes(t, to)
    BY <1>1 DEF Begin
  <2> HIDE DEF to
  <2> QED  BY <1>1, <2>1, <2>2, TaskStepKeeps, RoundAssumption DEF Begin
<1>2. CASE Ask(t)
  <2> DEFINE to == [task[t] EXCEPT !.stage = "sent", !.asks = current]
  <2>1. to \in Record /\ to.stage = "sent" /\ to.round = task[t].round
    BY RecordOfTask DEF Record, Stage
  <2>2. to.round < MaxRounds
    BY <1>2, <2>1 DEF Ask, RoundsLeft
  <2>3. Becomes(t, to)
    BY <1>2 DEF Ask
  <2> HIDE DEF to
  <2> QED  BY <1>2, <2>1, <2>2, <2>3, TaskStepKeeps DEF Ask
<1> QED  BY <1>1, <1>2 DEF PowerAction, CommitRename, ShowDetails

(* What is left of the details keeps its round, and never fails.           *)
LEMMA RestOfDetailsForms ==
  ASSUME Inv, NEW t \in Task, NEW rest \in RestOfDetails(t)
  PROVE  /\ rest \in Record
         /\ rest.round = task[t].round
         /\ rest.stage \in {"ok", "next"}
         /\ rest.stage = "ok" => rest.request = task[t].request
BY RecordOfTask DEF RestOfDetails, Record, Stage, Request

(* A request fails, or one for the details is answered.                    *)
LEMMA DetailsNext ==
  ASSUME Inv, NEW t \in Task, RequestFails(t) \/ DetailsRead(t) \/ TakeResult(t)
  PROVE  Inv'
<1> USE DEF remotes, Inv, TypeOK
<1>1. ASSUME NEW rest \in RestOfDetails(t), Becomes(t, rest),
             task[t].request \in {"state", "member"}, task[t].stage \in {"next", "sent"},
             spoilt' \subseteq Task, spoilt \subseteq spoilt',
             UNCHANGED <<remotes, operation>>
      PROVE  Inv'
  <2>1. task[t].round < MaxRounds
    BY <1>1 DEF RoundsLeft
  <2>2. /\ rest \in Record
        /\ rest.round = task[t].round
        /\ rest.stage \in {"ok", "next"}
        /\ rest.stage = "ok" => rest.request = task[t].request
    BY RestOfDetailsForms
  <2> QED  BY <1>1, <2>1, <2>2, TaskStepKeeps
<1>2. CASE RequestFails(t) /\ task[t].request \notin {"state", "member"}
  <2> DEFINE to == [task[t] EXCEPT !.stage = "error"]
  <2>1. to \in Record /\ to.stage = "error"
    BY RecordOfTask DEF Record, Stage
  <2>2. Becomes(t, to)
    BY <1>2 DEF RequestFails
  <2> HIDE DEF to
  <2> QED  BY <1>2, <2>1, <2>2, TaskStepKeeps DEF RequestFails
<1>3. CASE RequestFails(t) /\ task[t].request \in {"state", "member"}
  BY <1>1, <1>3 DEF RequestFails
<1>4. CASE DetailsRead(t) /\ task[t].request = "instance"
  <2> DEFINE to == [task[t] EXCEPT !.stage = "next", !.request = "state", !.at = task[t].asks]
  <2>1. to \in Record /\ to.stage = "next" /\ to.round = task[t].round
    BY RecordOfTask DEF Record, Stage, Request
  <2>2. Becomes(t, to) /\ to.round < MaxRounds
    BY <1>4, <2>1 DEF DetailsRead, RoundsLeft
  <2> HIDE DEF to
  <2> QED  BY <1>4, <2>1, <2>2, TaskStepKeeps DEF DetailsRead
<1>5. CASE DetailsRead(t) /\ task[t].request \in {"state", "member"}
  BY <1>1, <1>5 DEF DetailsRead
<1>6. CASE TakeResult(t)
  <2> DEFINE to == [task[t] EXCEPT !.stage = "done"]
  <2>1. to \in Record /\ to.stage = "done"
    BY RecordOfTask DEF Record, Stage
  <2>2. Becomes(t, to)
    BY <1>6 DEF TakeResult
  <2> HIDE DEF to
  <2> QED  BY <1>6, <2>1, <2>2, TaskStepKeeps DEF TakeResult
<1> QED  BY <1>2, <1>3, <1>4, <1>5, <1>6 DEF DetailsRead

(* An operation is made, and waited for in rounds.                         *)
LEMMA WaitNext ==
  ASSUME Inv, NEW t \in Task,
         OperationMade(t) \/ RoundEnds(t) \/ WaitEnds(t) \/ WaitStrays(t)
  PROVE  Inv'
<1> USE DEF remotes, Inv, TypeOK
<1>1. CASE OperationMade(t)
  <2> DEFINE to == [task[t] EXCEPT !.stage = "next", !.request = "wait", !.at = task[t].asks]
  <2>1. to \in Record /\ to.stage = "next" /\ to.round = task[t].round
    BY RecordOfTask DEF Record, Stage, Request
  <2>2. Becomes(t, to) /\ to.round < MaxRounds
    BY <1>1, <2>1 DEF OperationMade, RoundsLeft
  <2> HIDE DEF to
  <2> QED  BY <1>1, <2>1, <2>2, TaskStepKeeps DEF OperationMade
<1>2. CASE RoundEnds(t)
  <2> DEFINE to == [task[t] EXCEPT
               !.round = @ + 1,
               !.stage = IF task[t].round + 1 < MaxRounds THEN "next" ELSE "error"]
  <2>1. task[t].round \in 0..MaxRounds /\ task[t].round + 1 \in 0..MaxRounds
    BY <1>2, RecordOfTask DEF RoundEnds, Waited, Record
  <2>2. /\ to \in Record /\ to.round = task[t].round + 1
        /\ to.stage = IF task[t].round + 1 < MaxRounds THEN "next" ELSE "error"
    BY <2>1, RecordOfTask DEF Record, Stage
  <2>3. Becomes(t, to)
    BY <1>2 DEF RoundEnds
  <2> HIDE DEF to
  <2>4. /\ to.stage \in {"next", "error"}
        /\ to.stage = "next" => to.round < MaxRounds
        /\ to.stage = "error" => to.round = MaxRounds
    BY <2>1, <2>2, RoundAssumption
  <2> QED  BY <1>2, <2>2, <2>3, <2>4, TaskStepKeeps DEF RoundEnds
<1>3. CASE WaitEnds(t)
  <2> DEFINE to == [task[t] EXCEPT !.stage = IF operation[t] = "success" THEN "ok" ELSE "error"]
  <2>1. to \in Record /\ to.stage = IF operation[t] = "success" THEN "ok" ELSE "error"
    BY RecordOfTask DEF Record, Stage
  <2>2. Becomes(t, to)
    BY <1>3 DEF WaitEnds
  <2> HIDE DEF to
  <2> QED  BY <1>3, <2>1, <2>2, TaskStepKeeps DEF WaitEnds
<1>4. CASE WaitStrays(t)
  <2> DEFINE to == [task[t] EXCEPT !.stage = "error"]
  <2>1. to \in Record /\ to.stage = "error"
    BY RecordOfTask DEF Record, Stage
  <2>2. Becomes(t, to)
    BY <1>4 DEF WaitStrays
  <2> HIDE DEF to
  <2> QED  BY <1>4, <2>1, <2>2, TaskStepKeeps DEF WaitStrays
<1> QED  BY <1>1, <1>2, <1>3, <1>4

(* The inductive invariant holds in every reachable state.                 *)
THEOREM Invariance == Spec => []Inv
<1>1. ASSUME Inv, [Next]_vars
      PROVE  Inv'
  <2>1. CASE UNCHANGED vars
    BY <1>1, <2>1 DEF vars, Inv, TypeOK, RoundsLeft, ReportedAsItWent, Acts
  <2> QED
    BY <1>1, <2>1, RemoteNext, OperationNext, AskingNext, DetailsNext, WaitNext
    DEF Next, Answer
<1> QED  BY InvInit, <1>1, PTL DEF Spec

(* Every component of the requests' state keeps its type; the rounds of    *)
(* wait_operation are never more than WAIT_TOTAL_ROUNDS.                   *)
THEOREM TypeCorrect == Spec => []TypeOK
<1>1. Inv => TypeOK
  BY DEF Inv
<1> QED  BY Invariance, <1>1, PTL

(* power_action and commit_rename report success only for an operation the *)
(* daemon has done, and failure only for one that failed, that outlasted   *)
(* every round of wait_operation, or whose requests failed or strayed.     *)
THEOREM ReportsCorrect == Spec => []ReportedAsItWent
<1>1. Inv => ReportedAsItWent
  BY DEF Inv
<1> QED  BY Invariance, <1>1, PTL

----------------------------------------------------------------------------
(* What stays of a sequence.                                               *)

(* The order of the natural numbers is well-founded.                       *)
LEMMA NaturalsWellFounded ==
  IsWellFoundedOn({ss \in Nat \X Nat : ss[1] < ss[2]}, Nat)
BY NatLessThanWellFounded DEF OpToRel

(* So a set of them that is not empty has a least element.                 *)
LEMMA LeastOf ==
  ASSUME NEW T \in SUBSET Nat, T # {}
  PROVE  \E n \in T : \A m \in T : n <= m
<1> DEFINE R == {ss \in Nat \X Nat : ss[1] < ss[2]}
<1>1. PICK n \in T : \A m \in T : <<m, n>> \notin R
  <2>1. IsWellFoundedOn(R, Nat)
    BY NaturalsWellFounded
  <2> HIDE DEF R
  <2> QED  BY <2>1, WFMin
<1>2. ASSUME NEW m \in T
      PROVE  n <= m
  <2>1. <<m, n>> \in Nat \X Nat /\ <<m, n>>[1] = m /\ <<m, n>>[2] = n
    OBVIOUS
  <2>2. ~(m < n)
    BY <1>1, <2>1, Zenon
  <2> QED  BY <2>2
<1> QED  BY <1>2

(* And what holds of 0, and of a number when it holds of the one before,   *)
(* holds up to N: H is the set of the numbers that it holds of.            *)
LEMMA AllUpTo ==
  ASSUME NEW N \in Nat, NEW H, 0 \in H, \A n \in 1 .. N : n - 1 \in H => n \in H
  PROVE  0 .. N \subseteq H
<1> DEFINE T == {n \in 0 .. N : n \notin H}
<1>1. SUFFICES ASSUME T # {} PROVE FALSE
  OBVIOUS
<1>2. PICK n \in T : \A m \in T : n <= m
  <2>1. T \subseteq Nat
    OBVIOUS
  <2> HIDE DEF T
  <2> QED  BY <1>1, <2>1, LeastOf
<1>3. n \in 1 .. N /\ n - 1 \notin T
  BY <1>2
<1> QED  BY <1>2, <1>3

(* f says where each element of r was among the first n of s: they are in  *)
(* order, and they are those that are to stay.                             *)
Places(f, r, s, stay, n) ==
  /\ f \in [1 .. Len(r) -> 1 .. n]
  /\ \A i, j \in 1 .. Len(r) : i < j => f[i] < f[j]
  /\ \A i \in 1 .. Len(r) : r[i] = s[f[i]] /\ s[f[i]] \in stay
  /\ \A k \in 1 .. n : s[k] \in stay => \E i \in 1 .. Len(r) : f[i] = k

(* r is what stays of the first n elements of s, in their order.           *)
Stays(r, s, stay, n) == Len(r) <= n /\ \E f : Places(f, r, s, stay, n)

(* Nothing stays of nothing.                                               *)
LEMMA StaysOfNone ==
  ASSUME NEW s, NEW stay
  PROVE  Stays(<<>>, s, stay, 0)
<1>1. Len(<<>>) = 0
  BY EmptySeq
<1>2. Places([i \in 1 .. 0 |-> i], <<>>, s, stay, 0)
  BY <1>1 DEF Places
<1> QED  BY <1>1, <1>2 DEF Stays

(* One element more, which stays or goes.                                  *)
LEMMA StaysOfNext ==
  ASSUME NEW S, NEW s \in Seq(S), NEW stay, NEW n \in 1 .. Len(s),
         NEW r \in Seq(S), Stays(r, s, stay, n - 1)
  PROVE  Stays(IF s[n] \in stay THEN Append(r, s[n]) ELSE r, s, stay, n)
<1>0. PICK f : Places(f, r, s, stay, n - 1)
  BY DEF Stays
<1>1. /\ f \in [1 .. Len(r) -> 1 .. n - 1]
      /\ \A i, j \in 1 .. Len(r) : i < j => f[i] < f[j]
      /\ \A i \in 1 .. Len(r) : r[i] = s[f[i]] /\ s[f[i]] \in stay
      /\ \A k \in 1 .. n - 1 : s[k] \in stay => \E i \in 1 .. Len(r) : f[i] = k
  BY <1>0 DEF Places
<1>2. Len(r) \in Nat /\ Len(r) <= n - 1 /\ n \in Nat /\ s[n] \in S
  BY DEF Stays
<1>3. CASE s[n] \notin stay
  <2>1. f \in [1 .. Len(r) -> 1 .. n]
    BY <1>1, <1>2
  <2>2. \A k \in 1 .. n : s[k] \in stay => \E i \in 1 .. Len(r) : f[i] = k
    BY <1>1, <1>2, <1>3
  <2>3. Places(f, r, s, stay, n)
    BY <1>1, <2>1, <2>2 DEF Places
  <2> QED  BY <1>2, <1>3, <2>3 DEF Stays
<1>4. CASE s[n] \in stay
  <2> DEFINE l == Len(r) + 1
             a == Append(r, s[n])
             g == [i \in 1 .. l |-> IF i = l THEN n ELSE f[i]]
  <2>1. /\ Len(a) = l /\ a[l] = s[n]
        /\ \A i \in 1 .. Len(r) : a[i] = r[i]
    BY <1>2, AppendProperties
  <2>2. \A i \in 1 .. Len(r) : f[i] \in 1 .. n - 1 /\ i # l /\ i \in 1 .. l
    <3>1. \A i \in 1 .. Len(r) : f[i] \in 1 .. n - 1
      BY <1>1
    <3>2. \A i \in 1 .. Len(r) : i # l /\ i \in 1 .. l
      BY <1>2
    <3> QED  BY <3>1, <3>2
  <2>3. /\ g \in [1 .. l -> 1 .. n] /\ g[l] = n
        /\ \A i \in 1 .. Len(r) : g[i] = f[i]
    BY <1>2, <2>2
  <2>4. \A i \in 1 .. l : i = l \/ i \in 1 .. Len(r)
    BY <1>2
  <2>5. l \in 1 .. l /\ l <= n
    BY <1>2
  <2> HIDE DEF a, g, l
  <2>6. \A i, j \in 1 .. l : i < j => g[i] < g[j]
    <3> SUFFICES ASSUME NEW i \in 1 .. l, NEW j \in 1 .. l, i < j
                 PROVE  g[i] < g[j]
      OBVIOUS
    <3>1. i \in 1 .. Len(r)
      BY <1>2, <2>4 DEF l
    <3>2. CASE j = l
      BY <1>2, <2>2, <2>3, <3>1, <3>2
    <3>3. CASE j \in 1 .. Len(r)
      BY <1>1, <2>3, <3>1, <3>3
    <3> QED  BY <2>4, <3>2, <3>3
  <2>7. \A i \in 1 .. l : a[i] = s[g[i]] /\ s[g[i]] \in stay
    BY <1>1, <1>4, <2>1, <2>3, <2>4
  <2>8. ASSUME NEW k \in 1 .. n, s[k] \in stay
        PROVE  \E i \in 1 .. l : g[i] = k
    <3>1. CASE k = n
      BY <2>3, <2>5, <3>1
    <3>2. CASE k # n
      <4>1. k \in 1 .. n - 1
        BY <1>2, <3>2
      <4> QED  BY <1>1, <2>2, <2>3, <2>8, <4>1
    <3> QED  BY <3>1, <3>2
  <2>9. Places(g, a, s, stay, n)
    BY <2>1, <2>3, <2>6, <2>7, <2>8 DEF Places
  <2>10. Stays(a, s, stay, n)
    BY <2>1, <2>5, <2>9 DEF Stays
  <2> QED  BY <1>4, <2>10 DEF a
<1> QED  BY <1>3, <1>4

(* What the elements of a sequence that stay are, one element at a time.   *)
OneByOne(g, s, stay) ==
  g = [i \in 0 .. Len(s) |->
         IF i = 0 THEN <<>>
         ELSE IF s[i] \in stay THEN Append(g[i - 1], s[i]) ELSE g[i - 1]]

(* There is such a function.                                               *)
LEMMA OneByOneExists ==
  ASSUME NEW S, NEW s \in Seq(S), NEW stay
  PROVE  \E g : OneByOne(g, s, stay)
<1> DEFINE N == Len(s)
           After(q, i) == IF s[i] \in stay THEN Append(q, s[i]) ELSE q
           Upto(g, n) == /\ g[0] = <<>>
                         /\ \A i \in 1 .. n : g[i] = After(g[i - 1], i)
           H == {n \in Nat : \E g \in [0 .. n -> Seq(S)] : Upto(g, n)}
<1>1. N \in Nat /\ \A i \in 1 .. N : s[i] \in S
  OBVIOUS
<1>2. \A q \in Seq(S), i \in 1 .. N : After(q, i) \in Seq(S)
  BY <1>1, AppendProperties
<1> HIDE DEF After
<1>3. 0 \in H
  <2> DEFINE g == [i \in 0 .. 0 |-> <<>>]
  <2>1. g \in [0 .. 0 -> Seq(S)] /\ Upto(g, 0)
    BY EmptySeq
  <2> QED  BY <2>1
<1>4. ASSUME NEW n \in 1 .. N, n - 1 \in H
      PROVE  n \in H
  <2>1. PICK g \in [0 .. n - 1 -> Seq(S)] : Upto(g, n - 1)
    BY <1>4
  <2> DEFINE h == [i \in 0 .. n |-> IF i = n THEN After(g[n - 1], n) ELSE g[i]]
  <2>2. n \in Nat /\ n - 1 \in 0 .. n - 1 /\ 0 \in 0 .. n - 1
    BY <1>1
  <2>3. After(g[n - 1], n) \in Seq(S)
    BY <1>2, <2>1, <2>2
  <2>4. h \in [0 .. n -> Seq(S)]
    BY <2>1, <2>2, <2>3
  <2>5. h[n] = After(g[n - 1], n) /\ \A i \in 0 .. n - 1 : h[i] = g[i]
    BY <2>2
  <2> HIDE DEF h
  <2>6. h[0] = <<>>
    BY <2>1, <2>2, <2>5
  <2>7. ASSUME NEW i \in 1 .. n
        PROVE  h[i] = After(h[i - 1], i)
    <3>1. CASE i = n
      BY <2>2, <2>5, <3>1
    <3>2. CASE i # n
      <4>1. i \in 1 .. n - 1 /\ i \in 0 .. n - 1 /\ i - 1 \in 0 .. n - 1
        BY <2>2, <3>2
      <4> QED  BY <2>1, <2>5, <4>1
    <3> QED  BY <3>1, <3>2
  <2> QED  BY <2>2, <2>4, <2>6, <2>7
<1>5. N \in H
  <2> HIDE DEF H
  <2>1. 0 .. N \subseteq H
    BY <1>1, <1>3, <1>4, AllUpTo
  <2> QED  BY <1>1, <2>1
<1>6. PICK g \in [0 .. N -> Seq(S)] : Upto(g, N)
  BY <1>5
<1>7. g = [i \in 0 .. N |-> IF i = 0 THEN <<>> ELSE After(g[i - 1], i)]
  <2>1. ASSUME NEW i \in 0 .. N
        PROVE  g[i] = IF i = 0 THEN <<>> ELSE After(g[i - 1], i)
    <3>1. i = 0 \/ i \in 1 .. N
      BY <1>1
    <3> QED  BY <1>6, <3>1
  <2> QED  BY <1>6, <2>1
<1>8. OneByOne(g, s, stay)
  BY <1>7 DEF OneByOne, After
<1> QED  BY <1>8

(* It takes what stays.                                                    *)
LEMMA OneByOneStays ==
  ASSUME NEW S, NEW s \in Seq(S), NEW stay, NEW g, OneByOne(g, s, stay)
  PROVE  g[Len(s)] \in Seq(S) /\ Stays(g[Len(s)], s, stay, Len(s))
<1> DEFINE N == Len(s)
           H == {n \in 0 .. N : g[n] \in Seq(S) /\ Stays(g[n], s, stay, n)}
<1>1. N \in Nat /\ \A i \in 1 .. N : s[i] \in S
  OBVIOUS
<1>2. ASSUME NEW n \in 0 .. N
      PROVE  g[n] = IF n = 0 THEN <<>>
                    ELSE IF s[n] \in stay THEN Append(g[n - 1], s[n]) ELSE g[n - 1]
  BY Zenon DEF OneByOne
<1>3. g[0] = <<>>
      /\ \A n \in 1 .. N :
           g[n] = IF s[n] \in stay THEN Append(g[n - 1], s[n]) ELSE g[n - 1]
  BY <1>1, <1>2
<1>4. 0 \in H
  <2>1. <<>> \in Seq(S) /\ 0 \in 0 .. N
    BY <1>1, EmptySeq
  <2> QED  BY <1>3, <2>1, StaysOfNone
<1>5. ASSUME NEW n \in 1 .. N, n - 1 \in H
      PROVE  n \in H
  <2>1. g[n - 1] \in Seq(S) /\ Stays(g[n - 1], s, stay, n - 1)
    BY <1>5
  <2>2. Stays(g[n], s, stay, n)
    BY <1>3, <2>1, StaysOfNext
  <2>3. s[n] \in S /\ Append(g[n - 1], s[n]) \in Seq(S)
    BY <1>1, <2>1, AppendProperties
  <2>4. g[n] \in Seq(S)
    BY <1>3, <2>1, <2>3
  <2>5. n \in 0 .. N
    BY <1>1
  <2> QED  BY <2>2, <2>4, <2>5
<1>6. N \in H
  <2> HIDE DEF H
  <2>1. 0 .. N \subseteq H
    BY <1>1, <1>4, <1>5, AllUpTo
  <2> QED  BY <1>1, <2>1
<1> QED  BY <1>6

----------------------------------------------------------------------------
(* The strip of messages (StatusMessages).                                 *)

(* The messages of ms are in the order of their ids, all before next.      *)
InOrder(ms, next) ==
  /\ Len(ms) <= MaxMessages
  /\ \A i, j \in DOMAIN ms : i < j => ms[i].id < ms[j].id
  /\ \A i \in DOMAIN ms : ms[i].id < next

(* What retain leaves, of messages in order.                               *)
Retained(ms, stay) ==
  /\ ms \in Seq(Message)
  /\ InOrder(ms, next_message_id)
  /\ \A m \in Shown : m \in stay => \E i \in DOMAIN ms : ms[i] = m

(* The function that Retain is written with is the one that is known.      *)
LEMMA RetainStays ==
  ASSUME messages \in Seq(Message), NEW stay
  PROVE  /\ Retain(stay) \in Seq(Message)
         /\ Stays(Retain(stay), messages, stay, Len(messages))
<1> DEFINE g == CHOOSE h : OneByOne(h, messages, stay)
<1>1. OneByOne(g, messages, stay)
  BY OneByOneExists
<1>2. Retain(stay) = g[Len(messages)]
  BY DEF Retain, OneByOne
<1> HIDE DEF g
<1> QED  BY <1>1, <1>2, OneByOneStays

(* retain takes some messages out, and those only.                         *)
LEMMA RetainEffect ==
  ASSUME MessagesTypeOK, NEW stay
  PROVE  Retained(Retain(stay), stay)
<1> DEFINE S == Message
           r == Retain(stay)
<1>1. /\ messages \in Seq(S) /\ Len(messages) <= MaxMessages
      /\ \A i, j \in DOMAIN messages : i < j => messages[i].id < messages[j].id
      /\ \A i \in DOMAIN messages : messages[i].id < next_message_id
  BY DEF MessagesTypeOK
<1>2. r \in Seq(S) /\ Stays(r, messages, stay, Len(messages))
  BY <1>1, RetainStays
<1> HIDE DEF r, S
<1>3. PICK f : Places(f, r, messages, stay, Len(messages))
  BY <1>2 DEF Stays
<1>4. /\ Len(r) \in Nat /\ Len(r) <= Len(messages) /\ Len(messages) \in Nat
      /\ DOMAIN r = 1 .. Len(r) /\ DOMAIN messages = 1 .. Len(messages)
  BY <1>1, <1>2 DEF Stays
<1>5. /\ f \in [DOMAIN r -> DOMAIN messages]
      /\ \A i, j \in DOMAIN r : i < j => f[i] < f[j]
      /\ \A i \in DOMAIN r : r[i] = messages[f[i]]
      /\ \A k \in DOMAIN messages : messages[k] \in stay => \E i \in DOMAIN r : f[i] = k
  BY <1>3, <1>4, Zenon DEF Places
<1>6. Len(r) <= MaxMessages
  BY <1>1, <1>4, MessagesAssumption
<1>7. ASSUME NEW i \in DOMAIN r, NEW j \in DOMAIN r, i < j
      PROVE  r[i].id < r[j].id
  BY <1>1, <1>5, <1>7
<1>8. ASSUME NEW i \in DOMAIN r
      PROVE  r[i].id < next_message_id
  BY <1>1, <1>5
<1>9. ASSUME NEW m \in Shown, m \in stay
      PROVE  \E i \in DOMAIN r : r[i] = m
  <2>1. PICK k \in DOMAIN messages : messages[k] = m
    BY DEF Shown
  <2>2. PICK i \in DOMAIN r : f[i] = k
    BY <1>5, <1>9, <2>1
  <2> QED  BY <1>5, <2>1, <2>2
<1>10. InOrder(r, next_message_id)
  BY <1>6, <1>7, <1>8 DEF InOrder
<1>11. r \in Seq(Message)
  BY <1>2 DEF S
<1> QED  BY <1>9, <1>10, <1>11 DEF Retained, r

(* What push_message makes of the strip: the new message is the last, and  *)
(* only the oldest goes, and only from a strip that is full.               *)
Pushed(ms) ==
  /\ ms \in Seq(Message)
  /\ InOrder(ms, next_message_id + 1)
  /\ \A m \in Shown :
       \/ \E i \in DOMAIN ms : ms[i] = m
       \/ /\ Len(messages) = MaxMessages
          /\ \A n \in Shown : m.id <= n.id

(* The ids of the messages on the strip are natural numbers.               *)
LEMMA IdsAreNumbers ==
  ASSUME MessagesTypeOK, NEW i \in DOMAIN messages
  PROVE  messages[i].id \in Nat
<1>1. messages[i] \in Message
  BY DEF MessagesTypeOK
<1> QED  BY <1>1 DEF Message, Id

(* push_message does that.                                                 *)
LEMMA PushEffect ==
  ASSUME MessagesTypeOK, NEW severity, NEW about,
         PushMessage(severity, about),
         [id |-> next_message_id, severity |-> severity, about |-> about] \in Message
  PROVE  Pushed(messages')
<1> DEFINE S == Message
           m == [id |-> next_message_id, severity |-> severity, about |-> about]
           longer == Append(messages, m)
           N == Len(messages)
<1>1. /\ messages \in Seq(S) /\ N \in Nat /\ N <= MaxMessages
      /\ DOMAIN messages = 1 .. N
      /\ \A i, j \in 1 .. N : i < j => messages[i].id < messages[j].id
      /\ \A i \in 1 .. N : messages[i].id < next_message_id
      /\ next_message_id \in Nat /\ m \in S /\ m.id = next_message_id
  BY DEF MessagesTypeOK
<1>2. \A i \in 1 .. N : messages[i].id \in Nat
  BY <1>1, IdsAreNumbers
<1>3. messages' = IF Len(longer) > MaxMessages THEN Tail(longer) ELSE longer
  BY DEF PushMessage
<1>4. \A n \in Shown : \E i \in 1 .. N : messages[i] = n
  BY <1>1 DEF Shown
<1> HIDE DEF m, S
<1>5. /\ longer \in Seq(S) /\ Len(longer) = N + 1 /\ DOMAIN longer = 1 .. N + 1
      /\ longer[N + 1] = m
      /\ \A i \in 1 .. N : longer[i] = messages[i]
  BY <1>1, AppendProperties
<1> HIDE DEF longer, N
<1>6. \A i \in 1 .. N + 1 : i = N + 1 \/ i \in 1 .. N
  BY <1>1
<1>7. /\ \A i, j \in 1 .. N + 1 : i < j => longer[i].id < longer[j].id
      /\ \A i \in 1 .. N + 1 : longer[i].id < next_message_id + 1
  <2>1. ASSUME NEW i \in 1 .. N + 1
        PROVE  longer[i].id \in Nat /\ longer[i].id < next_message_id + 1
    BY <1>1, <1>2, <1>5, <1>6
  <2>2. ASSUME NEW i \in 1 .. N + 1, NEW j \in 1 .. N + 1, i < j
        PROVE  longer[i].id < longer[j].id
    <3>1. i \in 1 .. N
      BY <1>1, <2>2
    <3>2. CASE j = N + 1
      BY <1>1, <1>5, <3>1, <3>2
    <3>3. CASE j \in 1 .. N
      BY <1>1, <1>5, <2>2, <3>1, <3>3
    <3> QED  BY <1>6, <3>2, <3>3
  <2> QED  BY <2>1, <2>2
<1>8. CASE N + 1 <= MaxMessages
  <2>1. messages' = longer
    BY <1>1, <1>3, <1>5, <1>8, MessagesAssumption
  <2>2. InOrder(longer, next_message_id + 1)
    BY <1>5, <1>7, <1>8 DEF InOrder
  <2>3. \A n \in Shown : \E i \in DOMAIN longer : longer[i] = n
    BY <1>1, <1>4, <1>5
  <2> QED  BY <1>5, <2>1, <2>2, <2>3 DEF Pushed, S
<1>9. CASE N = MaxMessages
  <2> DEFINE t == Tail(longer)
  <2>1. messages' = t
    BY <1>1, <1>3, <1>5, <1>9
  <2>2. /\ t \in Seq(S) /\ Len(t) = N /\ DOMAIN t = 1 .. N
        /\ \A i \in 1 .. N : t[i] = longer[i + 1]
    <3>1. longer # <<>>
      BY <1>1, <1>5, EmptySeq
    <3> QED  BY <1>1, <1>5, <3>1, HeadTailProperties
  <2> HIDE DEF t
  <2>3. /\ \A i, j \in 1 .. N : i < j => t[i].id < t[j].id
        /\ \A i \in 1 .. N : t[i].id < next_message_id + 1
    <3>1. \A i \in 1 .. N : i + 1 \in 1 .. N + 1
      BY <1>1
    <3>2. \A i, j \in 1 .. N : i < j => i + 1 < j + 1
      BY <1>1
    <3> QED  BY <1>7, <2>2, <3>1, <3>2
  <2>4. InOrder(t, next_message_id + 1)
    BY <1>1, <1>9, <2>2, <2>3 DEF InOrder
  <2>5. ASSUME NEW n \in Shown
        PROVE  \/ \E i \in DOMAIN t : t[i] = n
               \/ \A o \in Shown : n.id <= o.id
    <3>1. PICK k \in 1 .. N : messages[k] = n
      BY <1>4
    <3>2. CASE k = 1
      <4>1. ASSUME NEW o \in Shown
            PROVE  n.id <= o.id
        <5>1. PICK l \in 1 .. N : messages[l] = o
          BY <1>4
        <5>2. l = 1 \/ 1 < l
          BY <1>1
        <5> QED  BY <1>1, <1>2, <3>1, <3>2, <5>1, <5>2
      <4> QED  BY <4>1
    <3>3. CASE k # 1
      <4>1. k - 1 \in 1 .. N /\ (k - 1) + 1 = k
        BY <1>1, <3>3
      <4>2. t[k - 1] = n
        BY <1>5, <2>2, <3>1, <4>1
      <4> QED  BY <2>2, <4>1, <4>2
    <3> QED  BY <3>2, <3>3
  <2> QED  BY <1>9, <2>1, <2>2, <2>4, <2>5 DEF Pushed, N, S
<1> QED  BY <1>1, <1>8, <1>9, MessagesAssumption

(* Who takes which message down.                                           *)
TakenDown ==
  \A m \in Shown : ~(\E i \in DOMAIN messages' : messages'[i] = m) /\ m.severity = "notice"
    => \/ m.id \in timers /\ m.id \notin timers'
       \/ last' = "switch"
       \/ /\ last' = "report"
          /\ Len(messages) = MaxMessages
          /\ \A n \in Shown : m.id <= n.id

(* The steps keep the strip as it has to be, and keep its notices.         *)
LEMMA StripNext ==
  ASSUME MessagesTypeOK, MessagesNext
  PROVE  MessagesTypeOK' /\ TakenDown
<1>0. /\ next_message_id \in 0 .. MaxId /\ timers \in SUBSET Id
      /\ last \in {"start", "report", "timer", "list", "focus", "switch"}
      /\ messages \in Seq(Message) /\ InOrder(messages, next_message_id)
  BY DEF MessagesTypeOK, InOrder
<1>1. ASSUME NEW severity, NEW about, PushMessage(severity, about),
             [id |-> next_message_id, severity |-> severity, about |-> about]
               \in Message,
             timers' \in {timers, timers \union {next_message_id}}, last' = "report"
      PROVE  MessagesTypeOK' /\ TakenDown
  <2>1. Pushed(messages')
    BY <1>1, PushEffect
  <2>2. next_message_id' = next_message_id + 1 /\ next_message_id < MaxId
    BY <1>1 DEF PushMessage
  <2>3. next_message_id' \in 0 .. MaxId /\ timers' \in SUBSET Id
    BY <1>0, <1>1, <2>2, IdAssumption DEF Id
  <2>4. MessagesTypeOK'
    BY <1>1, <2>1, <2>2, <2>3 DEF MessagesTypeOK, Pushed, InOrder
  <2>5. TakenDown
    BY <1>1, <2>1 DEF TakenDown, Pushed
  <2> QED  BY <2>4, <2>5
<1>2. ASSUME NEW about \in About, ReportError(about)
      PROVE  MessagesTypeOK' /\ TakenDown
  <2>1. next_message_id \in Id
    BY <1>0, <1>2, IdAssumption DEF ReportError, PushMessage, Id
  <2>2. [id |-> next_message_id, severity |-> "error", about |-> about] \in Message
    BY <2>1 DEF Message
  <2> QED  BY <1>1, <1>2, <2>2 DEF ReportError
<1>3. ASSUME NEW text \in Text, ReportNotice(text)
      PROVE  MessagesTypeOK' /\ TakenDown
  <2>1. next_message_id \in Id
    BY <1>0, <1>3, IdAssumption DEF ReportNotice, PushMessage, Id
  <2>2. [id |-> next_message_id, severity |-> "notice", about |-> text] \in Message
    BY <2>1 DEF Message
  <2> QED  BY <1>1, <1>3, <2>2 DEF ReportNotice
<1>4. ASSUME NEW stay, messages' = Retain(stay), next_message_id' = next_message_id,
             timers' \in SUBSET timers, last' \in {"timer", "list", "focus"},
             \A m \in Shown : m.severity = "notice" /\ m \notin stay
               => m.id \in timers /\ m.id \notin timers'
      PROVE  MessagesTypeOK' /\ TakenDown
  <2>1. Retained(messages', stay)
    BY <1>4, RetainEffect
  <2>2. MessagesTypeOK'
    BY <1>0, <1>4, <2>1 DEF MessagesTypeOK, Retained, InOrder
  <2>3. TakenDown
    BY <1>4, <2>1 DEF TakenDown, Retained
  <2> QED  BY <2>2, <2>3
<1>5. ASSUME NEW id \in Id, TimerFires(id)
      PROVE  MessagesTypeOK' /\ TakenDown
  <2> DEFINE stay == {m \in Shown : m.id # id}
  <2>1. /\ id \in timers /\ timers' = timers \ {id} /\ messages' = Retain(stay)
        /\ next_message_id' = next_message_id /\ last' = "timer"
    BY <1>5 DEF TimerFires
  <2>2. \A m \in Shown : m \notin stay => m.id \in timers /\ m.id \notin timers'
    BY <2>1
  <2> HIDE DEF stay
  <2> QED  BY <1>4, <2>1, <2>2
<1>6. CASE ListRead \/ FocusTab
  <2> DEFINE stay == {m \in Shown : m.severity # "error"}
  <2>1. /\ messages' = Retain(stay) /\ last' \in {"list", "focus"}
        /\ next_message_id' = next_message_id /\ timers' = timers
    BY <1>6 DEF ListRead, FocusTab, WithoutErrors
  <2>2. \A m \in Shown : m.severity = "notice" => m \in stay
    OBVIOUS
  <2> HIDE DEF stay
  <2> QED  BY <1>4, <2>1, <2>2
<1>7. CASE SwitchRemote
  <2>1. messages' = <<>> /\ last' = "switch"
        /\ next_message_id' = next_message_id /\ timers' = timers
    BY <1>7 DEF SwitchRemote
  <2>2. MessagesTypeOK'
    BY <1>0, <2>1, EmptySeq, MessagesAssumption DEF MessagesTypeOK
  <2>3. TakenDown
    BY <2>1 DEF TakenDown
  <2> QED  BY <2>2, <2>3
<1> QED  BY <1>2, <1>3, <1>5, <1>6, <1>7 DEF MessagesNext

(* The strip never holds more than MAX_MESSAGES, always in the order they  *)
(* were pushed and each under an id of its own.                            *)
THEOREM MessagesTypeCorrect == MessagesSpec => []MessagesTypeOK
<1>1. MessagesInit => MessagesTypeOK
  BY EmptySeq, MessagesAssumption, IdAssumption DEF MessagesInit, MessagesTypeOK
<1>2. ASSUME MessagesTypeOK, [MessagesNext]_messagesVars
      PROVE  MessagesTypeOK'
  <2>1. CASE UNCHANGED messagesVars
    BY <1>2, <2>1 DEF messagesVars, MessagesTypeOK
  <2> QED  BY <1>2, <2>1, StripNext
<1> QED  BY <1>1, <1>2, PTL DEF MessagesSpec

(* A notice goes when its own time is over, and nothing takes it down      *)
(* early but a switch of the remote, or a full strip whose oldest it is.   *)
THEOREM MessagesLast == MessagesSpec => NoticesLast
<1> DEFINE Kept ==
     \A m \in Shown \ Shown' :
       m.severity = "notice"
         => \/ m.id \in timers /\ m.id \notin timers'
            \/ last' = "switch"
            \/ /\ last' = "report"
               /\ Len(messages) = MaxMessages
               /\ \A n \in Shown : m.id <= n.id
<1>1. ASSUME MessagesTypeOK, [MessagesNext]_messagesVars
      PROVE  [Kept]_messagesVars
  <2>1. TakenDown => Kept
    BY DEF TakenDown, Shown
  <2> QED  BY <1>1, <2>1, StripNext
<1>2. NoticesLast <=> [][Kept]_messagesVars
  BY DEF NoticesLast
<1> HIDE DEF Kept
<1> QED  BY <1>1, <1>2, MessagesTypeCorrect, PTL DEF MessagesSpec

----------------------------------------------------------------------------
(* The session of a console (ConsoleSession).                              *)

(* What start_console owns at each stage.                                  *)
StartAndTunnel ==
  /\ start = "opening" => ~socket
  /\ start \in {"opening", "dialling"} => proxy = "none"
  /\ start \in {"waiting", "tab"} => proxy = "up"
  /\ GivenUp => proxy # "up"

(* The tasks of the tunnel are there with the proxy, and its Drop begins   *)
(* with them.                                                              *)
TasksAreHeld ==
  /\ proxy = "none" => acceptor = "none" /\ control = "none"
  /\ proxy \in {"aborted", "down"} => {"acceptor", "control"} \subseteq aborted

(* A pump that runs is on the list, about to be put there, or aborted.     *)
PumpsAreHeld ==
  \A c \in Channel : pump[c] \in {"dialling", "copying"}
    => c \in listed \union aborted \/ c = accepted

(* The GLib thread answers when it has built the session, and not before.  *)
AnswerIsTrue == ready = "ok" => session # "none"

SessionInv ==
  SessionTypeOK /\ StartAndTunnel /\ SocketIsOwned /\ TasksAreHeld /\ PumpsAreHeld
  /\ AnswerIsTrue

(* A console can be given up at any stage: start_console and the handle.   *)
LEMMA SessionStartNext ==
  ASSUME SessionInv, StartStep
  PROVE  SessionInv'
<1> USE DEF SessionInv, StartAndTunnel, GivenUp, SocketIsOwned,
            TasksAreHeld, PumpsAreHeld, AnswerIsTrue, tokio, glib
<1>1. CASE OpenFails \/ Bind \/ ControlFails \/ Started
  <2>1. UNCHANGED <<proxy, acceptor, accepted, control, pump, websocket, listed,
                    aborted, request, ready, input, session, local, alive, timer>>
    BY <1>1 DEF OpenFails, Bind, ControlFails, Started
  <2>2. SessionTypeOK'
    <3>1. start' \in {"dialling", "tab", "failed"} /\ socket' \in BOOLEAN
      BY <1>1 DEF SessionTypeOK, OpenFails, Bind,
                  ControlFails, Started
    <3>2. start' = "tab" => session # "none" /\ proxy = "up"
      BY <1>1 DEF OpenFails, Bind, ControlFails, Started
    <3> QED  BY <2>1, <3>1, <3>2 DEF SessionTypeOK
  <2>3. StartAndTunnel' /\ SocketIsOwned' /\ AnswerIsTrue'
    BY <1>1, <2>1 DEF OpenFails, Bind, ControlFails, Started
  <2> QED  BY <2>1, <2>2, <2>3
<1>2. CASE SpawnTunnel
  <2>1. SessionTypeOK'
    BY <1>2 DEF SessionTypeOK, SpawnTunnel
  <2> QED  BY <1>2, <2>1 DEF SpawnTunnel
<1>3. CASE StartFails \/ Stop
  <2>1. DropProxy
    BY <1>3 DEF StartFails, Stop
  <2>2. SessionTypeOK'
    BY <1>3, <2>1 DEF SessionTypeOK, DropProxy, StartFails, Stop
  <2>3. StartAndTunnel'
    BY <1>3, <2>1 DEF DropProxy, StartFails, Stop
  <2>4. AnswerIsTrue'
    BY <1>3, <2>1 DEF DropProxy, StartFails, Stop
  <2> QED  BY <2>1, <2>2, <2>3, <2>4 DEF DropProxy
<1>4. CASE DropPumps
  <2>1. SessionTypeOK'
    <3>1. /\ proxy' = "down" /\ aborted' = aborted \union listed
          /\ listed' = {} /\ socket' = FALSE
          /\ UNCHANGED <<start, acceptor, accepted, control, pump, websocket, input,
                         request, ready, session, local, alive, timer>>
      BY <1>4 DEF DropPumps
    <3>2. /\ aborted' \in SUBSET (Channel \union {"acceptor", "control"})
          /\ listed' \in SUBSET Channel /\ proxy' \in {"none", "up", "aborted", "down"}
          /\ socket' \in BOOLEAN
      BY <3>1 DEF SessionTypeOK
    <3>3. start # "tab"
      BY <1>4 DEF DropPumps
    <3> QED  BY <3>1, <3>2, <3>3 DEF SessionTypeOK
  <2> QED  BY <1>4, <2>1 DEF DropPumps
<1> QED  BY <1>1, <1>2, <1>3, <1>4 DEF StartStep

(* The tunnel is at work meanwhile.                                        *)
LEMMA SessionTunnelNext ==
  ASSUME SessionInv, TunnelStep
  PROVE  SessionInv'
<1> USE DEF SessionInv, StartAndTunnel, GivenUp, SocketIsOwned,
            TasksAreHeld, PumpsAreHeld, AnswerIsTrue, tokio, glib
<1>1. ASSUME NEW c \in Channel, Accept(c)
      PROVE  SessionInv'
  <2>1. SessionTypeOK'
    <3>1. /\ local' = [local EXCEPT ![c] = "open"]
          /\ pump' = [pump EXCEPT ![c] = "dialling"]
          /\ accepted' = c
          /\ UNCHANGED <<start, proxy, socket, acceptor, control, websocket, listed,
                         aborted, request, ready, input, session, alive, timer>>
      BY <1>1 DEF Accept
    <3>2. local' \in [Channel -> {"none", "backlog", "open", "closed"}]
          /\ pump' \in [Channel -> {"none", "dialling", "copying", "ended"}]
      BY <3>1 DEF SessionTypeOK
    <3> QED  BY <3>1, <3>2 DEF SessionTypeOK
  <2>2. PumpsAreHeld'
    <3>1. accepted' = c /\ UNCHANGED <<listed, aborted>>
          /\ accepted = NoChannel /\ pump' = [pump EXCEPT ![c] = "dialling"]
      BY <1>1 DEF Accept
    <3> SUFFICES ASSUME NEW d \in Channel, pump'[d] \in {"dialling", "copying"}
                 PROVE  d \in listed' \union aborted' \/ d = accepted'
      OBVIOUS
    <3>2. CASE d # c
      <4>1. pump'[d] = pump[d]
        BY <3>1, <3>2 DEF SessionTypeOK
      <4>2. d \in listed \union aborted
        BY <3>1, <4>1, ChannelAssumption
      <4> QED  BY <3>1, <4>2
    <3> QED  BY <3>1, <3>2
  <2> QED  BY <1>1, <2>1, <2>2 DEF Accept
<1>2. ASSUME NEW c \in Channel,
             PumpDials(c) \/ WebsocketCloses(c) \/ PumpEnds(c)
      PROVE  SessionInv'
  <2>1. UNCHANGED <<start, proxy, socket, acceptor, accepted, control, listed, aborted,
                    request, ready, input, session, alive, timer>>
    BY <1>2 DEF PumpDials, WebsocketCloses, PumpEnds
  <2>2. SessionTypeOK'
    BY <1>2, <2>1 DEF SessionTypeOK, PumpDials, WebsocketCloses,
                      PumpEnds
  <2>3. PumpsAreHeld'
    BY <1>2, <2>1 DEF SessionTypeOK, PumpDials, WebsocketCloses,
                      PumpEnds
  <2> QED  BY <2>1, <2>2, <2>3
<1>3. CASE ListPump
  <2>1. accepted \in Channel
    BY <1>3 DEF SessionTypeOK, ListPump
  <2>2. SessionTypeOK'
    BY <1>3, <2>1 DEF SessionTypeOK, ListPump
  <2> QED  BY <1>3, <2>2 DEF ListPump
<1>4. CASE AcceptorEnds
  <2>1. SessionTypeOK'
    BY <1>4 DEF SessionTypeOK, AcceptorEnds
  <2> QED  BY <1>4, <2>1 DEF AcceptorEnds
<1>5. CASE ControlEnds
  <2>1. SessionTypeOK'
    BY <1>5 DEF SessionTypeOK, ControlEnds
  <2> QED  BY <1>5, <2>1 DEF ControlEnds
<1> QED  BY <1>1, <1>2, <1>3, <1>4, <1>5 DEF TunnelStep

(* And so is the GLib thread, which touches neither.                       *)
LEMMA SessionGlibNext ==
  ASSUME SessionInv, GlibStep
  PROVE  SessionInv'
<1> USE DEF tokio
<1>1. UNCHANGED <<start, proxy, socket, acceptor, accepted, control, pump, websocket,
                  listed, aborted, input>>
  BY DEF GlibStep, BuildFails, BuildSession, DialSocket,
         Disconnected, InputPumpEnds, FrameTimerEnds
<1>2. request' \in {"none", "queued", "taken"} /\ ready' \in {"none", "ok", "err"}
      /\ session' \in {"none", "connected", "closed"} /\ alive' \in BOOLEAN /\ timer' \in BOOLEAN
  BY DEF SessionInv, SessionTypeOK,
         GlibStep, BuildFails, BuildSession, DialSocket,
         Disconnected, InputPumpEnds, FrameTimerEnds
<1>3. local' \in [Channel -> {"none", "backlog", "open", "closed"}]
  BY DEF SessionInv, SessionTypeOK,
         GlibStep, BuildFails, BuildSession, DialSocket,
         Disconnected, InputPumpEnds, FrameTimerEnds
<1>4. (session # "none" => session' # "none") /\ AnswerIsTrue'
  BY <1>1 DEF SessionInv, SessionTypeOK, AnswerIsTrue,
         GlibStep, BuildFails, BuildSession, DialSocket,
         Disconnected, InputPumpEnds, FrameTimerEnds
<1>5. SessionTypeOK'
  BY <1>1, <1>2, <1>3, <1>4 DEF SessionInv, SessionTypeOK
<1> QED
  BY <1>1, <1>4, <1>5 DEF SessionInv, StartAndTunnel, GivenUp, SocketIsOwned,
                    TasksAreHeld, PumpsAreHeld

(* The inductive invariant of a console session.                           *)
THEOREM SessionInvariance == SessionSpec => []SessionInv
<1>1. SessionInit => SessionInv
  BY DEF SessionInit, SessionInv, SessionTypeOK, StartAndTunnel, GivenUp,
         SocketIsOwned, TasksAreHeld, PumpsAreHeld, AnswerIsTrue
<1>2. ASSUME SessionInv, [SessionNext]_sessionVars
      PROVE  SessionInv'
  <2>1. CASE UNCHANGED sessionVars
    BY <1>2, <2>1 DEF sessionVars, SessionInv, SessionTypeOK, StartAndTunnel,
       GivenUp, SocketIsOwned, TasksAreHeld, PumpsAreHeld, AnswerIsTrue
  <2> QED
    BY <1>2, <2>1, SessionStartNext, SessionTunnelNext, SessionGlibNext DEF SessionNext
<1> QED  BY <1>1, <1>2, PTL DEF SessionSpec

(* Every component of a session's state keeps its type, for any set of     *)
(* SPICE channels.                                                         *)
THEOREM SessionTypeCorrect == SessionSpec => []SessionTypeOK
<1>1. SessionInv => SessionTypeOK
  BY DEF SessionInv
<1> QED  BY SessionInvariance, <1>1, PTL

(* Wherever start_console fails and whenever the handle is dropped, there  *)
(* is an owner left that unlinks the socket file (SocketFile's Drop).      *)
THEOREM SocketOwned == SessionSpec => []SocketIsOwned
<1>1. SessionInv => SocketIsOwned
  BY DEF SessionInv
<1> QED  BY SessionInvariance, <1>1, PTL

(* A console that is given up holds on to nothing of its tunnel: what      *)
(* still runs of the accept loop and of the control task has been aborted. *)
GivenUpIsAborted ==
  GivenUp => /\ acceptor = "accepting" => "acceptor" \in aborted
             /\ control = "open" => "control" \in aborted

(* ConsoleProxy loses sight of nothing it has spawned: the two tasks are   *)
(* aborted once the console is given up, and a pump that runs is on the    *)
(* list that Drop goes through, about to be put there, or aborted.  That   *)
(* one may still be put there after Drop has been through the list is what *)
(* DropAbortsEveryPump is about.                                           *)
THEOREM TunnelIsHeld == SessionSpec => [](GivenUpIsAborted /\ PumpsAreHeld)
<1>1. SessionInv => GivenUpIsAborted /\ PumpsAreHeld
  BY DEF SessionInv, SessionTypeOK, StartAndTunnel, TasksAreHeld, GivenUpIsAborted
<1> QED  BY SessionInvariance, <1>1, PTL

=============================================================================
