-------------------------- MODULE InputPumpProofs ---------------------------
(***************************************************************************)
(* The input pump keeps the order of what it is sent, the mask of the      *)
(* buttons, and the place of a press, for any places, buttons, keys and    *)
(* wheel, and any number of handlers.                                      *)
(***************************************************************************)
EXTENDS InputPump, SequenceTheorems, TLAPS

(* The mask, as the pump and as the guest have it.                         *)
MasksAgree == guest.mask = button_state /\ guest.down = button_state

Inv == TypeOK /\ MasksAgree

----------------------------------------------------------------------------
(* Sequences.                                                              *)

(* Appending to two sequences is appending to the second.                  *)
LEMMA AppendToConcat ==
  ASSUME NEW S, NEW s \in Seq(S), NEW t \in Seq(S), NEW e \in S
  PROVE  s \o Append(t, e) = Append(s \o t, e)
<1>1. <<e>> \in Seq(S) /\ s \o t \in Seq(S)
  BY ConcatProperties
<1>2. Append(t, e) = t \o <<e>> /\ Append(s \o t, e) = (s \o t) \o <<e>>
  BY <1>1, AppendIsConcat
<1> QED  BY <1>1, <1>2, ConcatAssociative

(* A sequence is its head and its tail.                                    *)
LEMMA HeadThenTail ==
  ASSUME NEW S, NEW s \in Seq(S), s # <<>>
  PROVE  /\ Head(s) \in S /\ Tail(s) \in Seq(S)
         /\ s = <<Head(s)>> \o Tail(s)
<1>1. /\ Head(s) \in S /\ Tail(s) \in Seq(S) /\ Len(Tail(s)) = Len(s) - 1
      /\ \A i \in 1 .. Len(Tail(s)) : Tail(s)[i] = s[i + 1]
  BY HeadTailProperties
<1>2. Head(s) = s[1] /\ <<Head(s)>> \in Seq(S) /\ Len(s) \in Nat
  BY <1>1
<1>3. /\ <<Head(s)>> \o Tail(s) \in Seq(S)
      /\ Len(<<Head(s)>> \o Tail(s)) = Len(s)
      /\ \A i \in 1 .. Len(s) : (<<Head(s)>> \o Tail(s))[i] = s[i]
  <2>1. /\ <<Head(s)>> \o Tail(s) \in Seq(S)
        /\ Len(<<Head(s)>> \o Tail(s)) = 1 + Len(Tail(s))
        /\ \A i \in 1 .. 1 + Len(Tail(s)) : (<<Head(s)>> \o Tail(s))[i] =
             IF i <= 1 THEN <<Head(s)>>[i] ELSE Tail(s)[i - 1]
    BY <1>1, <1>2, ConcatProperties
  <2> QED  BY <1>1, <1>2, <2>1
<1> QED  BY <1>3, SeqEqual

(* Two sequences begin as the first of them does.                          *)
LEMMA HeadOfConcat ==
  ASSUME NEW S, NEW s \in Seq(S), NEW t \in Seq(S), s # <<>>
  PROVE  /\ s \o t # <<>>
         /\ Head(s \o t) = Head(s)
         /\ Tail(s \o t) = Tail(s) \o t
<1>1. /\ s \o t \in Seq(S)
      /\ Len(s \o t) = Len(s) + Len(t)
      /\ \A i \in 1 .. Len(s) + Len(t) : (s \o t)[i] =
           IF i <= Len(s) THEN s[i] ELSE t[i - Len(s)]
  BY ConcatProperties
<1>2. Len(s) \in Nat \ {0} /\ Len(t) \in Nat
  BY EmptySeq
<1>3. s \o t # <<>>
  BY <1>1, <1>2
<1>4. Head(s \o t) = Head(s)
  BY <1>1, <1>2, <1>3
<1>5. /\ Tail(s) \in Seq(S) /\ Len(Tail(s)) = Len(s) - 1
      /\ \A i \in 1 .. Len(s) - 1 : Tail(s)[i] = s[i + 1]
  BY HeadTailProperties
<1>6. /\ Tail(s \o t) \in Seq(S) /\ Len(Tail(s \o t)) = Len(s) + Len(t) - 1
      /\ \A i \in 1 .. Len(s) + Len(t) - 1 : Tail(s \o t)[i] = (s \o t)[i + 1]
  BY <1>1, <1>3, HeadTailProperties
<1>7. /\ Tail(s) \o t \in Seq(S)
      /\ Len(Tail(s) \o t) = Len(s) - 1 + Len(t)
      /\ \A i \in 1 .. Len(s) - 1 + Len(t) : (Tail(s) \o t)[i] =
           IF i <= Len(s) - 1 THEN Tail(s)[i] ELSE t[i - (Len(s) - 1)]
  BY <1>5, ConcatProperties
<1>8. ASSUME NEW i \in 1 .. Len(s) + Len(t) - 1
      PROVE  Tail(s \o t)[i] = (Tail(s) \o t)[i]
  <2>1. i + 1 \in 1 .. Len(s) + Len(t) /\ i \in 1 .. Len(s) - 1 + Len(t)
    BY <1>2
  <2>2. Tail(s \o t)[i] = IF i + 1 <= Len(s) THEN s[i + 1] ELSE t[i + 1 - Len(s)]
    BY <1>1, <1>6, <2>1
  <2>3. (Tail(s) \o t)[i] = IF i + 1 <= Len(s) THEN s[i + 1] ELSE t[i + 1 - Len(s)]
    BY <1>2, <1>5, <1>7, <2>1
  <2> QED  BY <2>2, <2>3
<1>9. Len(Tail(s \o t)) = Len(Tail(s) \o t)
  BY <1>2, <1>6, <1>7
<1> QED  BY <1>2, <1>3, <1>4, <1>6, <1>7, <1>8, <1>9, SeqEqual

(* What follows the first of two sequences is the second.                  *)
LEMMA DropFirstPart ==
  ASSUME NEW S, NEW s \in Seq(S), NEW t \in Seq(S)
  PROVE  SubSeq(s \o t, Len(s) + 1, Len(s \o t)) = t
<1>1. /\ s \o t \in Seq(S)
      /\ Len(s \o t) = Len(s) + Len(t)
      /\ \A i \in 1 .. Len(s) + Len(t) : (s \o t)[i] =
           IF i <= Len(s) THEN s[i] ELSE t[i - Len(s)]
  BY ConcatProperties
<1> DEFINE r == SubSeq(s \o t, Len(s) + 1, Len(s \o t))
<1>2. Len(s) \in Nat /\ Len(t) \in Nat
  OBVIOUS
<1>3. /\ r \in Seq(S) /\ Len(r) = Len(t)
      /\ \A i \in 1 .. Len(t) : r[i] = (s \o t)[Len(s) + i]
  <2>1. \A i \in Len(s) + 1 .. Len(s \o t) : (s \o t)[i] \in S
    BY <1>1, <1>2
  <2> QED  BY <1>1, <1>2, <2>1, SubSeqProperties
<1> HIDE DEF r
<1>4. \A i \in 1 .. Len(t) : r[i] = t[i]
  BY <1>1, <1>2, <1>3
<1>5. r = t
  BY <1>3, <1>4, SeqEqual
<1> QED  BY <1>5 DEF r

(* What the elements of a concatenation are.                               *)
Concatenates(r, a, b) ==
  /\ Len(r) = Len(a) + Len(b)
  /\ \A k \in 1 .. Len(a) + Len(b) : r[k] = IF k <= Len(a) THEN a[k] ELSE b[k - Len(a)]

(* The library's fact for two sequences of events.                         *)
LEMMA EventsConcatenate ==
  ASSUME NEW a \in Seq(Event), NEW b \in Seq(Event)
  PROVE  Concatenates(a \o b, a, b)
BY ConcatProperties DEF Concatenates

(* Three sequences of events one after the other, however they are joined. *)
LEMMA EventsAssociate ==
  ASSUME NEW a \in Seq(Event), NEW b \in Seq(Event), NEW c \in Seq(Event)
  PROVE  /\ b \o c \in Seq(Event)
         /\ (a \o b) \o c = a \o (b \o c)
BY ConcatProperties, ConcatAssociative

(* The first of two neighbours goes.                                       *)
FirstOfTwoGoes(s, m, h, t) ==
  LET w == (s \o m) \o (h \o t)
      i == Len(s \o m)
  IN /\ {i, i + 1} \subseteq DOMAIN w
     /\ w[i] = m[1] /\ w[i + 1] = h[1]
     /\ RemoveAt(w, i) = s \o (h \o t)

(* Of two neighbours the first is removed.                                 *)
LEMMA RemoveFirstOfTwo ==
  ASSUME NEW s \in Seq(Event), NEW m \in Seq(Event),
         NEW h \in Seq(Event), NEW t \in Seq(Event),
         Len(m) = 1, Len(h) = 1
  PROVE  FirstOfTwoGoes(s, m, h, t)
<1> DEFINE S == Event
           p == s \o m
           q == h \o t
           w == p \o q
<1>1. p \in Seq(S) /\ q \in Seq(S) /\ w \in Seq(S)
      /\ s \in Seq(S) /\ m \in Seq(S) /\ h \in Seq(S) /\ t \in Seq(S)
  BY ConcatProperties
<1>2. p = s \o m /\ q = h \o t /\ w = p \o q
  OBVIOUS
<1> HIDE DEF p, q, w, S
<1>3. /\ Concatenates(p, s, m)
      /\ Concatenates(q, h, t)
      /\ Concatenates(w, p, q)
  BY <1>1, <1>2, EventsConcatenate DEF S
<1> USE <1>1, <1>2
<1>4. /\ Len(s) \in Nat /\ Len(t) \in Nat /\ DOMAIN w = 1 .. Len(w)
      /\ Len(p) = Len(s) + 1
      /\ \A k \in 1 .. Len(s) + 1 : p[k] = IF k <= Len(s) THEN s[k] ELSE m[k - Len(s)]
  BY <1>3 DEF Concatenates
<1>5. Len(q) = Len(t) + 1 /\ q[1] = h[1]
  BY <1>3, <1>4 DEF Concatenates
<1>6. /\ Len(w) = Len(p) + Len(q)
      /\ \A k \in 1 .. Len(p) + Len(q) : w[k] =
           IF k <= Len(p) THEN p[k] ELSE q[k - Len(p)]
  BY <1>3 DEF Concatenates
<1>7. {Len(p), Len(p) + 1} \subseteq DOMAIN w
  BY <1>4, <1>5, <1>6
<1>8. w[Len(p)] = m[1]
  BY <1>4, <1>5, <1>6
<1>9. w[Len(p) + 1] = h[1]
  BY <1>4, <1>5, <1>6
<1>10. SubSeq(w, Len(p) + 1, Len(w)) = q
  BY DropFirstPart
<1>11. SubSeq(w, 1, Len(p) - 1) = s
  <2> DEFINE r == SubSeq(w, 1, Len(s))
  <2>1. \A k \in 1 .. Len(s) : w[k] = s[k]
    BY <1>4, <1>5, <1>6
  <2>2. \A k \in 1 .. Len(s) : w[k] \in S
    BY <2>1
  <2>3. /\ r \in Seq(S) /\ Len(r) = Len(s)
        /\ \A k \in 1 .. Len(s) : r[k] = w[k]
    BY <1>4, <2>2, SubSeqProperties
  <2> HIDE DEF r
  <2>4. r = s
    BY <2>1, <2>3, SeqEqual
  <2>5. Len(p) - 1 = Len(s)
    BY <1>4
  <2> QED  BY <2>4, <2>5 DEF r
<1> QED  BY <1>7, <1>8, <1>9, <1>10, <1>11 DEF FirstOfTwoGoes, RemoveAt

(* InputLink and the pump remove alike.                                    *)
LEMMA SameRemoveAt ==
  ASSUME NEW s, NEW i
  PROVE  Link!RemoveAt(s, i) = RemoveAt(s, i)
BY DEF RemoveAt, Link!RemoveAt

(* A function on 1 .. n is a sequence.                                     *)
LEMMA FunctionIsSequence ==
  ASSUME NEW S, NEW n \in Nat, NEW f \in [1 .. n -> S]
  PROVE  f \in Seq(S)
BY SeqDef

----------------------------------------------------------------------------
(* Types.                                                                  *)

(* The forms of the events.                                                *)
LEMMA EventForms ==
  ASSUME NEW e \in Event
  PROVE  /\ e.type \in {"motion", "button", "scroll", "key", "shutdown"}
         /\ e.type = "motion" => e.at \in Place /\ e = Motion(e.at)
         /\ e.type = "button" => e.button \in Button /\ e.pressed \in BOOLEAN
         /\ e.type = "scroll" => e.button \in {Up, Down}
         /\ e.type = "shutdown" <=> e = Shutdown
BY DEF Event, Motions, Motion, ButtonEvent, Scroll, KeyEvent, Shutdown

(* What the handlers send are events.                                      *)
LEMMA EventsOfHandlers ==
  /\ \A p \in Place : Motion(p) \in Event \ {Shutdown}
  /\ \A b \in Button, d \in BOOLEAN, p \in Place \union {Outside} :
       ButtonEvent(b, d, p) \in Event
  /\ \A b \in {Up, Down} : Scroll(b) \in Event
  /\ \A k \in Key, d \in BOOLEAN : KeyEvent(k, d) \in Event
  /\ Shutdown \in Event
<1>1. ASSUME NEW p \in Place
      PROVE  Motion(p) \in Event \ {Shutdown}
  <2>1. Motion(p) \in Event
    BY DEF Event, Motions
  <2>2. Motion(p).type = "motion" /\ Shutdown.type = "shutdown"
    BY DEF Motion, Shutdown
  <2> QED  BY <2>1, <2>2
<1>2. \A b \in Button, d \in BOOLEAN, p \in Place \union {Outside} :
        ButtonEvent(b, d, p) \in Event
  BY DEF Event
<1>3. \A b \in {Up, Down} : Scroll(b) \in Event
  BY DEF Event
<1>4. \A k \in Key, d \in BOOLEAN : KeyEvent(k, d) \in Event
  BY DEF Event
<1>5. Shutdown \in Event
  BY DEF Event
<1> QED  BY <1>1, <1>2, <1>3, <1>4, <1>5

(* A motion to a place is one event, to nowhere none.                      *)
LEMMA MotionToIsSequence ==
  ASSUME NEW p \in Place \union {Outside, None}
  PROVE  /\ MotionTo(p) \in Seq(Event \ {Shutdown}) /\ MotionTo(p) \in Seq(Event)
         /\ p \in Place => MotionTo(p) = <<Motion(p)>>
         /\ p \notin Place => MotionTo(p) = <<>>
<1>1. CASE p \in Place
  BY <1>1, EventsOfHandlers DEF MotionTo
<1>2. CASE p \notin Place
  BY <1>2 DEF MotionTo
<1> QED  BY <1>1, <1>2

(* The rest of a notch is less than a notch.                               *)
LEMMA TruncProperties ==
  ASSUME NEW n \in Int
  PROVE  /\ Magnitude(Trunc(n)) \in Nat
         /\ n - Trunc(n) * Notch \in (1 - Notch) .. (Notch - 1)
<1>1. \A m \in Nat : m \div Notch \in Nat
  BY WheelAssumption
<1>2. \A m \in Nat : m - (m \div Notch) * Notch \in 0 .. Notch - 1
  BY WheelAssumption
<1>3. CASE n < 0
  <2>1. -n \in Nat /\ (-n) \div Notch \in Nat /\ Trunc(n) = -((-n) \div Notch)
    BY <1>1, <1>3 DEF Trunc
  <2>2. n - Trunc(n) * Notch = -((-n) - ((-n) \div Notch) * Notch)
    BY <2>1, WheelAssumption
  <2>3. (-n) - ((-n) \div Notch) * Notch \in 0 .. Notch - 1
    BY <1>2, <2>1
  <2> QED  BY <2>1, <2>2, <2>3, WheelAssumption DEF Magnitude
<1>4. CASE ~(n < 0)
  <2>1. n \in Nat /\ n \div Notch \in Nat /\ Trunc(n) = n \div Notch
    BY <1>1, <1>4 DEF Trunc
  <2> QED  BY <1>2, <2>1, WheelAssumption DEF Magnitude
<1> QED  BY <1>3, <1>4

(* The initial states satisfy the invariant.                               *)
LEMMA InvInit == Init => Inv
<1> SUFFICES ASSUME Init
             PROVE  Inv
  OBVIOUS
<1>1. /\ scroll_remainder \in (1 - Notch) .. (Notch - 1)
      /\ handled \in 0 .. MaxHandled
  BY WheelAssumption, HandledAssumption DEF Init
<1>2. <<>> \in Seq(Event) /\ <<>> \in Seq(Event \ {Shutdown})
  OBVIOUS
<1>3. guest \in [at: Int, mask: SUBSET (Button \union {Up, Down}), down: SUBSET Button]
  BY DEF Init
<1>4. MasksAgree
  BY DEF Init, MasksAgree
<1>5. TypeOK
  BY <1>1, <1>2, <1>3 DEF Init, TypeOK
<1> QED  BY <1>4, <1>5 DEF Inv

(* A handler sends events, and nothing else has changed.                   *)
LEMMA HandleKeeps ==
  ASSUME Inv, NEW events \in Seq(Event), Handle(events), UNCHANGED open,
         pointer' \in Place \union {Outside},
         scroll_remainder' \in (1 - Notch) .. (Notch - 1)
  PROVE  Inv'
<1>1. handled' \in 0 .. MaxHandled
  BY HandledAssumption DEF Handle, Inv, TypeOK
<1> QED  BY <1>1 DEF Handle, drained, session, effect, Inv, TypeOK, MasksAgree

(* The handlers of the UI keep the invariant.                              *)
LEMMA UiNext ==
  ASSUME Inv, UiStep
  PROVE  Inv'
<1> USE DEF Inv
<1>0. /\ pointer \in Place \union {Outside}
      /\ scroll_remainder \in (1 - Notch) .. (Notch - 1)
      /\ MotionTo(pointer) \in Seq(Event)
  BY MotionToIsSequence DEF TypeOK
<1>1. ASSUME NEW p \in Place \union {Outside}, PointerMoves(p)
      PROVE  Inv'
  <2>1. MotionTo(p) \in Seq(Event)
    BY MotionToIsSequence
  <2> QED  BY <1>0, <1>1, <2>1, HandleKeeps DEF PointerMoves
<1>2. ASSUME NEW b \in Button, PressButton(b) \/ ReleaseButton(b)
      PROVE  Inv'
  <2>1. /\ ButtonEvent(b, TRUE, pointer) \in Event
        /\ ButtonEvent(b, FALSE, pointer) \in Event
    BY <1>0, EventsOfHandlers
  <2>2. /\ Append(MotionTo(pointer), ButtonEvent(b, TRUE, pointer)) \in Seq(Event)
        /\ <<ButtonEvent(b, FALSE, pointer)>> \in Seq(Event)
    <3>1. \A e \in Event : <<e>> \in Seq(Event) /\ Append(MotionTo(pointer), e) \in Seq(Event)
      BY <1>0, AppendProperties
    <3> QED  BY <2>1, <3>1
  <2> QED  BY <1>0, <1>2, <2>2, HandleKeeps DEF PressButton, ReleaseButton
<1>3. ASSUME NEW d \in Turn, TurnWheel(d)
      PROVE  Inv'
  <2> DEFINE total == scroll_remainder + d
             clicks == Magnitude(Trunc(total))
             sent == IF clicks < MaxNotches THEN clicks ELSE MaxNotches
             wheel == IF Trunc(total) > 0 THEN Up ELSE Down
             turns == [i \in 1 .. sent |-> Scroll(wheel)]
             events == MotionTo(pointer) \o turns
  <2>1. total \in Int
    BY <1>0, WheelAssumption
  <2>2. /\ clicks \in Nat
        /\ total - Trunc(total) * Notch \in (1 - Notch) .. (Notch - 1)
    BY <2>1, TruncProperties
  <2>3. sent \in Nat /\ Scroll(wheel) \in Event
    BY <2>2, WheelAssumption, EventsOfHandlers
  <2>4. turns \in Seq(Event)
    <3>1. turns \in [1 .. sent -> Event]
      BY <2>3
    <3> HIDE DEF turns, sent
    <3> QED  BY <2>3, <3>1, FunctionIsSequence
  <2>5. events \in Seq(Event)
    BY <1>0, <2>4, ConcatProperties
  <2>6. /\ Handle(events) /\ UNCHANGED <<pointer, open>>
        /\ scroll_remainder' = total - Trunc(total) * Notch
    BY <1>3 DEF TurnWheel
  <2> HIDE DEF events, total
  <2> QED  BY <1>0, <2>2, <2>5, <2>6, HandleKeeps
<1>4. CASE CapsLockChanges
  <2>1. <<KeyEvent(CapsLock, TRUE), KeyEvent(CapsLock, FALSE)>> \in Seq(Event)
    <3>1. KeyEvent(CapsLock, TRUE) \in Event /\ KeyEvent(CapsLock, FALSE) \in Event
      BY KeyAssumption, EventsOfHandlers
    <3>2. \A e \in Event, f \in Event : <<e, f>> \in Seq(Event)
      OBVIOUS
    <3> QED  BY <3>1, <3>2
  <2> QED  BY <1>0, <1>4, <2>1, HandleKeeps DEF CapsLockChanges
<1>5. CASE SendCtrlAltDel
  <2> DEFINE downs == [i \in DOMAIN Combo |-> KeyEvent(Combo[i], TRUE)]
             ups == [i \in DOMAIN Combo |-> KeyEvent(Reverse(Combo)[i], FALSE)]
  <2>1. /\ Len(Combo) \in Nat /\ DOMAIN Combo = 1 .. Len(Combo)
        /\ \A i \in 1 .. Len(Combo) : Combo[i] \in Key /\ Reverse(Combo)[i] \in Key
    BY KeyAssumption DEF Reverse
  <2>2. downs \in [1 .. Len(Combo) -> Event] /\ ups \in [1 .. Len(Combo) -> Event]
    BY <2>1, EventsOfHandlers
  <2>3. Handle(downs \o ups) /\ UNCHANGED <<pointer, scroll_remainder, open>>
    BY <1>5 DEF SendCtrlAltDel
  <2> HIDE DEF downs, ups
  <2>4. downs \in Seq(Event) /\ ups \in Seq(Event)
    BY <2>1, <2>2, FunctionIsSequence
  <2>5. downs \o ups \in Seq(Event)
    BY <2>4, ConcatProperties
  <2> QED  BY <1>0, <2>3, <2>5, HandleKeeps
<1>6. CASE Stop
  <2>1. Append(queue, Shutdown) \in Seq(Event)
    BY EventsOfHandlers, AppendProperties DEF TypeOK
  <2>2. /\ open' = FALSE /\ queue' = Append(queue, Shutdown)
        /\ UNCHANGED <<pointer, sending, scroll_remainder, handled, pump,
                       pending_motion, actions, inputs_channel, mouse_mode,
                       last_pos, button_state, told, guest, synced>>
    BY <1>6 DEF Stop, drained, session, effect
  <2>3. TypeOK'
    BY <2>1, <2>2 DEF TypeOK
  <2>4. MasksAgree'
    BY <2>2 DEF MasksAgree
  <2> QED  BY <2>3, <2>4
<1>7. CASE SendInput
  <2>1. Head(sending) \in Event /\ Tail(sending) \in Seq(Event)
    BY <1>7, HeadTailProperties DEF SendInput, TypeOK
  <2>2. Append(queue, Head(sending)) \in Seq(Event)
    BY <2>1, AppendProperties DEF TypeOK
  <2> QED  BY <1>7, <2>1, <2>2 DEF SendInput, drained, session, effect, TypeOK, MasksAgree
<1> QED  BY <1>1, <1>2, <1>3, <1>4, <1>5, <1>6, <1>7 DEF UiStep

(* The pump drains the channel.                                            *)
LEMMA DrainNext ==
  ASSUME Inv, Tick \/ DrainMotion \/ DrainOther \/ DrainShutdown \/ DrainEmpty
  PROVE  Inv'
<1> USE DEF Inv
<1>0. MotionTo(pending_motion) \in Seq(Event \ {Shutdown})
  BY MotionToIsSequence DEF TypeOK
<1>1. CASE Tick
  BY <1>1 DEF Tick, ui, drained, session, effect, TypeOK, MasksAgree
<1>2. ASSUME NEW types, Receives(types)
      PROVE  /\ Head(queue) \in Event /\ Head(queue).type \in types
             /\ Tail(queue) \in Seq(Event)
  BY <1>2, HeadTailProperties DEF Receives, TypeOK
<1>3. CASE DrainMotion
  <2>1. Head(queue).at \in Place /\ Tail(queue) \in Seq(Event)
    BY <1>2, <1>3, EventForms DEF DrainMotion
  <2> QED  BY <1>3, <2>1 DEF DrainMotion, ui, session, effect, TypeOK, MasksAgree
<1>4. CASE DrainOther
  <2>1. Head(queue) \in Event \ {Shutdown} /\ Tail(queue) \in Seq(Event)
    BY <1>2, <1>4, EventForms DEF DrainOther
  <2>2. actions \o MotionTo(pending_motion) \in Seq(Event \ {Shutdown})
    BY <1>0, ConcatProperties DEF TypeOK
  <2>3. <<Head(queue)>> \in Seq(Event \ {Shutdown})
    BY <2>1
  <2>4. actions \o MotionTo(pending_motion) \o <<Head(queue)>> \in Seq(Event \ {Shutdown})
    BY <2>2, <2>3, ConcatProperties
  <2> QED  BY <1>4, <2>1, <2>4 DEF DrainOther, ui, session, effect, TypeOK, MasksAgree
<1>5. CASE DrainShutdown
  BY <1>5 DEF DrainShutdown, ui, session, effect, TypeOK, MasksAgree
<1>6. CASE DrainEmpty
  <2>1. actions \o MotionTo(pending_motion) \in Seq(Event \ {Shutdown})
    BY <1>0, ConcatProperties DEF TypeOK
  <2> QED  BY <1>6, <2>1 DEF DrainEmpty, ui, session, effect, TypeOK, MasksAgree
<1> QED  BY <1>1, <1>3, <1>4, <1>5, <1>6

(* An event is put into effect: types and masks of what it changes.        *)
LEMMA DeliverNext ==
  ASSUME Inv, ChannelNew \/ MouseModeNotify \/ DeliverMotion \/ DeliverButton
                \/ DeliverScroll \/ DeliverKey \/ TickEnds
  PROVE  Inv'
<1> USE DEF Inv
<1> DEFINE Guest == [at: Int, mask: SUBSET (Button \union {Up, Down}), down: SUBSET Button]
<1>1. CASE ChannelNew \/ MouseModeNotify \/ TickEnds
  <2>1. CASE ChannelNew
    BY <2>1 DEF ChannelNew, ui, drained, effect, TypeOK, MasksAgree
  <2>2. CASE MouseModeNotify
    BY <2>2 DEF MouseModeNotify, ui, drained, effect, TypeOK, MasksAgree
  <2>3. CASE TickEnds
    <3>1. <<>> \in Seq(Event \ {Shutdown})
      OBVIOUS
    <3> QED  BY <2>3, <3>1 DEF TickEnds, ui, session, effect, TypeOK, MasksAgree
  <2> QED  BY <1>1, <2>1, <2>2, <2>3
<1>2. ASSUME NEW type, Delivers(type)
      PROVE  /\ Head(actions) \in Event /\ Head(actions).type = type
             /\ Tail(actions) \in Seq(Event \ {Shutdown})
  BY <1>2, HeadTailProperties DEF Delivers, TypeOK
<1>3. ASSUME NEW type, Delivers(type),
             guest' \in Guest, button_state' \subseteq Button,
             last_pos' \in Place \union {None}, synced' \in BOOLEAN,
             MasksAgree'
      PROVE  Inv'
  BY <1>2, <1>3 DEF Delivers, ui, session, TypeOK
<1>4. guest \in Guest /\ button_state \subseteq Button /\ last_pos \in Place \union {None}
  BY DEF TypeOK
<1>5. ASSUME NEW p \in Int, NEW moved, MovesTo(p, moved)
      PROVE  /\ guest' \in Guest /\ button_state' = button_state
             /\ MasksAgree' /\ synced' \in BOOLEAN
  <2>1. CASE moved
    BY <1>4, <1>5, <2>1 DEF MovesTo, MasksAgree, TypeOK
  <2>2. CASE ~moved
    BY <1>4, <1>5, <2>2 DEF MovesTo, MasksAgree, TypeOK
  <2> QED  BY <2>1, <2>2
<1>6. CASE DeliverMotion
  <2> DEFINE p == Head(actions).at
  <2>1. p \in Place /\ p \in Int
    BY <1>2, <1>6, EventForms, PlaceAssumption DEF DeliverMotion
  <2>2. last_pos # None => guest.at + p - last_pos \in Int
    BY <1>4, <2>1, PlaceAssumption
  <2>3. /\ last_pos' = p
        /\ \/ MovesTo(p, TRUE) \/ MovesTo(p, FALSE)
           \/ last_pos # None /\ MovesTo(guest.at + p - last_pos, p # last_pos)
    BY <1>6 DEF DeliverMotion
  <2>4. /\ guest' \in Guest /\ button_state' = button_state
        /\ MasksAgree' /\ synced' \in BOOLEAN
    BY <1>5, <2>1, <2>2, <2>3
  <2> QED  BY <1>3, <1>4, <1>6, <2>1, <2>3, <2>4 DEF DeliverMotion
<1>7. CASE DeliverButton
  <2> DEFINE e == Head(actions)
             Changed(held) == IF e.pressed THEN held \union {e.button} ELSE held \ {e.button}
  <2>1. e.button \in Button
    BY <1>2, <1>7, EventForms DEF DeliverButton
  <2>2. /\ button_state' = Changed(button_state)
        /\ guest' = [guest EXCEPT !.mask = Changed(button_state), !.down = Changed(guest.down)]
        /\ UNCHANGED <<last_pos, synced>>
    BY <1>7 DEF DeliverButton
  <2>3. Changed(button_state) \subseteq Button
    BY <1>4, <2>1
  <2>4. guest' \in Guest /\ MasksAgree'
    BY <1>4, <2>2, <2>3 DEF MasksAgree
  <2> QED  BY <1>3, <1>4, <1>7, <2>2, <2>3, <2>4 DEF DeliverButton, TypeOK
<1>8. CASE DeliverScroll
  <2>1. Head(actions).button \notin Button
    BY <1>2, <1>8, EventForms, ButtonAssumption DEF DeliverScroll
  <2>2. button_state' = button_state
    BY <1>4, <1>8, <2>1 DEF DeliverScroll
  <2>3. guest' = [guest EXCEPT !.mask = button_state] /\ UNCHANGED <<last_pos, synced>>
    BY <1>8, <2>2 DEF DeliverScroll
  <2>4. guest' \in Guest /\ MasksAgree'
    BY <1>4, <2>2, <2>3 DEF MasksAgree
  <2> QED  BY <1>3, <1>4, <1>8, <2>2, <2>3, <2>4 DEF DeliverScroll, TypeOK
<1>9. CASE DeliverKey
  <2>1. MasksAgree' /\ UNCHANGED <<last_pos, button_state, guest, synced>>
    BY <1>9 DEF DeliverKey, MasksAgree
  <2> QED  BY <1>3, <1>4, <1>9, <2>1 DEF DeliverKey, TypeOK
<1> QED  BY <1>1, <1>6, <1>7, <1>8, <1>9

(* The invariant holds in every reachable state.                           *)
THEOREM Invariance == Spec => []Inv
<1>1. ASSUME Inv, [Next]_vars
      PROVE  Inv'
  <2>1. CASE UNCHANGED vars
    BY <1>1, <2>1 DEF vars, Inv, TypeOK, MasksAgree
  <2> QED  BY <1>1, <2>1, UiNext, DrainNext, DeliverNext DEF Next, GlibStep
<1> QED  BY InvInit, <1>1, PTL DEF Spec

(* Every component of the pump's state keeps its type; what is kept of a   *)
(* turn of the wheel is always less than a notch.                          *)
THEOREM TypeCorrect == Spec => []TypeOK
<1>1. Inv => TypeOK
  BY DEF Inv
<1> QED  BY Invariance, <1>1, PTL

(* Neither motion nor the wheel tells the guest other buttons than those it*)
(* was told are down.                                                      *)
THEOREM MaskCorrect == Spec => []MaskIsButtonsDown
<1>1. Inv => MaskIsButtonsDown
  BY DEF Inv, MasksAgree, MaskIsButtonsDown
<1> QED  BY Invariance, <1>1, PTL

----------------------------------------------------------------------------
(* The refinement.                                                         *)

(* What is on its way, as the mapping has it.                              *)
OnItsWay == actions \o MotionTo(pending_motion) \o queue

(* The head of the second sequence may as well end the first.              *)
LEMMA JoinHead ==
  ASSUME NEW S, NEW s \in Seq(S), NEW q \in Seq(S), q # <<>>
  PROVE  s \o q = (s \o <<Head(q)>>) \o Tail(q)
<1>1. <<Head(q)>> \in Seq(S) /\ Tail(q) \in Seq(S) /\ q = <<Head(q)>> \o Tail(q)
  BY HeadThenTail
<1>2. (s \o <<Head(q)>>) \o Tail(q) = s \o (<<Head(q)>> \o Tail(q))
  BY <1>1, ConcatAssociative
<1> QED  BY <1>1, <1>2

(* The parts of what is on its way.                                        *)
LEMMA Parts ==
  ASSUME Inv
  PROVE  /\ actions \in Seq(Event) /\ queue \in Seq(Event)
         /\ MotionTo(pending_motion) \in Seq(Event)
         /\ actions \o MotionTo(pending_motion) \in Seq(Event)
         /\ OnItsWay \in Seq(Event)
<1>1. actions \in Seq(Event) /\ queue \in Seq(Event)
  <2>1. Event \ {Shutdown} \subseteq Event
    OBVIOUS
  <2> QED  BY <2>1, SeqMonotonic DEF Inv, TypeOK
<1>2. MotionTo(pending_motion) \in Seq(Event)
  BY MotionToIsSequence DEF Inv, TypeOK
<1>3. actions \o MotionTo(pending_motion) \in Seq(Event)
  BY <1>1, <1>2, ConcatProperties
<1> QED  BY <1>1, <1>2, <1>3, ConcatProperties DEF OnItsWay

(* The UI thread sends, or changes nothing of the link.                    *)
LEMMA UiImplements ==
  ASSUME Inv, UiStep
  PROVE  \/ \E e \in Event : OnItsWay' = Append(OnItsWay, e)
         \/ OnItsWay' = OnItsWay
<1>1. ASSUME NEW e \in Event, UNCHANGED <<actions, pending_motion>>, queue' = Append(queue, e)
      PROVE  OnItsWay' = Append(OnItsWay, e)
  BY <1>1, Parts, AppendToConcat DEF OnItsWay
<1>2. CASE Stop
  BY <1>1, <1>2, EventsOfHandlers DEF Stop, drained
<1>3. CASE SendInput
  <2>1. Head(sending) \in Event
    BY <1>3, HeadTailProperties DEF SendInput, Inv, TypeOK
  <2> QED  BY <1>1, <1>3, <2>1 DEF SendInput, drained
<1>4. ASSUME NEW events, Handle(events)
      PROVE  OnItsWay' = OnItsWay
  BY <1>4 DEF Handle, drained, OnItsWay
<1> QED
  BY <1>2, <1>3, <1>4
  DEF UiStep, PointerMoves, PressButton, ReleaseButton, TurnWheel, CapsLockChanges, SendCtrlAltDel

(* The motion `m' is left out, with the motion `h' right behind it.        *)
LeavesOut(s, m, h, t) ==
  /\ Len(m) = 1 /\ m[1] \in Motions
  /\ Len(h) = 1 /\ h[1] \in Motions
  /\ OnItsWay = (s \o m) \o (h \o t)
  /\ OnItsWay' = s \o (h \o t)

(* Draining an event but a shutdown moves it up, and may drop the motion   *)
(* right before it.                                                        *)
LEMMA DrainLeavesOut ==
  ASSUME Inv, DrainMotion \/ DrainOther \/ DrainEmpty
  PROVE  \/ OnItsWay' = OnItsWay
         \/ \E s, m, h, t \in Seq(Event) : LeavesOut(s, m, h, t)
<1> DEFINE a == actions
           m == MotionTo(pending_motion)
           h == Head(queue)
           t == Tail(queue)
<1>0. /\ a \in Seq(Event) /\ m \in Seq(Event) /\ a \o m \in Seq(Event)
      /\ queue \in Seq(Event)
  BY Parts
<1>1. ASSUME queue # <<>>
      PROVE  /\ h \in Event /\ t \in Seq(Event) /\ <<h>> \in Seq(Event)
             /\ queue = <<h>> \o t
             /\ OnItsWay = ((a \o m) \o <<h>>) \o t
  <2>1. h \in Event /\ t \in Seq(Event) /\ queue = <<h>> \o t
    BY <1>0, <1>1, HeadThenTail
  <2>2. <<h>> \in Seq(Event)
    BY <2>1
  <2>3. (a \o m) \o queue = ((a \o m) \o <<h>>) \o t
    BY <1>0, <1>1, JoinHead
  <2> QED  BY <2>1, <2>2, <2>3 DEF OnItsWay
<1>2. CASE DrainMotion
  <2>1. /\ queue # <<>> /\ h.type = "motion"
        /\ pending_motion' = h.at /\ queue' = t /\ actions' = a
    BY <1>2 DEF DrainMotion, Receives
  <2>2. h = Motion(h.at) /\ h.at \in Place
    BY <1>1, <2>1, EventForms
  <2>3. MotionTo(h.at) = <<h>>
    BY <2>2 DEF MotionTo
  <2>4. OnItsWay' = (a \o <<h>>) \o t
    BY <2>1, <2>3 DEF OnItsWay
  <2>5. CASE pending_motion = None
    <3>1. m = <<>>
      BY <2>5, PlaceAssumption DEF MotionTo
    <3>2. a \o m = a
      BY <1>0, <3>1, ConcatEmptySeq
    <3> QED  BY <1>1, <2>1, <2>4, <3>2
  <2>6. CASE pending_motion # None
    <3> DEFINE hs == <<h>>
    <3>1. pending_motion \in Place
      BY <2>6 DEF Inv, TypeOK
    <3>2. Len(m) = 1 /\ m[1] \in Motions
      BY <3>1 DEF MotionTo, Motions
    <3>3. hs \in Seq(Event) /\ Len(hs) = 1 /\ hs[1] \in Motions
      BY <1>1, <2>1, <2>2 DEF Motions
    <3>4. t \in Seq(Event) /\ queue = hs \o t /\ OnItsWay = (a \o m) \o (hs \o t)
      BY <1>1, <2>1 DEF OnItsWay
    <3>5. OnItsWay' = (a \o hs) \o t
      BY <2>4
    <3> HIDE DEF hs, m, h, t, a
    <3>6. a \in Seq(Event) /\ m \in Seq(Event) /\ (a \o hs) \o t = a \o (hs \o t)
      <4>1. a \in Seq(Event) /\ m \in Seq(Event)
        BY <1>0
      <4>2. hs \in Seq(Event) /\ t \in Seq(Event)
        BY <3>3, <3>4
      <4>3. (a \o hs) \o t = a \o (hs \o t)
        BY ONLY <4>1, <4>2, EventsAssociate
      <4> QED  BY <4>1, <4>3
    <3>7. LeavesOut(a, m, hs, t)
      BY <3>2, <3>3, <3>4, <3>5, <3>6 DEF LeavesOut
    <3> QED  BY <3>3, <3>4, <3>6, <3>7
  <2> QED  BY <2>5, <2>6
<1>3. CASE DrainOther
  <2>1. /\ queue # <<>> /\ pending_motion' = None /\ queue' = t
        /\ actions' = (a \o m) \o <<h>>
    BY <1>3 DEF DrainOther, Receives
  <2>2. MotionTo(None) = <<>>
    BY PlaceAssumption DEF MotionTo
  <2>3. (a \o m) \o <<h>> \in Seq(Event)
    BY <1>0, <1>1, <2>1, ConcatProperties
  <2>4. ((a \o m) \o <<h>>) \o <<>> = (a \o m) \o <<h>>
    BY <2>3, ConcatEmptySeq
  <2>5. OnItsWay' = (((a \o m) \o <<h>>) \o <<>>) \o t
    BY <2>1, <2>2 DEF OnItsWay
  <2> QED  BY <1>1, <2>1, <2>4, <2>5
<1>4. CASE DrainEmpty
  <2>1. queue = <<>> /\ queue' = <<>> /\ pending_motion' = None /\ actions' = a \o m
    BY <1>4 DEF DrainEmpty
  <2>2. MotionTo(None) = <<>>
    BY PlaceAssumption DEF MotionTo
  <2>3. (a \o m) \o <<>> = a \o m
    BY <1>0, ConcatEmptySeq
  <2>4. OnItsWay' = ((a \o m) \o <<>>) \o <<>>
    BY <2>1, <2>2 DEF OnItsWay
  <2>5. OnItsWay = (a \o m) \o <<>>
    BY <2>1 DEF OnItsWay
  <2> QED  BY <2>3, <2>4, <2>5
<1> QED  BY <1>2, <1>3, <1>4

(* A step of draining drops a superseded motion, or nothing.               *)
LEMMA DrainImplements ==
  ASSUME Inv, DrainMotion \/ DrainOther \/ DrainEmpty
  PROVE  \/ OnItsWay' = OnItsWay
         \/ \E i \in DOMAIN OnItsWay :
              /\ {i, i + 1} \subseteq DOMAIN OnItsWay
              /\ {OnItsWay[i], OnItsWay[i + 1]} \subseteq Motions
              /\ OnItsWay' = RemoveAt(OnItsWay, i)
<1>1. ASSUME NEW s \in Seq(Event), NEW m \in Seq(Event),
             NEW h \in Seq(Event), NEW t \in Seq(Event), LeavesOut(s, m, h, t)
      PROVE  \E i \in DOMAIN OnItsWay :
               /\ {i, i + 1} \subseteq DOMAIN OnItsWay
               /\ {OnItsWay[i], OnItsWay[i + 1]} \subseteq Motions
               /\ OnItsWay' = RemoveAt(OnItsWay, i)
  <2>1. FirstOfTwoGoes(s, m, h, t)
    BY <1>1, RemoveFirstOfTwo DEF LeavesOut
  <2> DEFINE i == Len(s \o m)
  <2>2. /\ {i, i + 1} \subseteq DOMAIN OnItsWay
        /\ OnItsWay[i] = m[1] /\ OnItsWay[i + 1] = h[1]
        /\ RemoveAt(OnItsWay, i) = OnItsWay'
    BY <1>1, <2>1 DEF FirstOfTwoGoes, LeavesOut
  <2> HIDE DEF i
  <2> QED  BY <1>1, <2>2 DEF LeavesOut
<1> QED  BY <1>1, DrainLeavesOut

(* Every step of the pump is one of the link, or none.                     *)
LEMMA LinkStep ==
  ASSUME Inv, [Next]_vars
  PROVE  [Link!Next]_(Link!vars)
<1>0. /\ inputs_channel \in BOOLEAN
      /\ OnItsWay = actions \o MotionTo(pending_motion) \o queue
      /\ OnItsWay' = actions' \o MotionTo(pending_motion)' \o queue'
  BY DEF Inv, TypeOK, OnItsWay
<1>1. CASE UNCHANGED vars
  BY <1>1 DEF vars, Link!vars
<1>2. CASE UiStep
  <2>1. UNCHANGED <<told, inputs_channel, pump>>
    BY <1>2
    DEF UiStep, PointerMoves, PressButton, ReleaseButton, TurnWheel, CapsLockChanges,
        SendCtrlAltDel, Handle, Stop, SendInput, session, effect
  <2>2. CASE OnItsWay' = OnItsWay
    BY <1>0, <2>1, <2>2 DEF Link!vars
  <2>3. ASSUME NEW e \in Event, OnItsWay' = Append(OnItsWay, e)
        PROVE  Link!Next
    <3>1. Link!Send(e)
      BY <1>0, <2>1, <2>3 DEF Link!Send
    <3> QED  BY <3>1 DEF Link!Next
  <2> QED  BY <1>2, <2>2, <2>3, UiImplements
<1>3. CASE ChannelNew
  <2>1. Link!Listen
    BY <1>3 DEF ChannelNew, drained, effect, Link!Listen
  <2> QED  BY <2>1 DEF Link!Next
<1>4. CASE MouseModeNotify \/ Tick
  <2>1. UNCHANGED <<actions, pending_motion, queue, told, inputs_channel>>
    BY <1>4 DEF MouseModeNotify, Tick, drained, session, effect
  <2>2. pump' = "gone" <=> pump = "gone"
    BY <1>4 DEF MouseModeNotify, Tick
  <2> QED  BY <2>1, <2>2 DEF Link!vars
<1>5. CASE DrainMotion \/ DrainOther \/ DrainEmpty
  <2>1. /\ UNCHANGED <<told, inputs_channel>>
        /\ pump' = "gone" <=> pump = "gone"
    BY <1>5 DEF DrainMotion, DrainOther, DrainEmpty, Receives, session, effect
  <2>2. CASE OnItsWay' = OnItsWay
    BY <1>0, <2>1, <2>2 DEF Link!vars
  <2>3. ASSUME NEW i \in DOMAIN OnItsWay,
               {i, i + 1} \subseteq DOMAIN OnItsWay,
               {OnItsWay[i], OnItsWay[i + 1]} \subseteq Motions,
               OnItsWay' = RemoveAt(OnItsWay, i)
        PROVE  Link!Next
    <3>1. (pump = "gone")' = (pump = "gone")
      BY <2>1
    <3>2. Link!Supersede(i)
      BY <1>0, <2>1, <2>3, <3>1, SameRemoveAt DEF Link!Supersede
    <3> QED  BY <1>0, <2>3, <3>2 DEF Link!Next
  <2> QED  BY <1>5, <2>2, <2>3, DrainImplements
<1>6. CASE DrainShutdown
  <2>1. /\ queue # <<>> /\ Head(queue).type = "shutdown" /\ pump' = "gone"
        /\ actions' = <<>> /\ queue' = <<>> /\ pending_motion' = None
        /\ UNCHANGED <<told, inputs_channel>>
    BY <1>6 DEF DrainShutdown, Receives, session, effect
  <2>2. Head(queue) = Shutdown
    BY <2>1, Parts, HeadTailProperties, EventForms
  <2>3. OnItsWay' = <<>>
    <3>1. MotionTo(None) = <<>>
      BY PlaceAssumption DEF MotionTo
    <3>2. <<>> \o <<>> = <<>>
      BY ConcatEmptySeq, EmptySeq
    <3> QED  BY <2>1, <3>1, <3>2 DEF OnItsWay
  <2>4. \E i \in DOMAIN OnItsWay : OnItsWay[i] = Shutdown
    <3> DEFINE s == actions \o MotionTo(pending_motion)
    <3>1. s \in Seq(Event) /\ queue \in Seq(Event) /\ OnItsWay = s \o queue
      BY Parts DEF OnItsWay
    <3> HIDE DEF s
    <3>2. Len(s) \in Nat /\ Len(queue) \in Nat \ {0}
      BY <2>1, <3>1, EmptySeq
    <3>3. /\ OnItsWay \in Seq(Event) /\ Len(OnItsWay) = Len(s) + Len(queue)
          /\ \A i \in 1 .. Len(s) + Len(queue) : OnItsWay[i] =
               IF i <= Len(s) THEN s[i] ELSE queue[i - Len(s)]
      BY <3>1, ConcatProperties
    <3>4. Len(s) + 1 \in DOMAIN OnItsWay /\ OnItsWay[Len(s) + 1] = queue[1]
      BY <3>2, <3>3
    <3>5. queue[1] = Head(queue)
      BY <3>1, <3>2
    <3> QED  BY <2>2, <3>4, <3>5
  <2>5. Link!Close
    BY <1>0, <2>1, <2>3, <2>4 DEF Link!Close
  <2> QED  BY <2>5 DEF Link!Next
<1>7. ASSUME NEW type, Delivers(type)
      PROVE  Link!Next
  <2>1. /\ pump = "delivering" /\ inputs_channel /\ actions # <<>>
        /\ told' = Head(actions) /\ actions' = Tail(actions)
        /\ UNCHANGED <<queue, pump, pending_motion, inputs_channel>>
    BY <1>7 DEF Delivers, session
  <2>2. Head(actions) # Shutdown
    BY <2>1, HeadTailProperties DEF Inv, TypeOK
  <2> DEFINE m == MotionTo(pending_motion)
  <2>3. /\ Tail(actions) \in Seq(Event)
        /\ actions \o m # <<>> /\ Head(actions \o m) = Head(actions)
        /\ Tail(actions \o m) = Tail(actions) \o m
    BY <2>1, Parts, HeadOfConcat, HeadTailProperties
  <2>4. /\ OnItsWay # <<>> /\ Head(OnItsWay) = Head(actions)
        /\ Tail(OnItsWay) = (Tail(actions) \o m) \o queue
    BY <2>3, Parts, HeadOfConcat DEF OnItsWay
  <2>5. OnItsWay' = Tail(OnItsWay)
    BY <2>1, <2>4 DEF OnItsWay
  <2>6. Link!Tell
    BY <1>0, <2>1, <2>2, <2>4, <2>5 DEF Link!Tell
  <2> QED  BY <2>6 DEF Link!Next
<1>8. CASE TickEnds
  <2>1. /\ actions = <<>> \/ ~inputs_channel
        /\ actions' = <<>> /\ pump = "delivering" /\ pump' = "idle"
        /\ UNCHANGED <<queue, pending_motion, told, inputs_channel>>
    BY <1>8 DEF TickEnds, session, effect
  <2>2. CASE actions = <<>>
    BY <2>1, <2>2 DEF Link!vars
  <2>3. CASE actions # <<>>
    <3> DEFINE n == Len(actions)
               rest == MotionTo(pending_motion) \o queue
    <3>1. /\ rest \in Seq(Event)
          /\ OnItsWay = actions \o rest
      <4>1. /\ rest \in Seq(Event)
            /\ (actions \o MotionTo(pending_motion)) \o queue = actions \o rest
        BY Parts, EventsAssociate
      <4> QED  BY <4>1 DEF OnItsWay
    <3>2. OnItsWay' = rest
      <4>1. <<>> \o MotionTo(pending_motion) = MotionTo(pending_motion)
        BY Parts, ConcatEmptySeq
      <4> QED  BY <2>1, <4>1 DEF OnItsWay
    <3> HIDE DEF rest
    <3>3. SubSeq(OnItsWay, n + 1, Len(OnItsWay)) = rest
      BY <3>1, Parts, DropFirstPart
    <3>4. n \in DOMAIN OnItsWay
      <4>1. n \in Nat \ {0} /\ Len(rest) \in Nat
        BY <2>3, <3>1, Parts, EmptySeq
      <4>2. OnItsWay \in Seq(Event) /\ Len(OnItsWay) = n + Len(rest)
        BY <3>1, Parts, ConcatProperties
      <4> QED  BY <4>1, <4>2
    <3>5. Link!Lose
      BY <1>0, <2>1, <2>3, <3>2, <3>3, <3>4 DEF Link!Lose
    <3> QED  BY <3>5 DEF Link!Next
  <2> QED  BY <2>2, <2>3
<1> QED
  BY <1>1, <1>2, <1>3, <1>4, <1>5, <1>6, <1>7, <1>8
  DEF Next, GlibStep, DeliverMotion, DeliverButton, DeliverScroll, DeliverKey

(* The pump of build_session implements InputLink: it keeps the order of   *)
(* what it is sent, and leaves out no motion but one right before another. *)
THEOREM ImplementsLink == Spec => PumpIsLink
<1>1. Init => Link!Init
  <2> SUFFICES ASSUME Init
               PROVE  Link!Init
    OBVIOUS
  <2>1. MotionTo(None) = <<>>
    BY PlaceAssumption DEF MotionTo
  <2>2. <<>> \o <<>> = <<>>
    BY ConcatEmptySeq, EmptySeq
  <2> QED  BY <2>1, <2>2 DEF Init, Link!Init
<1>2. Inv /\ [Next]_vars => [Link!Next]_(Link!vars)
  BY LinkStep
<1> QED  BY Invariance, <1>1, <1>2, PTL DEF Spec, PumpIsLink, Link!Spec

----------------------------------------------------------------------------
(* Clicks.                                                                 *)

(* The presses made over the picture.                                      *)
Presses == {ButtonEvent(b, TRUE, p) : b \in Button, p \in Place}

(* Each press is preceded by the motion to where it was made, if it is     *)
(* preceded by anything.                                                   *)
AimedRight(s) ==
  \A i \in DOMAIN s : s[i] \in Presses /\ i # 1 => s[i - 1] = Motion(s[i].aim)

(* All that the handlers have still to bring to the guest.                 *)
Coming == OnItsWay \o sending

(* The guest's pointer is at the last position, once it has been given an  *)
(* absolute one; and where the next press was made.                        *)
PointerIsKnown == synced => inputs_channel /\ last_pos \in Place /\ guest.at = last_pos

NextPressLands ==
  synced /\ pump # "gone" /\ Coming # <<>> /\ Head(Coming) \in Presses
    => guest.at = Head(Coming).aim

ClickInv == Inv /\ PointerIsKnown /\ AimedRight(Coming) /\ NextPressLands

(* The facts on sequences, of events, as the steps below use them.         *)
Regroups(s, t, u) ==
  s \o t \in Seq(Event) /\ t \o u \in Seq(Event) /\ (s \o t) \o u = s \o (t \o u)

(* Three sequences are one, whichever two are joined first.                *)
LEMMA Regroup ==
  ASSUME NEW s \in Seq(Event), NEW t \in Seq(Event), NEW u \in Seq(Event)
  PROVE  Regroups(s, t, u)
<1>1. s \o t \in Seq(Event) /\ t \o u \in Seq(Event)
  BY ConcatProperties
<1>2. (s \o t) \o u = s \o (t \o u)
  BY ConcatAssociative
<1> QED  BY <1>1, <1>2 DEF Regroups

BeginsLike(s, t) ==
  s \o t # <<>> /\ Head(s \o t) = Head(s) /\ Tail(s \o t) = Tail(s) \o t

(* Two sequences begin as the first of them does.                          *)
LEMMA BeginLike ==
  ASSUME NEW s \in Seq(Event), NEW t \in Seq(Event), s # <<>>
  PROVE  BeginsLike(s, t)
BY HeadOfConcat DEF BeginsLike

(* The same of a part.                                                     *)
LEMMA PartsAimedRight ==
  ASSUME NEW s \in Seq(Event), NEW t \in Seq(Event), AimedRight(s \o t)
  PROVE  AimedRight(s) /\ AimedRight(t)
<1>1. /\ Len(s) \in Nat /\ Len(t) \in Nat
      /\ DOMAIN s = 1 .. Len(s) /\ DOMAIN t = 1 .. Len(t)
  OBVIOUS
<1>2. /\ s \o t \in Seq(Event) /\ Len(s \o t) = Len(s) + Len(t)
      /\ \A i \in 1 .. Len(s) + Len(t) : (s \o t)[i] =
           IF i <= Len(s) THEN s[i] ELSE t[i - Len(s)]
  BY ConcatProperties
<1> DEFINE w == s \o t
<1>3. DOMAIN w = 1 .. Len(s) + Len(t)
  BY <1>2
<1>4. \A i \in DOMAIN w : w[i] \in Presses /\ i # 1 => w[i - 1] = Motion(w[i].aim)
  BY DEF AimedRight
<1>5. \A i \in 1 .. Len(s) + Len(t) : w[i] = IF i <= Len(s) THEN s[i] ELSE t[i - Len(s)]
  BY <1>2
<1> HIDE DEF w
<1>6. ASSUME NEW i \in DOMAIN s, s[i] \in Presses, i # 1
      PROVE  s[i - 1] = Motion(s[i].aim)
  <2>1. i \in DOMAIN w /\ i - 1 \in 1 .. Len(s) + Len(t) /\ w[i] = s[i] /\ w[i - 1] = s[i - 1]
    BY <1>1, <1>3, <1>5, <1>6
  <2> QED  BY <1>4, <1>6, <2>1
<1>7. ASSUME NEW i \in DOMAIN t, t[i] \in Presses, i # 1
      PROVE  t[i - 1] = Motion(t[i].aim)
  <2> DEFINE k == Len(s) + i
  <2>1. /\ k \in DOMAIN w /\ k # 1 /\ k - 1 \in 1 .. Len(s) + Len(t)
        /\ w[k] = t[i] /\ w[k - 1] = t[i - 1]
    BY <1>1, <1>3, <1>5, <1>7
  <2> HIDE DEF k
  <2> QED  BY <1>4, <1>7, <2>1
<1> QED  BY <1>6, <1>7 DEF AimedRight

(* ... and of two parts, when the second does not begin with a press.      *)
LEMMA JoinAimedRight ==
  ASSUME NEW s \in Seq(Event), NEW t \in Seq(Event), AimedRight(s), AimedRight(t),
         t = <<>> \/ Head(t) \notin Presses
  PROVE  AimedRight(s \o t)
<1>1. /\ Len(s) \in Nat /\ Len(t) \in Nat
      /\ DOMAIN s = 1 .. Len(s) /\ DOMAIN t = 1 .. Len(t)
  OBVIOUS
<1>2. /\ s \o t \in Seq(Event) /\ Len(s \o t) = Len(s) + Len(t)
      /\ \A i \in 1 .. Len(s) + Len(t) : (s \o t)[i] =
           IF i <= Len(s) THEN s[i] ELSE t[i - Len(s)]
  BY ConcatProperties
<1> DEFINE w == s \o t
<1>3. DOMAIN w = 1 .. Len(s) + Len(t)
  BY <1>2
<1>4. \A i \in 1 .. Len(s) + Len(t) : w[i] = IF i <= Len(s) THEN s[i] ELSE t[i - Len(s)]
  BY <1>2
<1>5. Len(t) # 0 => t[1] \notin Presses
  BY <1>1
<1> HIDE DEF w
<1>6. ASSUME NEW i \in DOMAIN w, w[i] \in Presses, i # 1
      PROVE  w[i - 1] = Motion(w[i].aim)
  <2>1. CASE i <= Len(s)
    <3>1. i \in DOMAIN s /\ w[i] = s[i] /\ w[i - 1] = s[i - 1]
      BY <1>1, <1>3, <1>4, <1>6, <2>1
    <3> QED  BY <1>6, <3>1 DEF AimedRight
  <2>2. CASE i > Len(s)
    <3> DEFINE k == i - Len(s)
    <3>1. k \in DOMAIN t /\ w[i] = t[k]
      BY <1>1, <1>3, <1>4, <2>2
    <3>2. k # 1
      BY <1>1, <1>5, <1>6, <3>1
    <3>3. w[i - 1] = t[k - 1]
      BY <1>1, <1>3, <1>4, <2>2, <3>2
    <3> HIDE DEF k
    <3> QED  BY <1>6, <3>1, <3>2, <3>3 DEF AimedRight
  <2> QED  BY <1>1, <1>3, <2>1, <2>2
<1>7. AimedRight(w)
  BY <1>6 DEF AimedRight
<1> QED  BY <1>7 DEF w

(* What is not a press over the picture.                                   *)
LEMMA PressForms ==
  /\ \A e \in Presses : /\ e \in Event /\ e.type = "button" /\ e.aim \in Place
                        /\ \E b \in Button : e = ButtonEvent(b, TRUE, e.aim)
  /\ \A e \in Motions : e \in Event /\ e \notin Presses
  /\ Motions \subseteq Event
<1>1. ASSUME NEW e \in Presses
      PROVE  /\ e \in Event /\ e.type = "button" /\ e.aim \in Place
             /\ \E b \in Button : e = ButtonEvent(b, TRUE, e.aim)
  <2>1. PICK b \in Button, p \in Place : e = ButtonEvent(b, TRUE, p)
    BY DEF Presses, ButtonEvent
  <2>2. e.type = "button" /\ e.aim = p
    BY <2>1 DEF ButtonEvent
  <2> QED  BY <2>1, <2>2, EventsOfHandlers
<1>2. ASSUME NEW e \in Motions
      PROVE  e \in Event /\ e.type = "motion"
  BY DEF Motions, Motion, Event
<1> QED  BY <1>1, <1>2

(* A press that comes second comes after the motion to it.                 *)
LEMMA MotionBeforePress ==
  ASSUME NEW w \in Seq(Event), AimedRight(w), w # <<>>,
         Tail(w) # <<>>, Head(Tail(w)) \in Presses
  PROVE  Head(w) = Motion(Head(Tail(w)).aim)
<1>1. /\ Tail(w) \in Seq(Event) /\ Len(Tail(w)) = Len(w) - 1
      /\ \A i \in 1 .. Len(w) - 1 : Tail(w)[i] = w[i + 1]
  BY HeadTailProperties
<1>2. Len(w) \in Nat /\ Len(Tail(w)) # 0 /\ DOMAIN w = 1 .. Len(w)
  BY <1>1, EmptySeq
<1>3. 2 \in DOMAIN w /\ 2 # 1 /\ w[2] = Tail(w)[1] /\ 2 - 1 = 1
  BY <1>1, <1>2
<1>4. Head(w) = w[1] /\ Head(Tail(w)) = Tail(w)[1]
  BY <1>1, <1>2
<1>5. w[2] \in Presses
  BY <1>3, <1>4
<1>6. w[2 - 1] = Motion(w[2].aim)
  BY <1>3, <1>5 DEF AimedRight
<1> QED  BY <1>3, <1>4, <1>6

(* What is sent last does not change what comes first.                     *)
LEMMA NextPressStays ==
  ASSUME ClickInv, NEW t \in Seq(Event), t = <<>> \/ Head(t) \notin Presses,
         AimedRight(t), Coming' = Coming \o t,
         UNCHANGED <<synced, pump, guest>>
  PROVE  AimedRight(Coming') /\ NextPressLands'
<1>1. Coming \in Seq(Event)
  BY Parts, ConcatProperties DEF ClickInv, Inv, TypeOK, Coming
<1>2. AimedRight(Coming')
  BY <1>1, JoinAimedRight DEF ClickInv
<1>3. CASE Coming = <<>>
  <2>1. Coming' = t
    BY <1>3, ConcatEmptySeq
  <2> QED  BY <1>2, <2>1 DEF NextPressLands
<1>4. CASE Coming # <<>>
  <2>1. Head(Coming') = Head(Coming)
    BY <1>1, <1>4, HeadOfConcat
  <2> QED  BY <1>2, <1>4, <2>1 DEF ClickInv, NextPressLands
<1> QED  BY <1>3, <1>4

(* What the handlers send is aimed right.                                  *)
LEMMA HandlersAimRight ==
  /\ AimedRight(<<>>)
  /\ \A e \in Event : AimedRight(<<e>>)
  /\ \A p \in Place, b \in Button : AimedRight(<<Motion(p), ButtonEvent(b, TRUE, p)>>)
  /\ \A s \in Seq(Event) : (\A i \in DOMAIN s : s[i] \notin Presses) => AimedRight(s)
<1>1. \A p \in Place, b \in Button : AimedRight(<<Motion(p), ButtonEvent(b, TRUE, p)>>)
  <2> SUFFICES ASSUME NEW p \in Place, NEW b \in Button
               PROVE  AimedRight(<<Motion(p), ButtonEvent(b, TRUE, p)>>)
    OBVIOUS
  <2> DEFINE s == <<Motion(p), ButtonEvent(b, TRUE, p)>>
  <2>1. DOMAIN s = {1, 2} /\ s[1] = Motion(p) /\ s[2].aim = p
    BY DEF ButtonEvent
  <2> HIDE DEF s
  <2>2. AimedRight(s)
    BY <2>1 DEF AimedRight
  <2> QED  BY <2>2 DEF s
<1>2. \A e \in Event : AimedRight(<<e>>)
  BY DEF AimedRight
<1>3. AimedRight(<<>>)
  BY DEF AimedRight
<1> QED  BY <1>1, <1>2, <1>3 DEF AimedRight

(* A part without presses.                                                 *)
NoPresses(s) == \A i \in DOMAIN s : s[i] \notin Presses

(* What holds no press is aimed right.                                     *)
LEMMA NoPressesFit ==
  ASSUME NEW s \in Seq(Event), NoPresses(s)
  PROVE  AimedRight(s) /\ (s = <<>> \/ Head(s) \notin Presses)
<1>1. s # <<>> => 1 \in DOMAIN s /\ Head(s) = s[1]
  BY EmptySeq
<1> QED  BY <1>1 DEF NoPresses, AimedRight

(* Two sequences without a press make one without.                         *)
LEMMA NoPressesJoin ==
  ASSUME NEW s \in Seq(Event), NEW t \in Seq(Event), NoPresses(s), NoPresses(t)
  PROVE  NoPresses(s \o t)
<1>1. /\ s \o t \in Seq(Event) /\ Len(s \o t) = Len(s) + Len(t)
      /\ \A i \in 1 .. Len(s) + Len(t) : (s \o t)[i] =
           IF i <= Len(s) THEN s[i] ELSE t[i - Len(s)]
  BY ConcatProperties
<1>2. Len(s) \in Nat /\ Len(t) \in Nat
  OBVIOUS
<1>3. ASSUME NEW i \in DOMAIN (s \o t)
      PROVE  (s \o t)[i] \notin Presses
  <2>1. i \in 1 .. Len(s) + Len(t)
    BY <1>1
  <2>2. CASE i <= Len(s)
    BY <1>1, <1>2, <2>1, <2>2 DEF NoPresses
  <2>3. CASE ~(i <= Len(s))
    <3>1. i - Len(s) \in DOMAIN t /\ (s \o t)[i] = t[i - Len(s)]
      BY <1>1, <1>2, <2>1, <2>3
    <3> QED  BY <3>1 DEF NoPresses
  <2> QED  BY <2>2, <2>3
<1> QED  BY <1>3 DEF NoPresses

(* The events that are no press.                                           *)
LEMMA NoPressForms ==
  /\ \A p \in Place \union {Outside, None} : NoPresses(MotionTo(p))
  /\ \A b \in {Up, Down} : Scroll(b) \notin Presses
  /\ \A k \in Key, d \in BOOLEAN : KeyEvent(k, d) \notin Presses
  /\ \A b \in Button, p \in Place \union {Outside} : ButtonEvent(b, FALSE, p) \notin Presses
  /\ \A b \in Button : ButtonEvent(b, TRUE, Outside) \notin Presses
  /\ Shutdown \notin Presses
<1>1. \A e \in Presses : e.type = "button" /\ e.aim \in Place /\ e.pressed = TRUE
  BY DEF Presses, ButtonEvent
<1>2. ASSUME NEW p \in Place \union {Outside, None}
      PROVE  NoPresses(MotionTo(p))
  <2>1. CASE p \in Place
    <3>1. DOMAIN <<Motion(p)>> = {1} /\ <<Motion(p)>>[1] = Motion(p)
      OBVIOUS
    <3>2. Motion(p).type = "motion"
      BY DEF Motion
    <3> QED  BY <1>1, <2>1, <3>1, <3>2 DEF NoPresses, MotionTo
  <2>2. CASE p \notin Place
    BY <2>2 DEF NoPresses, MotionTo
  <2> QED  BY <2>1, <2>2
<1>3. \A b \in {Up, Down} : Scroll(b).type = "scroll"
  BY DEF Scroll
<1>4. \A k \in Key, d \in BOOLEAN : KeyEvent(k, d).type = "key"
  BY DEF KeyEvent
<1>5. \A b \in Button, p \in Place \union {Outside} :
         ButtonEvent(b, FALSE, p).pressed = FALSE
  BY DEF ButtonEvent
<1>6. \A b \in Button : ButtonEvent(b, TRUE, Outside).aim = Outside
  BY DEF ButtonEvent
<1>7. Shutdown.type = "shutdown"
  BY DEF Shutdown
<1> QED  BY <1>1, <1>2, <1>3, <1>4, <1>5, <1>6, <1>7, PlaceAssumption

(* Two events in a row.                                                    *)
LEMMA AppendToOne ==
  ASSUME NEW S, NEW d \in S, NEW e \in S
  PROVE  Append(<<d>>, e) = <<d, e>>
<1>1. /\ <<d>> \in Seq(S) /\ Len(<<d>>) = 1
      /\ <<d, e>> \in Seq(S) /\ Len(<<d, e>>) = 2
  OBVIOUS
<1>2. /\ Append(<<d>>, e) \in Seq(S) /\ Len(Append(<<d>>, e)) = 2
      /\ \A i \in 1 .. 1 : Append(<<d>>, e)[i] = <<d>>[i]
      /\ Append(<<d>>, e)[2] = e
  BY <1>1, AppendProperties
<1>3. \A i \in 1 .. 2 : Append(<<d>>, e)[i] = <<d, e>>[i]
  BY <1>2
<1> QED  BY <1>1, <1>2, <1>3, SeqEqual

(* A handler begins to send.                                               *)
LEMMA HandleAims ==
  ASSUME ClickInv, NEW events \in Seq(Event), Handle(events), AimedRight(events),
         events = <<>> \/ Head(events) \notin Presses
  PROVE  AimedRight(Coming') /\ NextPressLands'
<1>1. sending = <<>> /\ sending' = events /\ UNCHANGED <<OnItsWay, synced, pump, guest>>
  BY DEF Handle, OnItsWay, drained, effect
<1>2. OnItsWay \in Seq(Event)
  BY Parts DEF ClickInv
<1>3. OnItsWay \o <<>> = OnItsWay
  BY <1>2, ConcatEmptySeq
<1>4. Coming' = Coming \o events
  BY <1>1, <1>3 DEF Coming
<1> QED  BY <1>1, <1>4, NextPressStays

(* The handlers of the UI aim right.                                       *)
LEMMA UiAims ==
  ASSUME ClickInv, UiStep
  PROVE  AimedRight(Coming') /\ NextPressLands'
<1>0. /\ pointer \in Place \union {Outside}
      /\ scroll_remainder \in (1 - Notch) .. (Notch - 1)
      /\ MotionTo(pointer) \in Seq(Event) /\ NoPresses(MotionTo(pointer))
      /\ sending \in Seq(Event) /\ queue \in Seq(Event) /\ OnItsWay \in Seq(Event)
  BY MotionToIsSequence, NoPressForms, Parts DEF ClickInv, Inv, TypeOK
<1>1. ASSUME NEW events \in Seq(Event), Handle(events), NoPresses(events)
      PROVE  AimedRight(Coming') /\ NextPressLands'
  BY <1>1, NoPressesFit, HandleAims
<1>2. ASSUME NEW p \in Place \union {Outside}, PointerMoves(p)
      PROVE  AimedRight(Coming') /\ NextPressLands'
  <2>1. MotionTo(p) \in Seq(Event) /\ NoPresses(MotionTo(p))
    BY MotionToIsSequence, NoPressForms
  <2> QED  BY <1>1, <1>2, <2>1 DEF PointerMoves
<1>3. ASSUME NEW b \in Button, PressButton(b)
      PROVE  AimedRight(Coming') /\ NextPressLands'
  <2> DEFINE e == ButtonEvent(b, TRUE, pointer)
             events == Append(MotionTo(pointer), e)
  <2>1. Handle(events) /\ e \in Event
    BY <1>0, <1>3, EventsOfHandlers DEF PressButton
  <2>2. CASE pointer \in Place
    <3> DEFINE m == Motion(pointer)
    <3>0. MotionTo(pointer) = <<m>> /\ m \in Event
      BY <2>2, EventsOfHandlers DEF MotionTo
    <3> HIDE DEF m, e
    <3>1. events = <<m, e>>
      BY <2>1, <3>0, AppendToOne
    <3> HIDE DEF events
    <3>2. events \in Seq(Event) /\ Head(events) = Motion(pointer)
      BY <2>1, <3>0, <3>1 DEF m
    <3>3. Motion(pointer) \notin Presses
      BY <2>2, PressForms DEF Motions
    <3>4. AimedRight(events)
      BY <2>2, <3>1, HandlersAimRight DEF m, e
    <3> QED  BY <2>1, <3>2, <3>3, <3>4, HandleAims
  <2>3. CASE pointer \notin Place
    <3>0. MotionTo(pointer) = <<>> /\ e \notin Presses
      BY <1>0, <2>3, NoPressForms DEF MotionTo
    <3> HIDE DEF e
    <3>1. events = <<e>> /\ e \notin Presses
      BY <3>0
    <3>2. events \in Seq(Event) /\ Head(events) = e
      BY <2>1, <3>1
    <3>3. AimedRight(events)
      BY <2>1, <3>1, HandlersAimRight
    <3> HIDE DEF events
    <3> QED  BY <2>1, <3>1, <3>2, <3>3, HandleAims
  <2> QED  BY <2>2, <2>3
<1>4. ASSUME NEW b \in Button, ReleaseButton(b)
      PROVE  AimedRight(Coming') /\ NextPressLands'
  <2> DEFINE e == ButtonEvent(b, FALSE, pointer)
  <2>1. Handle(<<e>>) /\ e \in Event /\ e \notin Presses
    BY <1>0, <1>4, EventsOfHandlers, NoPressForms DEF ReleaseButton
  <2> HIDE DEF e
  <2>2. <<e>> \in Seq(Event) /\ NoPresses(<<e>>)
    BY <2>1 DEF NoPresses
  <2> QED  BY <1>1, <2>1, <2>2
<1>5. ASSUME NEW d \in Turn, TurnWheel(d)
      PROVE  AimedRight(Coming') /\ NextPressLands'
  <2> DEFINE total == scroll_remainder + d
             clicks == Magnitude(Trunc(total))
             sent == IF clicks < MaxNotches THEN clicks ELSE MaxNotches
             wheel == IF Trunc(total) > 0 THEN Up ELSE Down
             turns == [i \in 1 .. sent |-> Scroll(wheel)]
             events == MotionTo(pointer) \o turns
  <2>1. total \in Int
    BY <1>0, WheelAssumption
  <2>2. clicks \in Nat
    BY <2>1, TruncProperties
  <2>3. sent \in Nat /\ Scroll(wheel) \in Event /\ Scroll(wheel) \notin Presses
    BY <2>2, WheelAssumption, EventsOfHandlers, NoPressForms
  <2>4. Handle(events)
    BY <1>5 DEF TurnWheel
  <2>5. /\ turns \in [1 .. sent -> Event]
        /\ \A i \in DOMAIN turns : turns[i] = Scroll(wheel)
    BY <2>3
  <2> HIDE DEF turns, sent, wheel
  <2>6. turns \in Seq(Event) /\ NoPresses(turns)
    BY <2>3, <2>5, FunctionIsSequence DEF NoPresses
  <2>7. events \in Seq(Event) /\ NoPresses(events)
    BY <1>0, <2>6, ConcatProperties, NoPressesJoin
  <2> HIDE DEF events
  <2> QED  BY <1>1, <2>4, <2>7
<1>6. CASE CapsLockChanges
  <2> DEFINE e == KeyEvent(CapsLock, TRUE)
             f == KeyEvent(CapsLock, FALSE)
  <2>1. e \in Event /\ f \in Event /\ e \notin Presses /\ f \notin Presses
    BY KeyAssumption, EventsOfHandlers, NoPressForms
  <2>2. Handle(<<e, f>>)
    BY <1>6 DEF CapsLockChanges
  <2> HIDE DEF e, f
  <2>3. <<e, f>> \in Seq(Event) /\ NoPresses(<<e, f>>)
    <3>1. <<e, f>> \in Seq(Event) /\ DOMAIN <<e, f>> = {1, 2}
      BY <2>1
    <3> QED  BY <2>1, <3>1 DEF NoPresses
  <2> QED  BY <1>1, <2>2, <2>3
<1>7. CASE SendCtrlAltDel
  <2> DEFINE downs == [i \in DOMAIN Combo |-> KeyEvent(Combo[i], TRUE)]
             ups == [i \in DOMAIN Combo |-> KeyEvent(Reverse(Combo)[i], FALSE)]
  <2>1. /\ Len(Combo) \in Nat /\ DOMAIN Combo = 1 .. Len(Combo)
        /\ \A i \in 1 .. Len(Combo) : Combo[i] \in Key /\ Reverse(Combo)[i] \in Key
    BY KeyAssumption DEF Reverse
  <2>2. /\ downs \in [1 .. Len(Combo) -> Event] /\ ups \in [1 .. Len(Combo) -> Event]
        /\ \A i \in 1 .. Len(Combo) : downs[i] \notin Presses /\ ups[i] \notin Presses
    BY <2>1, EventsOfHandlers, NoPressForms
  <2>3. Handle(downs \o ups)
    BY <1>7 DEF SendCtrlAltDel
  <2> HIDE DEF downs, ups
  <2>4. /\ downs \in Seq(Event) /\ ups \in Seq(Event)
        /\ NoPresses(downs) /\ NoPresses(ups)
    BY <2>1, <2>2, FunctionIsSequence DEF NoPresses
  <2>5. downs \o ups \in Seq(Event) /\ NoPresses(downs \o ups)
    BY <2>4, ConcatProperties, NoPressesJoin
  <2> QED  BY <1>1, <2>3, <2>5
<1>8. CASE Stop
  <2>1. sending = <<>> /\ UNCHANGED <<sending, synced, pump, guest>>
        /\ UNCHANGED <<actions, pending_motion>> /\ queue' = Append(queue, Shutdown)
    BY <1>8 DEF Stop, drained, effect
  <2>2. OnItsWay' = Append(OnItsWay, Shutdown)
    BY <2>1, EventsOfHandlers, Parts, AppendToConcat DEF OnItsWay, ClickInv
  <2>3. <<Shutdown>> \in Seq(Event) /\ NoPresses(<<Shutdown>>)
    BY EventsOfHandlers, NoPressForms DEF NoPresses
  <2>4. OnItsWay' = OnItsWay \o <<Shutdown>>
    BY <1>0, <2>2, <2>3, EventsOfHandlers, AppendIsConcat
  <2>5. OnItsWay \o <<>> = OnItsWay /\ OnItsWay' \o <<>> = OnItsWay'
    <3>1. OnItsWay' \in Seq(Event)
      BY <1>0, <2>2, EventsOfHandlers, AppendProperties
    <3> QED  BY <1>0, <3>1, ConcatEmptySeq
  <2>6. Coming' = Coming \o <<Shutdown>>
    BY <2>1, <2>4, <2>5 DEF Coming
  <2> QED  BY <2>1, <2>3, <2>6, NoPressesFit, NextPressStays
<1>9. CASE SendInput
  <2>1. sending # <<>> /\ sending' = Tail(sending) /\ UNCHANGED <<synced, pump, guest>>
        /\ UNCHANGED <<actions, pending_motion>> /\ queue' = Append(queue, Head(sending))
    BY <1>9 DEF SendInput, drained, effect
  <2> DEFINE h == Head(sending)
             t == Tail(sending)
  <2>2. h \in Event /\ t \in Seq(Event) /\ sending = <<h>> \o t
    BY <1>0, <2>1, HeadThenTail
  <2>3. OnItsWay' = Append(OnItsWay, h)
    BY <2>1, <2>2, Parts, AppendToConcat DEF OnItsWay, ClickInv
  <2> HIDE DEF h, t
  <2>4. <<h>> \in Seq(Event)
    BY <2>2
  <2>5. OnItsWay' = OnItsWay \o <<h>>
    BY <1>0, <2>2, <2>3, AppendIsConcat
  <2>6. (OnItsWay \o <<h>>) \o t = OnItsWay \o (<<h>> \o t)
    BY <1>0, <2>2, <2>4, ConcatAssociative
  <2>7. sending' = t
    BY <2>1 DEF t
  <2>8. Coming' = Coming
    BY <2>2, <2>5, <2>6, <2>7 DEF Coming
  <2> QED  BY <2>1, <2>8 DEF ClickInv, NextPressLands
<1> QED  BY <1>2, <1>3, <1>4, <1>5, <1>6, <1>7, <1>8, <1>9 DEF UiStep

(* An effect, or a drain, never changes where what is coming aims.         *)
LEMMA DrainAims ==
  ASSUME ClickInv, DrainMotion \/ DrainOther \/ DrainEmpty
  PROVE  AimedRight(Coming') /\ NextPressLands'
<1>1. /\ UNCHANGED <<sending, synced, guest>> /\ pump # "gone"
      /\ sending \in Seq(Event)
  BY DEF DrainMotion, DrainOther, DrainEmpty, Receives, ui, effect, ClickInv, Inv, TypeOK
<1>2. CASE OnItsWay' = OnItsWay
  <2>1. Coming' = Coming
    BY <1>1, <1>2 DEF Coming
  <2> QED  BY <1>1, <2>1 DEF ClickInv, NextPressLands
<1>3. ASSUME NEW s \in Seq(Event), NEW m \in Seq(Event),
             NEW h \in Seq(Event), NEW t \in Seq(Event), LeavesOut(s, m, h, t)
      PROVE  AimedRight(Coming') /\ NextPressLands'
  <2> DEFINE sm == s \o m
             ht == h \o t
             r == ht \o sending
  <2>1. sm \in Seq(Event) /\ ht \in Seq(Event) /\ sending \in Seq(Event)
    BY <1>1, ConcatProperties
  <2>2. r \in Seq(Event) /\ (sm \o ht) \o sending = sm \o r /\ (s \o ht) \o sending = s \o r
    <3> HIDE DEF sm, ht
    <3>1. Regroups(sm, ht, sending) /\ Regroups(s, ht, sending)
      BY <2>1, Regroup
    <3> QED  BY <3>1 DEF Regroups
  <2>3. h # <<>> /\ h \o t # <<>> /\ r # <<>> /\ Head(r) = Head(h)
    <3>1. h # <<>> /\ h \o t # <<>> /\ Head(h \o t) = Head(h)
      BY <1>3, HeadOfConcat DEF LeavesOut
    <3>2. r # <<>> /\ Head(r) = Head(h \o t)
      BY <2>1, <3>1, HeadOfConcat
    <3> QED  BY <3>1, <3>2
  <2>4. Head(h) \notin Presses
    <3>1. Head(h) = h[1]
      BY <2>3
    <3> QED  BY <1>3, <3>1, PressForms DEF LeavesOut
  <2>5. Coming = (s \o m) \o r /\ Coming' = s \o r
    BY <1>1, <1>3, <2>2 DEF Coming, LeavesOut
  <2> HIDE DEF sm, ht, r
  <2>6. AimedRight(sm) /\ AimedRight(r)
    <3>1. AimedRight(sm \o r)
      BY <2>5 DEF ClickInv, sm
    <3> QED  BY <2>1, <2>2, <3>1, PartsAimedRight
  <2>7. AimedRight(s)
    BY <2>6, PartsAimedRight DEF sm
  <2>8. AimedRight(Coming')
    BY <2>2, <2>3, <2>4, <2>5, <2>6, <2>7, JoinAimedRight
  <2>9. CASE s = <<>>
    <3>1. Coming' = r
      BY <2>2, <2>5, <2>9, ConcatEmptySeq
    <3> QED  BY <2>3, <2>4, <2>8, <3>1 DEF NextPressLands
  <2>10. CASE s # <<>>
    <3>1. Coming' # <<>> /\ Head(Coming') = Head(s)
      BY <2>2, <2>5, <2>10, HeadOfConcat
    <3>2. sm # <<>> /\ Head(sm) = Head(s)
      BY <2>10, HeadOfConcat DEF sm
    <3>3. Coming # <<>> /\ Head(Coming) = Head(s)
      <4>1. BeginsLike(sm, r) /\ Coming = sm \o r
        BY <2>1, <2>2, <2>5, <3>2, BeginLike DEF sm
      <4> QED  BY <3>2, <4>1 DEF BeginsLike
    <3> QED  BY <1>1, <2>8, <3>1, <3>3 DEF ClickInv, NextPressLands
  <2> QED  BY <2>9, <2>10
<1> QED  BY <1>2, <1>3, DrainLeavesOut DEF ClickInv

(* The first of what is coming is put into effect.                         *)
LEMMA DeliversFirst ==
  ASSUME Inv, NEW type, Delivers(type)
  PROVE  /\ Coming \in Seq(Event) /\ Coming # <<>>
         /\ Head(Coming) = Head(actions) /\ Head(actions) \in Event
         /\ Coming' = Tail(Coming)
<1>1. /\ actions # <<>> /\ actions' = Tail(actions)
      /\ UNCHANGED <<queue, pending_motion, sending>>
  BY DEF Delivers, ui
<1> DEFINE m == MotionTo(pending_motion)
<1>2. /\ actions \in Seq(Event) /\ queue \in Seq(Event) /\ m \in Seq(Event)
      /\ sending \in Seq(Event) /\ actions \o m \in Seq(Event) /\ OnItsWay \in Seq(Event)
  BY Parts DEF Inv, TypeOK
<1>3. /\ actions \o m # <<>> /\ Head(actions \o m) = Head(actions)
      /\ Tail(actions \o m) = Tail(actions) \o m
  BY <1>1, <1>2, HeadOfConcat
<1>4. /\ OnItsWay # <<>> /\ Head(OnItsWay) = Head(actions)
      /\ Tail(OnItsWay) = (Tail(actions) \o m) \o queue
  <2> DEFINE am == actions \o m
  <2>1. OnItsWay = am \o queue /\ am \in Seq(Event) /\ am # <<>>
    BY <1>2, <1>3 DEF OnItsWay
  <2>2. Head(am) = Head(actions) /\ Tail(am) = Tail(actions) \o m
    BY <1>3
  <2> HIDE DEF am, m
  <2>3. BeginsLike(am, queue)
    BY <1>2, <2>1, BeginLike
  <2> QED  BY <2>1, <2>2, <2>3 DEF BeginsLike
<1>5. OnItsWay' = Tail(OnItsWay)
  BY <1>1, <1>4 DEF OnItsWay
<1>6. /\ Coming # <<>> /\ Head(Coming) = Head(actions)
      /\ Tail(Coming) = Tail(OnItsWay) \o sending
  <2>1. /\ OnItsWay \o sending # <<>>
        /\ Head(OnItsWay \o sending) = Head(OnItsWay)
        /\ Tail(OnItsWay \o sending) = Tail(OnItsWay) \o sending
    BY <1>2, <1>4, HeadOfConcat
  <2> QED  BY <1>4, <2>1 DEF Coming
<1>7. Coming' = Tail(Coming)
  BY <1>1, <1>5, <1>6 DEF Coming
<1>8. Head(actions) \in Event /\ Coming \in Seq(Event)
  BY <1>1, <1>2, HeadTailProperties, ConcatProperties DEF Coming
<1> QED  BY <1>6, <1>7, <1>8

(* What is left when the first event has gone is aimed right.              *)
LEMMA TailAimedRight ==
  ASSUME NEW w \in Seq(Event), w # <<>>, AimedRight(w)
  PROVE  Tail(w) \in Seq(Event) /\ AimedRight(Tail(w))
<1>1. Head(w) \in Event /\ Tail(w) \in Seq(Event) /\ w = <<Head(w)>> \o Tail(w)
  BY HeadThenTail
<1>2. <<Head(w)>> \in Seq(Event)
  BY <1>1
<1> QED  BY <1>1, <1>2, PartsAimedRight

(* The deliveries of a tick aim right.                                     *)
LEMMA DeliverAims ==
  ASSUME ClickInv, DeliverMotion \/ DeliverButton \/ DeliverScroll \/ DeliverKey
  PROVE  PointerIsKnown' /\ AimedRight(Coming') /\ NextPressLands'
<1>1. PICK type : Delivers(type)
  BY DEF DeliverMotion, DeliverButton, DeliverScroll, DeliverKey
<1>2. /\ Coming \in Seq(Event) /\ Coming # <<>>
      /\ Head(Coming) = Head(actions) /\ Head(actions) \in Event
      /\ Coming' = Tail(Coming)
  BY <1>1, DeliversFirst DEF ClickInv
<1>3. inputs_channel /\ inputs_channel'
  BY <1>1 DEF Delivers, session
<1>4. AimedRight(Coming')
  BY <1>2, TailAimedRight DEF ClickInv
<1>5. ASSUME Coming' # <<>>, Head(Coming') \in Presses
      PROVE  Head(actions) = Motion(Head(Coming').aim)
  BY <1>2, <1>5, MotionBeforePress DEF ClickInv
<1>6. CASE DeliverMotion
  <2> DEFINE p == Head(actions).at
  <2>1. Head(actions).type = "motion" /\ last_pos' = p /\ p \in Place
    BY <1>2, <1>6, EventForms DEF DeliverMotion, Delivers
  <2>2. guest.at \in Int /\ p \in Int /\ (last_pos \in Place => last_pos \in Int)
        /\ None \notin Place
        /\ guest \in [at: Int, mask: SUBSET (Button \union {Up, Down}), down: SUBSET Button]
    BY <2>1, PlaceAssumption DEF ClickInv, Inv, TypeOK
  <2>3. synced' => guest'.at = p
    <3>1. CASE mouse_mode = "client"
      <4>1. MovesTo(p, TRUE)
        BY <1>6, <3>1 DEF DeliverMotion
      <4> QED  BY <2>2, <4>1 DEF MovesTo
    <3>2. CASE mouse_mode # "client" /\ last_pos = None
      <4>1. MovesTo(p, FALSE)
        BY <1>6, <3>2 DEF DeliverMotion
      <4>2. ~synced
        BY <2>2, <3>2 DEF ClickInv, PointerIsKnown
      <4> QED  BY <3>2, <4>1, <4>2 DEF MovesTo
    <3>3. CASE mouse_mode # "client" /\ last_pos # None
      <4>1. MovesTo(guest.at + p - last_pos, p # last_pos)
        BY <1>6, <3>3 DEF DeliverMotion
      <4>2. synced' = synced
            /\ guest' = IF p # last_pos
                        THEN [guest EXCEPT !.at = guest.at + p - last_pos, !.mask = button_state]
                        ELSE guest
        BY <3>3, <4>1 DEF MovesTo, ClickInv, Inv, TypeOK
      <4>3. synced => guest.at = last_pos /\ last_pos \in Int
        BY <2>2 DEF ClickInv, PointerIsKnown
      <4>4. CASE p # last_pos
        <5>1. guest'.at = guest.at + p - last_pos
          BY <2>2, <4>2, <4>4
        <5> QED  BY <2>2, <4>2, <4>3, <5>1
      <4>5. CASE p = last_pos
        BY <4>2, <4>3, <4>5
      <4> QED  BY <4>4, <4>5
    <3> QED  BY <3>1, <3>2, <3>3
  <2>4. PointerIsKnown'
    BY <1>3, <2>1, <2>3 DEF PointerIsKnown
  <2>5. ASSUME Coming' # <<>>, Head(Coming') \in Presses, synced'
        PROVE  guest'.at = Head(Coming').aim
    <3>1. Motion(Head(Coming').aim).at = Head(Coming').aim
      BY DEF Motion
    <3> QED  BY <1>5, <2>3, <2>5, <3>1
  <2> QED  BY <1>4, <2>4, <2>5 DEF NextPressLands
<1>7. CASE DeliverButton \/ DeliverScroll \/ DeliverKey
  <2>1. /\ Head(actions).type # "motion"
        /\ UNCHANGED <<last_pos, synced>>
    BY <1>7 DEF DeliverButton, DeliverScroll, DeliverKey, Delivers
  <2>2. guest'.at = guest.at
    <3>1. guest \in [at: Int, mask: SUBSET (Button \union {Up, Down}), down: SUBSET Button]
      BY DEF ClickInv, Inv, TypeOK
    <3>2. CASE DeliverButton
      BY <3>1, <3>2 DEF DeliverButton
    <3>3. CASE DeliverScroll
      BY <3>1, <3>3 DEF DeliverScroll
    <3>4. CASE DeliverKey
      BY <3>4 DEF DeliverKey
    <3> QED  BY <1>7, <3>2, <3>3, <3>4
  <2>3. PointerIsKnown'
    BY <1>3, <2>1, <2>2 DEF ClickInv, PointerIsKnown
  <2>4. ~(Coming' # <<>> /\ Head(Coming') \in Presses)
    <3>1. Motion(Head(Coming').aim).type = "motion"
      BY DEF Motion
    <3> QED  BY <1>5, <2>1, <3>1
  <2> QED  BY <1>4, <2>3, <2>4 DEF NextPressLands
<1> QED  BY <1>6, <1>7

(* What is given up for want of a channel, or at the shutdown, was not     *)
(* awaited by a guest that has been given a position, or is the last of it.*)
LEMMA LosingAims ==
  ASSUME ClickInv, TickEnds \/ DrainShutdown
  PROVE  PointerIsKnown' /\ AimedRight(Coming') /\ NextPressLands'
<1>0. /\ sending \in Seq(Event) /\ queue \in Seq(Event) /\ actions \in Seq(Event)
      /\ OnItsWay \in Seq(Event) /\ MotionTo(pending_motion) \in Seq(Event)
  BY Parts DEF ClickInv, Inv, TypeOK
<1>1. UNCHANGED <<sending, synced, inputs_channel, last_pos, guest>>
  BY DEF TickEnds, DrainShutdown, ui, session, effect
<1>2. PointerIsKnown'
  BY <1>1 DEF ClickInv, PointerIsKnown
<1>3. CASE TickEnds
  <2>1. /\ actions = <<>> \/ ~inputs_channel
        /\ actions' = <<>> /\ UNCHANGED <<queue, pending_motion>> /\ pump # "gone"
    BY <1>3 DEF TickEnds
  <2>2. CASE actions = <<>>
    <3>1. Coming' = Coming
      BY <1>1, <2>1, <2>2 DEF Coming, OnItsWay
    <3>2. AimedRight(Coming')
      BY <3>1 DEF ClickInv
    <3>3. NextPressLands'
      BY <1>1, <2>1, <3>1 DEF ClickInv, NextPressLands
    <3> QED  BY <1>2, <3>2, <3>3
  <2>3. CASE ~inputs_channel
    <3> DEFINE m == MotionTo(pending_motion)
               rest == m \o queue
               r == rest \o sending
    <3>1. rest \in Seq(Event) /\ OnItsWay = actions \o rest
      <4>1. actions \in Seq(Event) /\ m \in Seq(Event) /\ queue \in Seq(Event)
        BY <1>0
      <4> HIDE DEF m
      <4>2. rest \in Seq(Event) /\ (actions \o m) \o queue = actions \o rest
        BY <4>1, EventsAssociate
      <4> QED  BY <4>2 DEF OnItsWay, m
    <3>2. r \in Seq(Event) /\ Coming = actions \o r
      <4> HIDE DEF rest
      <4>1. actions \in Seq(Event) /\ rest \in Seq(Event) /\ sending \in Seq(Event)
        BY <1>0, <3>1
      <4>2. rest \o sending \in Seq(Event)
            /\ (actions \o rest) \o sending = actions \o (rest \o sending)
        BY <4>1, EventsAssociate
      <4> QED  BY <3>1, <4>2 DEF Coming
    <3>3. <<>> \o MotionTo(pending_motion) = MotionTo(pending_motion)
      BY <1>0, ConcatEmptySeq
    <3>4. Coming' = r
      BY <1>1, <2>1, <3>3 DEF Coming, OnItsWay
    <3> HIDE DEF m, rest, r
    <3>5. AimedRight(Coming')
      BY <1>0, <3>2, <3>4, PartsAimedRight DEF ClickInv
    <3>6. ~synced'
      BY <1>1, <2>3 DEF ClickInv, PointerIsKnown
    <3> QED  BY <1>2, <3>5, <3>6 DEF NextPressLands
  <2> QED  BY <2>1, <2>2, <2>3
<1>4. CASE DrainShutdown
  <2>1. pump' = "gone" /\ actions' = <<>> /\ queue' = <<>> /\ pending_motion' = None
    BY <1>4 DEF DrainShutdown
  <2>2. Coming' = sending
    <3>1. MotionTo(None) = <<>>
      BY PlaceAssumption DEF MotionTo
    <3>2. <<>> \o <<>> = <<>> /\ <<>> \o sending = sending
      BY <1>0, ConcatEmptySeq, EmptySeq
    <3> QED  BY <1>1, <2>1, <3>1, <3>2 DEF Coming, OnItsWay
  <2>3. AimedRight(sending)
    BY <1>0, PartsAimedRight DEF ClickInv, Coming
  <2> QED  BY <1>2, <2>1, <2>2, <2>3 DEF NextPressLands
<1> QED  BY <1>3, <1>4

(* The invariant of the clicks.                                            *)
THEOREM ClickInvariance == Spec => []ClickInv
<1>1. Init => ClickInv
  <2> SUFFICES ASSUME Init
               PROVE  ClickInv
    OBVIOUS
  <2>1. Inv
    BY InvInit
  <2>2. MotionTo(None) = <<>>
    BY PlaceAssumption DEF MotionTo
  <2>3. <<>> \o <<>> = <<>>
    BY ConcatEmptySeq, EmptySeq
  <2>4. Coming = <<>>
    BY <2>2, <2>3 DEF Init, Coming, OnItsWay
  <2> QED  BY <2>1, <2>4, HandlersAimRight DEF Init, ClickInv, PointerIsKnown, NextPressLands
<1>2. ASSUME ClickInv, [Next]_vars
      PROVE  PointerIsKnown' /\ AimedRight(Coming') /\ NextPressLands'
  <2>1. CASE UNCHANGED vars
    BY <1>2, <2>1 DEF vars, ClickInv, PointerIsKnown, NextPressLands, Coming, OnItsWay
  <2>2. CASE UiStep
    <3>1. UNCHANGED <<synced, inputs_channel, last_pos, guest>>
      BY <2>2
      DEF UiStep, PointerMoves, PressButton, ReleaseButton, TurnWheel, CapsLockChanges,
          SendCtrlAltDel, Handle, Stop, SendInput, session, effect
    <3>2. PointerIsKnown'
      BY <1>2, <3>1 DEF ClickInv, PointerIsKnown
    <3> QED  BY <1>2, <2>2, <3>2, UiAims
  <2>3. CASE ChannelNew \/ MouseModeNotify \/ Tick
    <3>1. /\ UNCHANGED <<sending, actions, pending_motion, queue, synced, last_pos, guest>>
          /\ inputs_channel => inputs_channel'
          /\ pump' = "gone" <=> pump = "gone"
      BY <2>3 DEF ChannelNew, MouseModeNotify, Tick, ui, drained, session, effect
    <3>2. Coming' = Coming
      BY <3>1 DEF Coming, OnItsWay
    <3> QED  BY <1>2, <3>1, <3>2 DEF ClickInv, PointerIsKnown, NextPressLands
  <2>4. CASE DrainMotion \/ DrainOther \/ DrainEmpty
    <3>1. UNCHANGED <<synced, inputs_channel, last_pos, guest>>
      BY <2>4 DEF DrainMotion, DrainOther, DrainEmpty, session, effect
    <3>2. PointerIsKnown'
      BY <1>2, <3>1 DEF ClickInv, PointerIsKnown
    <3> QED  BY <1>2, <2>4, <3>2, DrainAims
  <2>5. CASE DeliverMotion \/ DeliverButton \/ DeliverScroll \/ DeliverKey
    BY <1>2, <2>5, DeliverAims
  <2>6. CASE TickEnds \/ DrainShutdown
    BY <1>2, <2>6, LosingAims
  <2> QED  BY <1>2, <2>1, <2>2, <2>3, <2>4, <2>5, <2>6 DEF Next, GlibStep
<1>3. PointerIsKnown' /\ AimedRight(Coming') /\ NextPressLands'
        => (PointerIsKnown /\ AimedRight(Coming) /\ NextPressLands)'
  OBVIOUS
<1> QED  BY Invariance, <1>1, <1>2, <1>3, PTL DEF Spec, ClickInv

(* A press takes effect where it was made, for any places and any modes of *)
(* the mouse, however many motions were collapsed before it, once the guest*)
(* has been given one absolute position.                                   *)
THEOREM ClicksLand == Spec => []ClickLandsWherePointed
<1>1. ASSUME ClickInv
      PROVE  ClickLandsWherePointed
  <2> SUFFICES ASSUME pump = "delivering", inputs_channel, synced, actions # <<>>,
                      NEW p \in Place, NEW b \in Button,
                      Head(actions) = ButtonEvent(b, TRUE, p)
               PROVE  guest.at = p
    BY DEF ClickLandsWherePointed
  <2>1. /\ actions \o MotionTo(pending_motion) # <<>>
        /\ Head(actions \o MotionTo(pending_motion)) = Head(actions)
    BY <1>1, Parts, HeadOfConcat DEF ClickInv
  <2>2. OnItsWay # <<>> /\ Head(OnItsWay) = Head(actions)
    BY <1>1, <2>1, Parts, HeadOfConcat DEF ClickInv, OnItsWay
  <2>3. sending \in Seq(Event)
    BY <1>1 DEF ClickInv, Inv, TypeOK
  <2>4. Coming # <<>> /\ Head(Coming) = Head(actions)
    BY <1>1, <2>2, <2>3, Parts, HeadOfConcat DEF ClickInv, Coming
  <2>5. Head(Coming) \in Presses
    <3> DEFINE Press(c, q) == ButtonEvent(c, TRUE, q)
    <3>1. Presses = {Press(c, q) : c \in Button, q \in Place}
      BY DEF Presses
    <3>2. Head(Coming) = Press(b, p)
      BY <2>4
    <3> HIDE DEF Press
    <3> QED  BY <3>1, <3>2
  <2>6. Head(Coming).aim = p
    BY <2>4 DEF ButtonEvent
  <2> QED  BY <1>1, <2>4, <2>5, <2>6 DEF ClickInv, NextPressLands
<1> QED  BY ClickInvariance, <1>1, PTL

=============================================================================
