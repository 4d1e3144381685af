------------------------- MODULE FramePacingProofs -------------------------
(***************************************************************************)
(* No lost wakeup and no lost damage, for any number of consoles and any   *)
(* number of changes to their surfaces.                                    *)
(***************************************************************************)
EXTENDS FramePacing, SequenceTheorems, TLAPS

(* The debt set_active has still to cancel is that of the shown console.   *)
DebtOfShown == \A c \in Console : <<"debt", c>> \in stores => c = active

(* Damage is only flagged once the surface has been changed.               *)
DirtyHasDamage == \A c \in Console : dirty[c] => surface[c] # 0

Inv == TypeOK /\ DebtOfShown /\ DirtyHasDamage /\ NoLostWakeup /\ NoLostDamage

(* An image that has been sent is the last one in the channel.             *)
LEMMA LastOfAppend ==
  ASSUME NEW S, NEW s \in Seq(S), NEW e \in S
  PROVE  Append(s, e) # <<>> /\ Last(Append(s, e)) = e
BY DEF Last

(* The last image of a channel that has any is an image.                   *)
LEMMA LastIsElement ==
  ASSUME NEW S, NEW s \in Seq(S), s # <<>>
  PROVE  Last(s) \in S
BY DEF Last

(* The three forms of the producer's state, by what it is at.              *)
LEMMA ProducerForms ==
  ASSUME producer \in Producer
  PROVE  /\ producer.at \in {"idle", "loaded", "built", "taken"}
         /\ producer.console \in Console
         /\ producer.at \in {"built", "taken"} => producer.image \in Image
         /\ producer.at \in {"idle", "loaded"} => producer.image = 0
BY DEF Producer

(* The initial states satisfy the inductive invariant.                     *)
LEMMA InvInit == Init => Inv
<1> SUFFICES ASSUME Init
             PROVE  Inv
  OBVIOUS
<1>1. TypeOK
  <2>1. producer \in Producer
    BY DEF Init, Producer
  <2>2. <<>> \in Seq(Image)
    OBVIOUS
  <2>3. channel \in [Console -> Seq(Image)]
    BY <2>2 DEF Init
  <2>5. stores \in SUBSET ({"debt", "visible"} \X Console)
    BY DEF Init
  <2> QED  BY <2>1, <2>3, <2>5 DEF Init, TypeOK
<1>2. DebtOfShown /\ DirtyHasDamage
  BY DEF Init, DebtOfShown, DirtyHasDamage
<1>3. NoLostWakeup /\ NoLostDamage
  BY DEF Init, NoLostWakeup, NoLostDamage, Newest
<1> QED  BY <1>1, <1>2, <1>3 DEF Inv

(* Every step keeps the types, and the two facts on stores and damage.     *)
LEMMA TypeNext ==
  ASSUME TypeOK, DebtOfShown, DirtyHasDamage, [Next]_vars
  PROVE  TypeOK' /\ DebtOfShown' /\ DirtyHasDamage'
<1> DEFINE Goal == TypeOK /\ DebtOfShown /\ DirtyHasDamage
<1> USE DEF shared, glib, ui
<1>0. /\ producer.at \in {"idle", "loaded", "built", "taken"}
      /\ producer.console \in Console
      /\ producer.at \in {"built", "taken"} => producer.image \in Image
      /\ producer.at \in {"idle", "loaded"} => producer.image = 0
  BY ProducerForms DEF TypeOK
<1>1. ASSUME NEW c \in Console, Damage(c)
      PROVE  Goal'
  <2>1. surface[c] \in Nat
    BY <1>1 DEF Damage, TypeOK
  <2>2. surface[c] + 1 \in Nat /\ surface[c] + 1 # 0
    BY <2>1
  <2>3. surface' \in [Console -> Nat]
    BY <1>1, <2>2 DEF Damage, TypeOK
  <2>4. dirty' \in [Console -> BOOLEAN]
    BY <1>1 DEF Damage, TypeOK
  <2>5. DirtyHasDamage'
    BY <1>1, <2>2 DEF Damage, TypeOK, DirtyHasDamage
  <2> QED  BY <1>1, <2>3, <2>4, <2>5 DEF Damage, TypeOK, DebtOfShown
<1>2. ASSUME NEW c \in Console, SurfaceChanges(c)
      PROVE  Goal'
  BY <1>2 DEF SurfaceChanges, TypeOK, DebtOfShown, DirtyHasDamage
<1>3. ASSUME NEW c \in Console, TickVisible(c)
      PROVE  Goal'
  <2>1. producer' \in Producer
    BY <1>3 DEF TickVisible, Producer
  <2> QED
    BY <1>3, <2>1 DEF TickVisible, TypeOK, DebtOfShown, DirtyHasDamage
<1>4. CASE TickSkips \/ ConversionFails
  <2>1. producer' = [producer EXCEPT !.at = "idle"] /\ producer.at = "loaded"
    BY <1>4 DEF TickSkips, ConversionFails
  <2>2. producer' \in Producer
    BY <2>1 DEF TypeOK, Producer
  <2> QED
    BY <1>4, <2>2 DEF TickSkips, ConversionFails, TypeOK, DebtOfShown,
                      DirtyHasDamage
<1>5. CASE Convert
  <2>1. dirty' \in [Console -> BOOLEAN]
    BY <1>5 DEF Convert, TypeOK
  <2>2. surface[producer.console] \in Image
    <3>1. /\ surface[producer.console] \in Nat
          /\ surface[producer.console] # 0
      BY <1>0, <1>5 DEF Convert, TypeOK, DirtyHasDamage
    <3> QED  BY <3>1 DEF Image
  <2>3. producer' \in Producer
    BY <1>5, <2>2 DEF Convert, TypeOK, Producer
  <2>4. DirtyHasDamage'
    BY <1>5 DEF Convert, TypeOK, DirtyHasDamage
  <2> QED  BY <1>5, <2>1, <2>3, <2>4 DEF Convert, TypeOK, DebtOfShown
<1>6. CASE TookFrame
  <2>1. producer' \in Producer
    BY <1>6 DEF TookFrame, TypeOK, Producer
  <2>2. in_flight' \in [Console -> BOOLEAN]
    BY <1>6 DEF TookFrame, TypeOK
  <2> QED
    BY <1>6, <2>1, <2>2 DEF TookFrame, TypeOK, DebtOfShown, DirtyHasDamage
<1>7. CASE Send
  <2>1. producer' \in Producer
    BY <1>7 DEF Send, TypeOK, Producer
  <2>2. producer.image \in Image /\ channel[producer.console] \in Seq(Image)
    BY <1>0, <1>7 DEF Send, TypeOK
  <2>3. Append(channel[producer.console], producer.image) \in Seq(Image)
    BY <2>2
  <2>4. channel' \in [Console -> Seq(Image)]
    BY <1>7, <2>3 DEF Send, TypeOK
  <2> QED
    BY <1>7, <2>1, <2>4 DEF Send, TypeOK, DebtOfShown, DirtyHasDamage
<1>8. ASSUME NEW c \in Console, SetActive(c)
      PROVE  Goal'
  <2>1. stores' \in SUBSET ({"debt", "visible"} \X Console)
    BY <1>8 DEF SetActive
  <2>2. DebtOfShown'
    BY <1>8 DEF SetActive, DebtOfShown
  <2> QED  BY <1>8, <2>1, <2>2 DEF SetActive, TypeOK, DirtyHasDamage
<1>9. ASSUME NEW c \in Console, StoreDebt(c) \/ StoreVisible(c)
      PROVE  Goal'
  <2>1. stores' \in SUBSET ({"debt", "visible"} \X Console)
    BY <1>9 DEF StoreDebt, StoreVisible, TypeOK
  <2>2. in_flight' \in [Console -> BOOLEAN]
    BY <1>9 DEF StoreDebt, StoreVisible, TypeOK
  <2>3. visible' \in [Console -> BOOLEAN]
    BY <1>9 DEF StoreDebt, StoreVisible, TypeOK
  <2> QED
    BY <1>9, <2>1, <2>2, <2>3
    DEF StoreDebt, StoreVisible, TypeOK, DebtOfShown, DirtyHasDamage
<1>10. ASSUME NEW c \in Console, Pump(c)
       PROVE  Goal'
  <2>1. channel[c] \in Seq(Image) /\ channel[c] # <<>>
    BY <1>10 DEF Pump, TypeOK
  <2>2. Last(channel[c]) \in Nat
    BY <2>1, LastIsElement DEF Image
  <2>3. <<>> \in Seq(Image)
    OBVIOUS
  <2>4. frame' \in [Console -> Nat]
    BY <1>10, <2>2 DEF Pump, TypeOK
  <2>5. channel' \in [Console -> Seq(Image)]
    BY <1>10, <2>3 DEF Pump, TypeOK
  <2> QED
    BY <1>10, <2>4, <2>5 DEF Pump, TypeOK, DebtOfShown, DirtyHasDamage
<1>11. CASE OtherNotify
  BY <1>11 DEF OtherNotify, TypeOK, DebtOfShown, DirtyHasDamage
<1>12. CASE Render
  <2>1. in_flight' \in [Console -> BOOLEAN]
    BY <1>12 DEF Render, TypeOK
  <2>2. painted' \in [Console -> Nat]
    BY <1>12 DEF Render, TypeOK
  <2> QED
    BY <1>12, <2>1, <2>2 DEF Render, TypeOK, DebtOfShown, DirtyHasDamage
<1>13. CASE UNCHANGED vars
  BY <1>13 DEF vars, TypeOK, DebtOfShown, DirtyHasDamage
<1> QED
  BY <1>1, <1>2, <1>3, <1>4, <1>5, <1>6, <1>7, <1>8, <1>9, <1>10, <1>11,
     <1>12, <1>13
  DEF Next, GlibStep, TimerStep, UiStep, StoreStep

(* Every step keeps somebody on the way to clear the flag that is shown.   *)
LEMMA WakeupNext ==
  ASSUME TypeOK, DebtOfShown, NoLostWakeup, [Next]_vars
  PROVE  NoLostWakeup'
<1> USE DEF shared, glib, ui
<1>0. producer \in Producer /\ producer.console \in Console /\ active \in Console
  BY ProducerForms DEF TypeOK
<1>1. ASSUME NEW c \in Console,
             Damage(c) \/ SurfaceChanges(c) \/ TickVisible(c)
      PROVE  NoLostWakeup'
  BY <1>1 DEF Damage, SurfaceChanges, TickVisible, NoLostWakeup
<1>2. CASE TickSkips \/ ConversionFails \/ Convert
  BY <1>2 DEF TickSkips, ConversionFails, Convert, NoLostWakeup
<1>3. CASE TookFrame
  <2>1. /\ producer'.at = "taken"
        /\ producer'.console = producer.console
        /\ active' = active /\ stores' = stores
        /\ channel' = channel /\ repaint' = repaint
    BY <1>0, <1>3 DEF TookFrame, Producer
  <2>2. producer.console # active => in_flight'[active] = in_flight[active]
    BY <1>0, <1>3 DEF TookFrame, TypeOK
  <2> QED  BY <1>3, <2>1, <2>2 DEF TookFrame, NoLostWakeup
<1>4. CASE Send
  <2>1. producer.image \in Image /\ channel[producer.console] \in Seq(Image)
    BY <1>0, <1>4, ProducerForms DEF Send, TypeOK
  <2>2. channel'[producer.console]
          = Append(channel[producer.console], producer.image)
    BY <1>0, <1>4 DEF Send, TypeOK
  <2>3. channel'[producer.console] # <<>>
    BY <2>1, <2>2
  <2>4. producer.console # active => channel'[active] = channel[active]
    BY <1>0, <1>4 DEF Send, TypeOK
  <2> QED  BY <1>4, <2>3, <2>4 DEF Send, NoLostWakeup
<1>5. ASSUME NEW c \in Console, SetActive(c) \/ Pump(c)
      PROVE  NoLostWakeup'
  BY <1>5 DEF SetActive, Pump, NoLostWakeup
<1>6. ASSUME NEW c \in Console, StoreDebt(c)
      PROVE  NoLostWakeup'
  <2>1. c = active
    BY <1>6 DEF StoreDebt, DebtOfShown
  <2>2. ~in_flight'[active] /\ active' = active
    BY <1>0, <1>6, <2>1 DEF StoreDebt, TypeOK
  <2> QED  BY <2>2 DEF NoLostWakeup
<1>7. ASSUME NEW c \in Console, StoreVisible(c)
      PROVE  NoLostWakeup'
  BY <1>7 DEF StoreVisible, NoLostWakeup
<1>8. CASE OtherNotify
  BY <1>8 DEF OtherNotify, NoLostWakeup
<1>9. CASE Render
  <2>1. ~in_flight'[active] /\ active' = active
    BY <1>0, <1>9 DEF Render, TypeOK
  <2> QED  BY <2>1 DEF NoLostWakeup
<1>10. CASE UNCHANGED vars
  BY <1>10 DEF vars, NoLostWakeup
<1> QED
  BY <1>1, <1>2, <1>3, <1>4, <1>5, <1>6, <1>7, <1>8, <1>9, <1>10
  DEF Next, GlibStep, TimerStep, UiStep, StoreStep

(* Every step keeps the newest image of a surface that is not dirty.       *)
LEMMA DamageNext ==
  ASSUME TypeOK, NoLostDamage, [Next]_vars
  PROVE  NoLostDamage'
<1> USE DEF shared, glib, ui
<1>0. producer \in Producer /\ producer.console \in Console
  BY ProducerForms DEF TypeOK
<1>1. ASSUME NEW c \in Console, Damage(c)
      PROVE  NoLostDamage'
  <2>1. dirty'[c]
    BY <1>1 DEF Damage, TypeOK
  <2>2. ASSUME NEW d \in Console, d # c
        PROVE  dirty'[d] = dirty[d] /\ surface'[d] = surface[d]
    BY <1>1, <2>2 DEF Damage, TypeOK
  <2>3. \A d \in Console : Newest(d)' = Newest(d)
    BY <1>1 DEF Damage, Newest
  <2> QED  BY <2>1, <2>2, <2>3 DEF NoLostDamage
<1>2. ASSUME NEW c \in Console, SurfaceChanges(c) \/ TickVisible(c)
      PROVE  NoLostDamage'
  BY <1>2 DEF SurfaceChanges, TickVisible, NoLostDamage, Newest
<1>3. CASE TickSkips \/ ConversionFails
  <2>1. producer.at = "loaded" /\ producer'.at = "idle"
    BY <1>0, <1>3 DEF TickSkips, ConversionFails, Producer
  <2> QED
    BY <1>3, <2>1 DEF TickSkips, ConversionFails, NoLostDamage, Newest
<1>4. CASE Convert
  <2>1. /\ producer.at = "loaded" /\ producer'.at = "built"
        /\ producer'.console = producer.console
        /\ producer'.image = surface[producer.console]
    BY <1>0, <1>4 DEF Convert, Producer
  <2>2. \A d \in Console \ {producer.console} : dirty'[d] = dirty[d]
    BY <1>4 DEF Convert, TypeOK
  <2>3. surface' = surface /\ channel' = channel /\ frame' = frame
    BY <1>4 DEF Convert
  <2> QED  BY <2>1, <2>2, <2>3 DEF NoLostDamage, Newest
<1>5. CASE TookFrame
  <2>1. /\ producer.at = "built" /\ producer'.at = "taken"
        /\ producer'.console = producer.console
        /\ producer'.image = producer.image
    BY <1>0, <1>5 DEF TookFrame, Producer
  <2> QED  BY <1>5, <2>1 DEF TookFrame, NoLostDamage, Newest
<1>6. CASE Send
  <2>1. producer.image \in Image /\ channel[producer.console] \in Seq(Image)
    BY <1>0, <1>6, ProducerForms DEF Send, TypeOK
  <2>2. channel'[producer.console]
          = Append(channel[producer.console], producer.image)
    BY <1>0, <1>6 DEF Send, TypeOK
  <2>3. /\ channel'[producer.console] # <<>>
        /\ Last(channel'[producer.console]) = producer.image
    BY <2>1, <2>2, LastOfAppend
  <2>4. \A d \in Console \ {producer.console} : channel'[d] = channel[d]
    BY <1>6 DEF Send, TypeOK
  <2>5. producer.at = "taken" /\ producer'.at = "idle"
    BY <1>0, <1>6 DEF Send, Producer
  <2>6. surface' = surface /\ dirty' = dirty /\ frame' = frame
    BY <1>6 DEF Send
  <2> QED  BY <2>3, <2>4, <2>5, <2>6 DEF NoLostDamage, Newest
<1>7. ASSUME NEW c \in Console, Pump(c)
      PROVE  NoLostDamage'
  <2>1. /\ channel[c] # <<>>
        /\ channel'[c] = <<>>
        /\ frame'[c] = Last(channel[c])
    BY <1>7 DEF Pump, TypeOK
  <2>2. \A d \in Console \ {c} : channel'[d] = channel[d] /\ frame'[d] = frame[d]
    BY <1>7 DEF Pump, TypeOK
  <2>3. producer' = producer /\ surface' = surface /\ dirty' = dirty
    BY <1>7 DEF Pump
  <2> QED  BY <2>1, <2>2, <2>3 DEF NoLostDamage, Newest
<1>8. ASSUME NEW c \in Console, SetActive(c) \/ StoreDebt(c) \/ StoreVisible(c)
      PROVE  NoLostDamage'
  BY <1>8 DEF SetActive, StoreDebt, StoreVisible, NoLostDamage, Newest
<1>9. CASE OtherNotify \/ Render
  BY <1>9 DEF OtherNotify, Render, NoLostDamage, Newest
<1>10. CASE UNCHANGED vars
  BY <1>10 DEF vars, NoLostDamage, Newest
<1> QED
  BY <1>1, <1>2, <1>3, <1>4, <1>5, <1>6, <1>7, <1>8, <1>9, <1>10
  DEF Next, GlibStep, TimerStep, UiStep, StoreStep

(* The inductive invariant holds in every reachable state.                 *)
THEOREM Invariance == Spec => []Inv
<1>1. Inv /\ [Next]_vars => Inv'
  BY TypeNext, WakeupNext, DamageNext DEF Inv
<1> QED  BY InvInit, <1>1, PTL DEF Spec

(* The flags, the channels and the images keep their types.                *)
THEOREM TypeCorrect == Spec => []TypeOK
<1>1. Inv => TypeOK
  BY DEF Inv
<1> QED  BY Invariance, <1>1, PTL

(* The shown console never waits for a repaint that nobody will ask for:   *)
(* the "permanently black console" FrameBudget and the frame pump tell of. *)
THEOREM ShownConsoleIsWoken == Spec => []NoLostWakeup
<1>1. Inv => NoLostWakeup
  BY DEF Inv
<1> QED  BY Invariance, <1>1, PTL

(* A change of a surface is flagged, or in the newest image there is.      *)
THEOREM DamageReachesTheTab == Spec => []NoLostDamage
<1>1. Inv => NoLostDamage
  BY DEF Inv
<1> QED  BY Invariance, <1>1, PTL

----------------------------------------------------------------------------
(* The refinement.                                                         *)

(* The images of `c' that the UI thread has not taken yet.                 *)
Coming(c) ==
  {channel[c][i] : i \in DOMAIN channel[c]}
    \union (IF producer.console = c /\ producer.at \in {"built", "taken"}
            THEN {producer.image} ELSE {})

(* Images get to the tab, and to the screen, in the order of the surfaces  *)
(* they show: none that is still coming is older than the tab's.           *)
ImagesInOrder ==
  \A c \in Console :
    /\ painted[c] <= frame[c] /\ frame[c] <= surface[c]
    /\ \A n \in Coming(c) : frame[c] <= n /\ n <= surface[c]

(* What has been converted last is no older than what is queued.           *)
ImageIsNewest ==
  producer.at \in {"built", "taken"}
    => \A i \in DOMAIN channel[producer.console] :
         channel[producer.console][i] <= producer.image

(* The initial states satisfy the order.                                   *)
LEMMA OrderInit == Init => ImagesInOrder /\ ImageIsNewest
BY DEF Init, ImagesInOrder, ImageIsNewest, Coming

(* Every step keeps what has been converted last the newest.               *)
LEMMA NewestNext ==
  ASSUME TypeOK, ImagesInOrder, ImageIsNewest, [Next]_vars
  PROVE  ImageIsNewest'
<1> USE DEF shared, glib, ui
<1>0. producer \in Producer /\ producer.console \in Console
  BY ProducerForms DEF TypeOK
<1>1. ASSUME NEW c \in Console, TickVisible(c)
      PROVE  ImageIsNewest'
  BY <1>1 DEF TickVisible, ImageIsNewest
<1>2. CASE TickSkips \/ ConversionFails \/ Send
  <2>1. producer'.at = "idle"
    BY <1>0, <1>2 DEF TickSkips, ConversionFails, Send, Producer
  <2> QED  BY <2>1 DEF ImageIsNewest
<1>3. CASE Convert
  <2>1. /\ producer'.console = producer.console
        /\ producer'.image = surface[producer.console]
    BY <1>0, <1>3 DEF Convert, Producer
  <2>2. \A i \in DOMAIN channel[producer.console] :
          channel[producer.console][i] <= surface[producer.console]
    BY <1>0 DEF ImagesInOrder, Coming
  <2> QED  BY <1>3, <2>1, <2>2 DEF Convert, ImageIsNewest
<1>4. CASE TookFrame
  <2>1. /\ producer.at = "built"
        /\ producer'.console = producer.console
        /\ producer'.image = producer.image
    BY <1>0, <1>4 DEF TookFrame, Producer
  <2> QED  BY <1>4, <2>1 DEF TookFrame, ImageIsNewest
<1>5. ASSUME NEW c \in Console, Pump(c)
      PROVE  ImageIsNewest'
  <2>1. producer' = producer /\ channel'[producer.console] \in {<<>>, channel[producer.console]}
    BY <1>0, <1>5 DEF Pump, TypeOK
  <2> QED  BY <2>1 DEF ImageIsNewest
<1>6. ASSUME NEW c \in Console,
             \/ Damage(c) \/ SurfaceChanges(c) \/ SetActive(c)
             \/ StoreDebt(c) \/ StoreVisible(c)
      PROVE  ImageIsNewest'
  BY <1>6 DEF Damage, SurfaceChanges, SetActive, StoreDebt, StoreVisible, ImageIsNewest
<1>7. CASE OtherNotify \/ Render \/ UNCHANGED vars
  BY <1>7 DEF OtherNotify, Render, vars, ImageIsNewest
<1> QED
  BY <1>1, <1>2, <1>3, <1>4, <1>5, <1>6, <1>7
  DEF Next, GlibStep, TimerStep, UiStep, StoreStep

(* Every step keeps the order.                                             *)
LEMMA OrderNext ==
  ASSUME TypeOK, ImagesInOrder, ImageIsNewest, [Next]_vars
  PROVE  ImagesInOrder'
<1> USE DEF shared, glib, ui
<1>0. /\ producer \in Producer /\ producer.console \in Console
      /\ \A c \in Console :
           /\ surface[c] \in Nat /\ frame[c] \in Nat /\ painted[c] \in Nat
           /\ channel[c] \in Seq(Image)
  BY ProducerForms DEF TypeOK
<1>1. ASSUME NEW c \in Console, Damage(c)
      PROVE  ImagesInOrder'
  <2>1. \A d \in Console : surface'[d] \in Nat /\ surface[d] <= surface'[d]
    <3>1. surface \in [Console -> Nat] /\ surface' = [surface EXCEPT ![c] = @ + 1]
      BY <1>1 DEF Damage, TypeOK
    <3> QED  BY <3>1
  <2>2. \A d \in Console : Coming(d)' = Coming(d)
    BY <1>1 DEF Damage, Coming
  <2>3. \A d \in Console : Coming(d) \subseteq Nat
    BY <1>0, ProducerForms DEF Coming, Image
  <2> QED  BY <1>0, <1>1, <2>1, <2>2, <2>3 DEF Damage, ImagesInOrder
<1>2. ASSUME NEW c \in Console, SurfaceChanges(c) \/ TickVisible(c)
      PROVE  ImagesInOrder'
  <2>1. \A d \in Console : Coming(d)' \subseteq Coming(d)
    BY <1>2 DEF SurfaceChanges, TickVisible, Coming
  <2> QED  BY <1>2, <2>1 DEF SurfaceChanges, TickVisible, ImagesInOrder
<1>3. CASE TickSkips \/ ConversionFails
  <2>1. producer'.at = "idle"
    BY <1>0, <1>3 DEF TickSkips, ConversionFails, Producer
  <2>2. \A d \in Console : Coming(d)' \subseteq Coming(d)
    BY <1>3, <2>1 DEF TickSkips, ConversionFails, Coming
  <2> QED  BY <1>3, <2>2 DEF TickSkips, ConversionFails, ImagesInOrder
<1>4. CASE Convert
  <2>1. /\ producer'.console = producer.console
        /\ producer'.image = surface[producer.console]
    BY <1>0, <1>4 DEF Convert, Producer
  <2>2. \A d \in Console : \A n \in Coming(d)' : n \in Coming(d) \/ n = surface[d]
    BY <1>4, <2>1 DEF Convert, Coming
  <2> QED  BY <1>0, <1>4, <2>2 DEF Convert, ImagesInOrder
<1>5. CASE TookFrame
  <2>1. /\ producer.at = "built"
        /\ producer'.console = producer.console
        /\ producer'.image = producer.image
    BY <1>0, <1>5 DEF TookFrame, Producer
  <2>2. \A d \in Console : Coming(d)' \subseteq Coming(d)
    BY <1>5, <2>1 DEF TookFrame, Coming
  <2> QED  BY <1>5, <2>2 DEF TookFrame, ImagesInOrder
<1>6. CASE Send
  <2>1. producer.at = "taken" /\ producer'.at = "idle" /\ producer.image \in Image
    BY <1>0, <1>6, ProducerForms DEF Send, Producer
  <2>2. channel'[producer.console] = Append(channel[producer.console], producer.image)
    BY <1>0, <1>6 DEF Send, TypeOK
  <2>3. \A d \in Console \ {producer.console} : channel'[d] = channel[d]
    BY <1>6 DEF Send, TypeOK
  <2>4. \A i \in DOMAIN channel'[producer.console] :
          \/ channel'[producer.console][i] = producer.image
          \/ /\ i \in DOMAIN channel[producer.console]
             /\ channel'[producer.console][i] = channel[producer.console][i]
    BY <1>0, <2>1, <2>2
  <2>5. \A d \in Console : Coming(d)' \subseteq Coming(d)
    BY <2>1, <2>3, <2>4 DEF Coming
  <2> QED  BY <1>6, <2>5 DEF Send, ImagesInOrder
<1>7. ASSUME NEW c \in Console, Pump(c)
      PROVE  ImagesInOrder'
  <2>1. channel'[c] = <<>> /\ frame'[c] = Last(channel[c]) /\ channel[c] # <<>>
    BY <1>7 DEF Pump, TypeOK
  <2>2. \A d \in Console \ {c} : channel'[d] = channel[d] /\ frame'[d] = frame[d]
    BY <1>7 DEF Pump, TypeOK
  <2>3. /\ Len(channel[c]) \in DOMAIN channel[c]
        /\ frame'[c] = channel[c][Len(channel[c])]
    BY <1>0, <2>1 DEF Last
  <2>4. frame'[c] \in Coming(c) /\ frame'[c] \in Nat
    BY <1>0, <2>3 DEF Coming, Image
  <2>5. producer' = producer /\ surface' = surface /\ painted' = painted
    BY <1>7 DEF Pump
  <2>6. \A d \in Console \ {c} : Coming(d)' = Coming(d)
    BY <2>2, <2>5 DEF Coming
  <2>7. \A n \in Coming(c)' : n \in Coming(c) /\ frame'[c] <= n
    BY <2>1, <2>3, <2>5 DEF Coming, ImageIsNewest
  <2>8. painted[c] <= frame'[c] /\ frame'[c] <= surface[c]
    BY <1>0, <2>4 DEF ImagesInOrder
  <2> QED
    BY <2>2, <2>5, <2>6, <2>7, <2>8 DEF ImagesInOrder
<1>8. ASSUME NEW c \in Console, SetActive(c) \/ StoreDebt(c) \/ StoreVisible(c)
      PROVE  ImagesInOrder'
  <2>1. \A d \in Console : Coming(d)' = Coming(d)
    BY <1>8 DEF SetActive, StoreDebt, StoreVisible, Coming
  <2> QED  BY <1>8, <2>1 DEF SetActive, StoreDebt, StoreVisible, ImagesInOrder
<1>9. CASE OtherNotify \/ Render
  <2>1. \A d \in Console : Coming(d)' = Coming(d)
    BY <1>9 DEF OtherNotify, Render, Coming
  <2>2. \A d \in Console : painted'[d] \in {painted[d], frame[d]}
    BY <1>9 DEF OtherNotify, Render, TypeOK
  <2> QED  BY <1>0, <1>9, <2>1, <2>2 DEF OtherNotify, Render, ImagesInOrder
<1>10. CASE UNCHANGED vars
  BY <1>10 DEF vars, ImagesInOrder, Coming
<1> QED
  BY <1>1, <1>2, <1>3, <1>4, <1>5, <1>6, <1>7, <1>8, <1>9, <1>10
  DEF Next, GlibStep, TimerStep, UiStep, StoreStep

(* Every step is a step of the screen, or none that it sees.               *)
LEMMA ScreenStep ==
  ASSUME TypeOK, ImagesInOrder, [Next]_vars
  PROVE  [Screen!Next]_(Screen!vars)
<1> USE DEF shared, glib, ui, Screen!vars
<1>1. ASSUME NEW c \in Console, Damage(c)
      PROVE  Screen!Change(c)
  BY <1>1 DEF Damage, Screen!Change
<1>2. ASSUME NEW c \in Console, SetActive(c)
      PROVE  Screen!Show(c)
  BY <1>2 DEF SetActive, Screen!Show
<1>3. CASE Render
  <2>1. /\ painted[active] \in Nat /\ frame[active] \in Nat /\ surface[active] \in Nat
        /\ painted[active] <= frame[active] /\ frame[active] <= surface[active]
    BY DEF TypeOK, ImagesInOrder
  <2>2. frame[active] \in painted[active]..surface[active]
    BY <2>1
  <2> QED  BY <1>3, <2>2 DEF Render, Screen!Paint, Screen!Next
<1>4. ASSUME NEW c \in Console,
             \/ SurfaceChanges(c) \/ TickVisible(c) \/ Pump(c)
             \/ StoreDebt(c) \/ StoreVisible(c)
      PROVE  UNCHANGED Screen!vars
  BY <1>4 DEF SurfaceChanges, TickVisible, Pump, StoreDebt, StoreVisible
<1>5. CASE TimerStep \/ OtherNotify
  BY <1>5 DEF TimerStep, TickSkips, ConversionFails, Convert, TookFrame, Send, OtherNotify
<1>6. CASE UNCHANGED vars
  BY <1>6 DEF vars
<1> QED
  BY <1>1, <1>2, <1>3, <1>4, <1>5, <1>6
  DEF Next, GlibStep, UiStep, StoreStep, Screen!Next

(* The two threads implement ConsoleScreen: no console ever shows an older *)
(* picture than it has shown, or one its surface has not had.              *)
THEOREM ImplementsScreen == Spec => ScreenNeverGoesBack
<1>1. Init => Screen!Init
  BY DEF Init, Screen!Init
<1>2. Inv /\ ImagesInOrder /\ ImageIsNewest /\ [Next]_vars
        => ImagesInOrder' /\ ImageIsNewest'
  BY OrderNext, NewestNext DEF Inv
<1>3. Inv /\ ImagesInOrder /\ [Next]_vars => [Screen!Next]_(Screen!vars)
  BY ScreenStep DEF Inv
<1> QED  BY Invariance, OrderInit, <1>1, <1>2, <1>3, PTL DEF Spec, ScreenNeverGoesBack, Screen!Spec

=============================================================================
