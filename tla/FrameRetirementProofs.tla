----------------------- MODULE FrameRetirementProofs -----------------------
(***************************************************************************)
(* No texture of the retirement queue is destroyed in use and none leaks,  *)
(* for any number of consoles, images and repaints, as long as an image is *)
(* kept for two repaints at least.                                         *)
(***************************************************************************)
EXTENDS FrameRetirement, FiniteSetTheorems, SequenceTheorems, TLAPS

(* Only a tab has an image, and no two tabs have the same.                 *)
FramesAreTheTabs ==
  /\ \A c \in Console : c \notin open => frame[c] = 0
  /\ \A c, d \in Console : frame[c] # 0 /\ frame[c] = frame[d] => c = d

(* Images are numbered in the order in which they are delivered.           *)
Numbered ==
  /\ \A c \in Console : frame[c] <= delivered
  /\ \A i \in DOMAIN retired : retired[i][2] <= delivered

(* What is about to be drawn is the image of a tab.                        *)
SceneIsShown ==
  /\ ~painting => scene = {}
  /\ \A f \in scene : \E c \in open : frame[c] = f

(* An image of the queue the GPU may be reading was let go of after the    *)
(* last draw: its number is that of the repaint that led to it.            *)
GpuReadsRecent ==
  \A i \in DOMAIN retired :
    retired[i][2] \in gpu
      => IF painting THEN retired[i][1] + 1 >= render_seq
                     ELSE retired[i][1] >= render_seq

Inv ==
  /\ TypeOK
  /\ FramesAreTheTabs
  /\ Numbered
  /\ SceneIsShown
  /\ GpuReadsRecent
  /\ QueueInOrder
  /\ NoTextureLeaks

Entry == (0 .. MaxRender) \X Frame

(* A non-empty set of naturals has a least member.  The library states     *)
(* this with an operator parameter; here it follows from the strict subset *)
(* ordering of the intervals 1..i being well-founded.                      *)
LEMMA LeastExists ==
  ASSUME NEW T \in SUBSET Nat, T # {}
  PROVE  \E m \in T : \A k \in T : m <= k
<1> DEFINE F == {1 .. i : i \in T}
           R == StrictSubsetOrdering(Nat)
<1>1. F \in SUBSET FiniteSubsetsOf(Nat) /\ F # {}
  <2>1. ASSUME NEW i \in T
        PROVE  1 .. i \in SUBSET Nat /\ IsFiniteSet(1 .. i)
    <3>1. i \in Nat /\ i \in Int /\ 1 \in Int
      OBVIOUS
    <3>2. 1 .. i \in SUBSET Nat
      BY <3>1
    <3> QED  BY <3>1, <3>2, FS_Interval
  <2>2. PICK i \in T : TRUE
    OBVIOUS
  <2>3. 1 .. i \in F
    OBVIOUS
  <2> QED  BY <2>1, <2>3 DEF FiniteSubsetsOf
<1>2. IsWellFoundedOn(R, FiniteSubsetsOf(Nat))
  BY FS_StrictSubsetOrderingWellFounded
<1>3. PICK X \in F : \A Y \in F : ~(<<Y, X>> \in R)
  <2> HIDE DEF F, R
  <2> QED  BY <1>1, <1>2, WFMin
<1>4. PICK m \in T : X = 1 .. m
  OBVIOUS
<1>5. ASSUME NEW k \in T
      PROVE  m <= k
  <2> SUFFICES ASSUME k < m
               PROVE  FALSE
    OBVIOUS
  <2>1. 1 .. k \subseteq 1 .. m /\ 1 .. k # 1 .. m
    <3>1. m \in 1 .. m /\ m \notin 1 .. k
      OBVIOUS
    <3> QED  BY <3>1
  <2>2. <<1 .. k, X>> \in R
    BY <1>4, <2>1 DEF StrictSubsetOrdering
  <2> QED  BY <1>3, <2>2
<1> QED  BY <1>5

(* What retire_frame does to the queue, entry by entry.                    *)
LEMMA RetireEffect ==
  ASSUME retired \in Seq(Entry), render_seq \in 0 .. MaxRender,
         NEW f \in 0 .. MaxFrame, RetireFrame(f)
  PROVE  /\ retired' \in Seq(Entry)
         /\ DOMAIN retired = 1 .. Len(retired)
         /\ \A i \in DOMAIN retired : i \in DOMAIN retired' /\ retired'[i] = retired[i]
         /\ \A i \in DOMAIN retired' \ DOMAIN retired :
              f # 0 /\ i = Len(retired) + 1 /\ retired'[i] = <<render_seq, f>>
         /\ f # 0 => \E i \in DOMAIN retired' : retired'[i] = <<render_seq, f>>
<1>1. CASE f = 0
  BY <1>1 DEF RetireFrame
<1>2. CASE f # 0
  <2>1. <<render_seq, f>> \in Entry
    BY <1>2, BoundAssumption DEF Entry, Frame
  <2>2. retired' = Append(retired, <<render_seq, f>>)
    BY <1>2 DEF RetireFrame
  <2>3. /\ retired' \in Seq(Entry)
        /\ Len(retired') = Len(retired) + 1
        /\ DOMAIN retired = 1 .. Len(retired)
        /\ DOMAIN retired' = 1 .. Len(retired) + 1
        /\ \A i \in 1 .. Len(retired) : retired'[i] = retired[i]
        /\ retired'[Len(retired) + 1] = <<render_seq, f>>
    BY <2>1, <2>2
  <2>4. Len(retired) + 1 \in DOMAIN retired'
    BY <2>3
  <2> QED  BY <1>2, <2>3, <2>4
<1> QED  BY <1>1, <1>2

(* Where release_retired_frames stops, and that it stops somewhere.        *)
LEMMA FirstKeptExists ==
  ASSUME retired \in Seq(Entry), NEW seq \in Nat
  PROVE  /\ FirstKept(seq) \in 1 .. Len(retired) + 1
         /\ \A j \in 1 .. FirstKept(seq) - 1 : IsDue(retired[j], seq)
<1> DEFINE T == {i \in 1 .. Len(retired) + 1 :
                   i = Len(retired) + 1 \/ ~IsDue(retired[i], seq)}
<1>1. T \in SUBSET Nat /\ Len(retired) + 1 \in T
  OBVIOUS
<1>2. PICK m \in T : \A k \in T : m <= k
  BY <1>1, LeastExists
<1>3. ASSUME NEW j \in 1 .. m - 1
      PROVE  IsDue(retired[j], seq)
  <2>1. j \in 1 .. Len(retired) + 1 /\ ~(m <= j)
    BY <1>1, <1>2
  <2> QED  BY <1>2, <2>1
<1>4. \E i \in 1 .. Len(retired) + 1 :
        /\ i = Len(retired) + 1 \/ ~IsDue(retired[i], seq)
        /\ \A j \in 1 .. i - 1 : IsDue(retired[j], seq)
  BY <1>2, <1>3
<1> QED  BY <1>4 DEF FirstKept

(* What a repaint leaves in the queue, entry by entry.                     *)
LEMMA ReleaseEffect ==
  ASSUME retired \in Seq(Entry), render_seq \in Nat, Render
  PROVE  \E n \in 0 .. Len(retired) :
           /\ \A i \in 1 .. n : IsDue(retired[i], render_seq + 1)
           /\ atlas' = atlas \ {retired[i][2] : i \in 1 .. n}
           /\ retired' \in Seq(Entry)
           /\ DOMAIN retired = 1 .. Len(retired)
           /\ DOMAIN retired' = 1 .. Len(retired) - n
           /\ \A i \in DOMAIN retired' : retired'[i] = retired[i + n]
<1> DEFINE k == FirstKept(render_seq + 1)
<1>1. /\ k \in 1 .. Len(retired) + 1
      /\ \A j \in 1 .. k - 1 : IsDue(retired[j], render_seq + 1)
  BY FirstKeptExists
<1>2. /\ atlas' = atlas \ {retired[i][2] : i \in 1 .. k - 1}
      /\ retired' = SubSeq(retired, k, Len(retired))
  BY DEF Render
<1> HIDE DEF k
<1> DEFINE n == k - 1
<1>3. n \in 0 .. Len(retired) /\ k = n + 1
  BY <1>1
<1>4. /\ retired' \in Seq(Entry)
      /\ Len(retired') = Len(retired) - n
      /\ \A i \in 1 .. Len(retired) - n : retired'[i] = retired[i + n]
  BY <1>2, <1>3
<1>5. DOMAIN retired = 1 .. Len(retired) /\ DOMAIN retired' = 1 .. Len(retired) - n
  BY <1>4
<1>6. /\ \A i \in 1 .. n : IsDue(retired[i], render_seq + 1)
      /\ atlas' = atlas \ {retired[i][2] : i \in 1 .. n}
  BY <1>1, <1>2
<1> HIDE DEF n
<1> QED  BY <1>3, <1>4, <1>5, <1>6

(* The initial states satisfy the inductive invariant.                     *)
LEMMA InvInit == Init => Inv
<1> SUFFICES ASSUME Init
             PROVE  Inv
  OBVIOUS
<1>1. <<>> \in Seq(Entry) /\ 0 \in 0 .. MaxFrame /\ 0 \in 0 .. MaxRender
  BY BoundAssumption
<1>2. TypeOK
  BY <1>1 DEF Init, TypeOK, Entry
<1>3. FramesAreTheTabs /\ Numbered /\ SceneIsShown /\ GpuReadsRecent
  BY DEF Init, FramesAreTheTabs, Numbered, SceneIsShown, GpuReadsRecent
<1>4. QueueInOrder /\ NoTextureLeaks
  BY DEF Init, QueueInOrder, NoTextureLeaks, Retiring
<1> QED  BY <1>2, <1>3, <1>4 DEF Inv

(* A tab that lets go of its image, for a newer one or for none.           *)
LEMMA LetGoKeeps ==
  ASSUME Inv, NEW c \in Console, NEW g \in 0 .. MaxFrame,
         ~painting, c \in open,
         RetireFrame(frame[c]),
         frame' = [frame EXCEPT ![c] = g],
         delivered' \in 0 .. MaxFrame, delivered' >= delivered,
         g = 0 \/ (g > delivered /\ g = delivered'),
         open' = open \/ (open' = open \ {c} /\ g = 0),
         active' \in open' \union {None},
         UNCHANGED <<render_seq, painting, scene, atlas, gpu>>
  PROVE  Inv'
<1> USE DEF Inv
<1>0. /\ retired \in Seq(Entry)
      /\ render_seq \in 0 .. MaxRender
      /\ frame \in [Console -> 0 .. MaxFrame]
      /\ frame[c] \in 0 .. MaxFrame
      /\ delivered \in 0 .. MaxFrame
  BY DEF TypeOK, Entry
<1>1. /\ retired' \in Seq(Entry)
      /\ DOMAIN retired = 1 .. Len(retired)
      /\ \A i \in DOMAIN retired : i \in DOMAIN retired' /\ retired'[i] = retired[i]
      /\ \A i \in DOMAIN retired' \ DOMAIN retired :
           frame[c] # 0 /\ i = Len(retired) + 1 /\ retired'[i] = <<render_seq, frame[c]>>
      /\ frame[c] # 0 => \E i \in DOMAIN retired' : retired'[i] = <<render_seq, frame[c]>>
  BY <1>0, RetireEffect
<1>2. \A i \in DOMAIN retired :
        /\ retired[i] \in Entry
        /\ retired[i][1] \in 0 .. MaxRender
        /\ retired[i][2] \in 1 .. MaxFrame
        /\ retired[i][1] <= render_seq
        /\ retired[i][2] <= delivered
  <2>1. \A i \in DOMAIN retired : retired[i] \in Entry
    BY <1>0
  <2> QED  BY <2>1 DEF Entry, Frame, QueueInOrder, Numbered
<1>3. /\ frame'[c] = g
      /\ \A d \in Console : d # c => frame'[d] = frame[d]
      /\ frame' \in [Console -> 0 .. MaxFrame]
  BY <1>0
<1>4. TypeOK'
  BY <1>1, <1>3 DEF TypeOK, Entry
<1>5. FramesAreTheTabs'
  BY <1>0, <1>3 DEF FramesAreTheTabs, Numbered
<1>6. Numbered'
  <2>1. \A d \in Console : frame'[d] <= delivered'
    <3>1. \A d \in Console : frame[d] \in 0 .. MaxFrame /\ frame[d] <= delivered
      BY <1>0 DEF Numbered
    <3> QED  BY <1>0, <1>3, <3>1
  <2>2. \A i \in DOMAIN retired' : retired'[i][2] <= delivered'
    <3>1. frame[c] <= delivered
      BY DEF Numbered
    <3> QED  BY <1>0, <1>1, <1>2, <3>1
  <2> QED  BY <2>1, <2>2 DEF Numbered
<1>7. SceneIsShown'
  BY DEF SceneIsShown
<1>8. GpuReadsRecent'
  BY <1>0, <1>1, <1>2 DEF GpuReadsRecent
<1>9. QueueInOrder'
  <2>1. frame[c] # 0 => \A i \in DOMAIN retired : retired[i][2] # frame[c]
    BY DEF QueueInOrder, Retiring
  <2>2. ASSUME NEW i \in DOMAIN retired', NEW j \in DOMAIN retired', i < j
        PROVE  retired'[i][1] <= retired'[j][1] /\ retired'[i][2] # retired'[j][2]
    <3>1. CASE i \in DOMAIN retired /\ j \in DOMAIN retired
      BY <1>1, <2>2, <3>1 DEF QueueInOrder
    <3>2. CASE i \in DOMAIN retired /\ j \notin DOMAIN retired
      BY <1>1, <1>2, <2>1, <3>2
    <3>3. CASE i \notin DOMAIN retired
      <4>1. i = Len(retired) + 1
        BY <1>1, <3>3
      <4>2. j \in DOMAIN retired => j <= Len(retired)
        BY <1>0, <1>1
      <4>3. j \notin DOMAIN retired => j = Len(retired) + 1
        BY <1>1
      <4> QED  BY <1>0, <2>2, <4>1, <4>2, <4>3
    <3> QED  BY <3>1, <3>2, <3>3
  <2>3. \A i \in DOMAIN retired' : retired'[i][1] <= render_seq'
    BY <1>0, <1>1, <1>2
  <2>4. ASSUME NEW d \in open', NEW i \in DOMAIN retired'
        PROVE  frame'[d] # retired'[i][2]
    <3>1. d \in open /\ d \in Console
      BY <2>4 DEF TypeOK
    <3>2. CASE i \in DOMAIN retired
      <4>1. frame[d] # retired[i][2]
        BY <3>1, <3>2 DEF QueueInOrder, Retiring
      <4> QED  BY <1>0, <1>1, <1>2, <1>3, <3>1, <3>2, <4>1
    <3>3. CASE i \notin DOMAIN retired
      <4>1. retired'[i][2] = frame[c] /\ frame[c] # 0
        BY <1>1, <3>3
      <4>2. frame[c] <= delivered
        BY DEF Numbered
      <4> QED  BY <1>0, <1>3, <3>1, <4>1, <4>2 DEF FramesAreTheTabs
    <3> QED  BY <3>2, <3>3
  <2> QED  BY <2>2, <2>3, <2>4 DEF QueueInOrder, Retiring
<1>10. NoTextureLeaks'
  <2>1. ASSUME NEW f \in atlas
        PROVE  (\E d \in open' : frame'[d] = f) \/ \E i \in DOMAIN retired' : retired'[i][2] = f
    <3>1. f \in Frame /\ f # 0
      BY <2>1 DEF TypeOK, Frame
    <3>2. CASE \E i \in DOMAIN retired : retired[i][2] = f
      BY <1>1, <3>2
    <3>3. CASE f = frame[c]
      BY <1>1, <3>1, <3>3
    <3>4. CASE \E d \in open : d # c /\ frame[d] = f
      <4>1. PICK d \in open : d # c /\ frame[d] = f
        BY <3>4
      <4>2. d \in open' /\ d \in Console
        BY <4>1 DEF TypeOK
      <4> QED  BY <1>3, <4>1, <4>2
    <3> QED  BY <2>1, <3>2, <3>3, <3>4 DEF NoTextureLeaks, Retiring
  <2> QED  BY <2>1 DEF NoTextureLeaks, Retiring
<1> QED  BY <1>4, <1>5, <1>6, <1>7, <1>8, <1>9, <1>10

(* A repaint: what has been kept long enough is not in the draw in flight. *)
LEMMA RenderKeeps ==
  ASSUME Inv, Render
  PROVE  Inv'
<1> USE DEF Inv
<1>0. /\ retired \in Seq(Entry)
      /\ render_seq \in 0 .. MaxRender /\ render_seq \in Nat
      /\ ~painting /\ painting' = TRUE
      /\ render_seq' = render_seq + 1 /\ render_seq' \in 0 .. MaxRender
      /\ UNCHANGED <<open, active, frame, delivered, gpu>>
  BY BoundAssumption DEF TypeOK, Entry, Render
<1>1. PICK n \in 0 .. Len(retired) :
        /\ \A i \in 1 .. n : IsDue(retired[i], render_seq + 1)
        /\ atlas' = atlas \ {retired[i][2] : i \in 1 .. n}
        /\ retired' \in Seq(Entry)
        /\ DOMAIN retired = 1 .. Len(retired)
        /\ DOMAIN retired' = 1 .. Len(retired) - n
        /\ \A i \in DOMAIN retired' : retired'[i] = retired[i + n]
  BY <1>0, ReleaseEffect
<1>2. \A i \in DOMAIN retired :
        retired[i][1] \in 0 .. MaxRender /\ retired[i][1] <= render_seq
  <2>1. \A i \in DOMAIN retired : retired[i] \in Entry
    BY <1>0
  <2> QED  BY <2>1 DEF Entry, QueueInOrder
<1>3. \A i \in DOMAIN retired' : i + n \in DOMAIN retired
  BY <1>0, <1>1
<1>4. scene' \in SUBSET Frame /\ \A f \in scene' : \E c \in open : frame[c] = f
  <2>1. CASE active = None \/ frame[active] = 0
    BY <2>1 DEF Render
  <2>2. CASE active # None /\ frame[active] # 0
    <3>1. active \in open /\ active \in Console /\ scene' = {frame[active]}
      BY <2>2 DEF Render, TypeOK
    <3>2. frame[active] \in 0 .. MaxFrame
      BY <3>1 DEF TypeOK
    <3> QED  BY <2>2, <3>1, <3>2, BoundAssumption DEF Frame
  <2> QED  BY <2>1, <2>2
<1>5. TypeOK'
  BY <1>0, <1>1, <1>4 DEF TypeOK, Entry
<1>6. FramesAreTheTabs' /\ Numbered'
  BY <1>0, <1>1, <1>3 DEF FramesAreTheTabs, Numbered
<1>7. SceneIsShown'
  BY <1>0, <1>4 DEF SceneIsShown
<1>8. GpuReadsRecent'
  <2>1. ASSUME NEW i \in DOMAIN retired', retired'[i][2] \in gpu
        PROVE  retired'[i][1] + 1 >= render_seq + 1
    <3>1. i + n \in DOMAIN retired /\ retired'[i] = retired[i + n]
      BY <1>1, <1>3
    <3>2. retired[i + n][1] >= render_seq
      BY <1>0, <2>1, <3>1 DEF GpuReadsRecent
    <3> QED  BY <1>0, <1>2, <3>1, <3>2
  <2> QED  BY <1>0, <2>1 DEF GpuReadsRecent
<1>9. QueueInOrder'
  <2>1. ASSUME NEW i \in DOMAIN retired', NEW j \in DOMAIN retired', i < j
        PROVE  retired'[i][1] <= retired'[j][1] /\ retired'[i][2] # retired'[j][2]
    <3>1. /\ i + n \in DOMAIN retired /\ j + n \in DOMAIN retired
          /\ retired'[i] = retired[i + n] /\ retired'[j] = retired[j + n]
      BY <1>1, <1>3
    <3>2. i + n < j + n
      BY <1>1, <2>1
    <3> QED  BY <3>1, <3>2 DEF QueueInOrder
  <2>2. \A i \in DOMAIN retired' : retired'[i][1] <= render_seq'
    BY <1>0, <1>1, <1>2, <1>3
  <2>3. \A c \in open, i \in DOMAIN retired' : frame[c] # retired'[i][2]
    BY <1>1, <1>3 DEF QueueInOrder, Retiring
  <2> QED  BY <1>0, <2>1, <2>2, <2>3 DEF QueueInOrder, Retiring
<1>10. NoTextureLeaks'
  <2>1. ASSUME NEW f \in atlas', NEW i \in DOMAIN retired, retired[i][2] = f
        PROVE  \E j \in DOMAIN retired' : retired'[j][2] = f
    <3>1. i \notin 1 .. n
      BY <1>1, <2>1
    <3>2. i - n \in DOMAIN retired' /\ i - n + n = i
      BY <1>0, <1>1, <3>1
    <3> QED  BY <1>1, <2>1, <3>2
  <2>2. atlas' \subseteq atlas
    BY <1>1
  <2> QED  BY <1>0, <2>1, <2>2 DEF NoTextureLeaks, Retiring
<1> QED  BY <1>5, <1>6, <1>7, <1>8, <1>9, <1>10

(* Every step keeps the inductive invariant.                               *)
LEMMA InvNext == Inv /\ [Next]_vars => Inv'
<1> SUFFICES ASSUME Inv, [Next]_vars
             PROVE  Inv'
  OBVIOUS
<1> USE DEF Inv
<1>1. ASSUME NEW c \in Console, OpenTab(c)
      PROVE  Inv'
  <2>1. /\ c \notin open /\ open' = open \union {c} /\ active' = c
        /\ UNCHANGED <<frame, delivered, retired, render_seq, painting, scene,
                       atlas, gpu>>
    BY <1>1 DEF OpenTab
  <2>2. TypeOK'
    BY <2>1 DEF TypeOK
  <2>3. FramesAreTheTabs' /\ Numbered' /\ SceneIsShown' /\ GpuReadsRecent'
    BY <2>1 DEF FramesAreTheTabs, Numbered, SceneIsShown, GpuReadsRecent
  <2>4. frame[c] = 0 /\ 0 \notin Retiring
    <3>1. \A i \in DOMAIN retired : retired[i] \in (0 .. MaxRender) \X Frame
      BY DEF TypeOK
    <3> QED  BY <2>1, <3>1 DEF Retiring, Frame, FramesAreTheTabs
  <2>5. QueueInOrder'
    BY <2>1, <2>4 DEF QueueInOrder, Retiring
  <2>6. NoTextureLeaks'
    BY <2>1 DEF NoTextureLeaks, Retiring
  <2> QED  BY <2>2, <2>3, <2>5, <2>6
<1>2. ASSUME NEW c \in Console, FocusTab(c)
      PROVE  Inv'
  BY <1>2 DEF FocusTab, TypeOK, FramesAreTheTabs, Numbered, SceneIsShown,
              GpuReadsRecent, QueueInOrder, NoTextureLeaks, Retiring
<1>3. ASSUME NEW c \in Console, DeliverFrame(c)
      PROVE  Inv'
  <2>1. delivered \in 0 .. MaxFrame /\ delivered < MaxFrame
    BY <1>3 DEF DeliverFrame, TypeOK
  <2>2. delivered + 1 \in 0 .. MaxFrame /\ delivered + 1 > delivered
    BY <2>1, BoundAssumption
  <2>3. /\ ~painting /\ c \in open /\ RetireFrame(frame[c])
        /\ delivered' = delivered + 1
        /\ frame' = [frame EXCEPT ![c] = delivered + 1]
        /\ UNCHANGED <<open, active, render_seq, painting, scene, atlas, gpu>>
    BY <1>3 DEF DeliverFrame
  <2>4. active' \in open' \union {None}
    BY <2>3 DEF TypeOK
  <2>5. /\ delivered' \in 0 .. MaxFrame /\ delivered' >= delivered
        /\ delivered + 1 > delivered /\ delivered + 1 = delivered'
    BY <2>1, <2>2, <2>3
  <2> DEFINE g == delivered + 1
  <2>6. g \in 0 .. MaxFrame /\ g > delivered /\ g = delivered'
    BY <2>2, <2>5
  <2>7. frame' = [frame EXCEPT ![c] = g]
    BY <2>3
  <2> HIDE DEF g
  <2> QED  BY <2>3, <2>4, <2>5, <2>6, <2>7, LetGoKeeps
<1>4. ASSUME NEW c \in Console, CloseTab(c)
      PROVE  Inv'
  <2>1. /\ ~painting /\ c \in open /\ RetireFrame(frame[c])
        /\ open' = open \ {c}
        /\ frame' = [frame EXCEPT ![c] = 0]
        /\ UNCHANGED <<delivered, render_seq, painting, scene, atlas, gpu>>
    BY <1>4 DEF CloseTab
  <2>2. active' \in open' \union {None}
    BY <1>4, <2>1 DEF CloseTab, TypeOK
  <2>3. /\ delivered' \in 0 .. MaxFrame /\ delivered' >= delivered
        /\ 0 \in 0 .. MaxFrame
    BY <2>1, BoundAssumption DEF TypeOK
  <2> QED  BY <2>1, <2>2, <2>3, LetGoKeeps
<1>5. CASE SwitchRemote
  <2>1. /\ ~painting /\ open' = {} /\ active' = None
        /\ frame' = [c \in Console |-> 0]
        /\ atlas' = atlas \ {frame[c] : c \in open}
        /\ UNCHANGED <<delivered, retired, render_seq, painting, scene, gpu>>
    BY <1>5 DEF SwitchRemote
  <2>2. TypeOK' /\ Numbered'
    BY <2>1, BoundAssumption DEF TypeOK, Numbered
  <2>3. FramesAreTheTabs' /\ SceneIsShown' /\ GpuReadsRecent'
    BY <2>1 DEF FramesAreTheTabs, SceneIsShown, GpuReadsRecent
  <2>4. QueueInOrder'
    BY <2>1 DEF QueueInOrder, Retiring
  <2>5. NoTextureLeaks'
    BY <2>1 DEF NoTextureLeaks, Retiring
  <2> QED  BY <2>2, <2>3, <2>4, <2>5
<1>6. CASE Render
  BY <1>6, RenderKeeps
<1>7. CASE Draw
  <2>1. /\ painting /\ gpu = {} /\ ~painting' /\ gpu' = scene
        /\ painting' = FALSE
        /\ atlas' = atlas \union scene /\ scene' = {}
        /\ UNCHANGED <<open, active, frame, delivered, retired, render_seq>>
    BY <1>7 DEF Draw
  <2>2. TypeOK' /\ FramesAreTheTabs' /\ Numbered' /\ SceneIsShown'
    BY <2>1 DEF TypeOK, FramesAreTheTabs, Numbered, SceneIsShown
  <2>3. GpuReadsRecent'
    BY <2>1 DEF GpuReadsRecent, SceneIsShown, QueueInOrder, Retiring
  <2>4. QueueInOrder'
    BY <2>1 DEF QueueInOrder, Retiring
  <2>5. NoTextureLeaks'
    BY <2>1 DEF NoTextureLeaks, Retiring, SceneIsShown
  <2> QED  BY <2>2, <2>3, <2>4, <2>5
<1>8. CASE FenceSignals
  BY <1>8 DEF FenceSignals, TypeOK, FramesAreTheTabs, Numbered, SceneIsShown,
              GpuReadsRecent, QueueInOrder, NoTextureLeaks, Retiring
<1>9. CASE UNCHANGED vars
  BY <1>9 DEF vars, TypeOK, FramesAreTheTabs, Numbered, SceneIsShown,
              GpuReadsRecent, QueueInOrder, NoTextureLeaks, Retiring
<1> QED
  BY <1>1, <1>2, <1>3, <1>4, <1>5, <1>6, <1>7, <1>8, <1>9 DEF Next, TabStep

(* The inductive invariant holds in every reachable state.                 *)
THEOREM Invariance == Spec => []Inv
BY InvInit, InvNext, PTL DEF Spec

(* The state keeps the types of the fields it stands for.                  *)
THEOREM TypeCorrect == Spec => []TypeOK
<1>1. Inv => TypeOK
  BY DEF Inv
<1> QED  BY Invariance, <1>1, PTL

(* Every texture is shown or waits to be destroyed.                        *)
THEOREM TexturesDoNotLeak == Spec => []NoTextureLeaks
<1>1. Inv => NoTextureLeaks
  BY DEF Inv
<1> QED  BY Invariance, <1>1, PTL

(* The retirement queue is ordered and holds an image once.                *)
THEOREM QueueStaysInOrder == Spec => []QueueInOrder
<1>1. Inv => QueueInOrder
  BY DEF Inv
<1> QED  BY Invariance, <1>1, PTL

(* release_retired_frames destroys no texture the GPU may be reading.      *)
THEOREM ReleasedTexturesAreIdle == Spec => RetiredAreReleasedIdle
<1> DEFINE Released == \A f \in Retiring : f \notin Retiring' => f \notin gpu
<1>1. Inv /\ [Next]_vars => [Released]_vars
  <2> SUFFICES ASSUME Inv, Next, NEW f \in Retiring, f \notin Retiring'
               PROVE  f \notin gpu
    OBVIOUS
  <2> USE DEF Inv
  <2>0. retired \in Seq(Entry) /\ render_seq \in 0 .. MaxRender
    BY DEF TypeOK, Entry
  <2>1. CASE Render
    <3>1. render_seq \in Nat /\ ~painting
      BY <2>0, <2>1, BoundAssumption DEF Render
    <3>2. PICK n \in 0 .. Len(retired) :
            /\ \A i \in 1 .. n : IsDue(retired[i], render_seq + 1)
            /\ DOMAIN retired = 1 .. Len(retired)
            /\ DOMAIN retired' = 1 .. Len(retired) - n
            /\ \A i \in DOMAIN retired' : retired'[i] = retired[i + n]
      BY <2>0, <2>1, <3>1, ReleaseEffect
    <3>3. PICK i \in DOMAIN retired : retired[i][2] = f
      BY DEF Retiring
    <3>4. i \in 1 .. n
      <4> SUFFICES ASSUME i \notin 1 .. n
                   PROVE  FALSE
        OBVIOUS
      <4>1. i - n \in DOMAIN retired' /\ i - n + n = i
        BY <2>0, <3>2
      <4> QED  BY <3>2, <3>3, <4>1 DEF Retiring
    <3>5. retired[i][1] \in 0 .. MaxRender
      <4>1. retired[i] \in Entry
        BY <2>0, <3>3
      <4> QED  BY <4>1 DEF Entry
    <3>6. ~(retired[i][1] >= render_seq)
      BY <3>1, <3>2, <3>4, <3>5, KeepAssumption DEF IsDue
    <3> QED  BY <3>1, <3>3, <3>6 DEF GpuReadsRecent
  <2>2. ASSUME NEW c \in Console, DeliverFrame(c) \/ CloseTab(c)
        PROVE  f \in Retiring'
    <3>1. frame[c] \in 0 .. MaxFrame /\ RetireFrame(frame[c])
      BY <2>2 DEF DeliverFrame, CloseTab, TypeOK
    <3>2. \A i \in DOMAIN retired : i \in DOMAIN retired' /\ retired'[i] = retired[i]
      BY <2>0, <3>1, RetireEffect
    <3> QED  BY <3>2 DEF Retiring
  <2>3. CASE UNCHANGED retired
    BY <2>3 DEF Retiring
  <2> QED
    BY <2>1, <2>2, <2>3
    DEF Next, TabStep, OpenTab, FocusTab, SwitchRemote, Draw, FenceSignals
<1> QED  BY Invariance, <1>1, PTL DEF Spec, RetiredAreReleasedIdle

=============================================================================
