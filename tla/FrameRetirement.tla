-------------------------- MODULE FrameRetirement --------------------------
(***************************************************************************)
(* The textures of the console images (retire_frame,                       *)
(* release_retired_frames, and the users of drop_image of src/src/main.rs).*)
(*                                                                         *)
(* An image that has been painted has a texture, which has to be destroyed *)
(* explicitly, and not while the GPU reads it.  An image a tab lets go of  *)
(* waits in a queue until KEEP_FOR_REPAINTS repaints have begun.  The GPU  *)
(* works while the UI thread goes on: the renderer only waits for it when  *)
(* it is about to record the next draw.                                    *)
(***************************************************************************)
EXTENDS Integers, SequencesExt

CONSTANTS
  Console,           \* the consoles that can be open
  None,              \* the absence of a console
  KEEP_FOR_REPAINTS, \* the constant of release_retired_frames
  MaxFrame,          \* bound: images delivered in a behaviour
  MaxRender          \* bound: repaints in a behaviour

ASSUME NoneAssumption == None \notin Console
ASSUME KeepAssumption == KEEP_FOR_REPAINTS \in Nat \ {0, 1}
ASSUME BoundAssumption == MaxFrame \in Nat /\ MaxRender \in Nat

VARIABLES
  open,       \* the consoles that have a tab
  active,     \* the console of the shown tab
  frame,      \* ConsoleTab.frame, 0 for none; images are numbered
  delivered,  \* the number of images delivered so far
  retired,    \* IncusManager.retired_frames
  render_seq, \* IncusManager.render_seq
  painting,   \* has render built elements that have not been drawn yet?
  scene,      \* the images those elements hold
  atlas,      \* the images that have a texture
  gpu         \* the images the GPU is reading

vars == <<open, active, frame, delivered, retired, render_seq, painting,
          scene, atlas, gpu>>

Frame == 1 .. MaxFrame

TypeOK ==
  /\ open \in SUBSET Console
  /\ active \in open \union {None}
  /\ frame \in [Console -> 0 .. MaxFrame]
  /\ delivered \in 0 .. MaxFrame
  /\ retired \in Seq((0 .. MaxRender) \X Frame)
  /\ render_seq \in 0 .. MaxRender
  /\ painting \in BOOLEAN
  /\ scene \in SUBSET Frame
  /\ atlas \in SUBSET Frame
  /\ gpu \in SUBSET Frame

Init ==
  /\ open = {}
  /\ active = None
  /\ frame = [c \in Console |-> 0]
  /\ delivered = 0
  /\ retired = <<>>
  /\ render_seq = 0
  /\ painting = FALSE
  /\ scene = {}
  /\ atlas = {}
  /\ gpu = {}

----------------------------------------------------------------------------
(* Between two repaints, on the UI thread.                                 *)

(* connect_console inserts the tab, and shows it.                          *)
OpenTab(c) ==
  /\ ~painting
  /\ c \notin open
  /\ open' = open \union {c}
  /\ active' = c
  /\ UNCHANGED <<frame, delivered, retired, render_seq, painting, scene, atlas,
                 gpu>>

FocusTab(c) ==
  /\ ~painting
  /\ c \in open
  /\ active' = c
  /\ UNCHANGED <<open, frame, delivered, retired, render_seq, painting, scene,
                 atlas, gpu>>

(* retire_frame, on what a tab has let go of.                              *)
RetireFrame(f) ==
  retired' = IF f = 0 THEN retired ELSE Append(retired, <<render_seq, f>>)

(* The frame pump: the tab has a new image, and the previous one retires.  *)
DeliverFrame(c) ==
  /\ ~painting
  /\ c \in open
  /\ delivered < MaxFrame
  /\ delivered' = delivered + 1
  /\ RetireFrame(frame[c])
  /\ frame' = [frame EXCEPT ![c] = delivered + 1]
  /\ UNCHANGED <<open, active, render_seq, painting, scene, atlas, gpu>>

(* Mutant: the image of a closed tab is merely dropped.                    *)
CloseTabDropsFrame(c) ==
  /\ ~painting
  /\ c \in open
  /\ open' = open \ {c}
  /\ frame' = [frame EXCEPT ![c] = 0]
  /\ active' \in IF active # c THEN {active}
                 ELSE IF open = {c} THEN {None} ELSE open \ {c}
  /\ UNCHANGED <<delivered, retired, render_seq, painting, scene, atlas, gpu>>

(* Mutant: the console that is closed stays the active one.                *)
CloseTabKeepsActive(c) ==
  /\ ~painting
  /\ c \in open
  /\ open' = open \ {c}
  /\ RetireFrame(frame[c])
  /\ frame' = [frame EXCEPT ![c] = 0]
  /\ UNCHANGED <<active, delivered, render_seq, painting, scene, atlas, gpu>>

(* close_tab: the image retires.  Which neighbour is shown instead is the  *)
(* subject of ConsoleTabs.                                                 *)
CloseTab(c) ==
  /\ ~painting
  /\ c \in open
  /\ open' = open \ {c}
  /\ RetireFrame(frame[c])
  /\ frame' = [frame EXCEPT ![c] = 0]
  /\ active' \in IF active # c THEN {active}
                 ELSE IF open = {c} THEN {None} ELSE open \ {c}
  /\ UNCHANGED <<delivered, render_seq, painting, scene, atlas, gpu>>

(* switch_remote: the images of all tabs go through drop_image at once.    *)
SwitchRemote ==
  /\ ~painting
  /\ open' = {}
  /\ active' = None
  /\ frame' = [c \in Console |-> 0]
  /\ atlas' = atlas \ {frame[c] : c \in open}
  /\ UNCHANGED <<delivered, retired, render_seq, painting, scene, gpu>>

----------------------------------------------------------------------------
(* A repaint.                                                              *)

(* Mutant: a texture is kept for one repaint less.                         *)
IsDueEarly(entry, seq) == seq - entry[1] >= KEEP_FOR_REPAINTS - 1

(* Has the queue's entry waited long enough when repaint `seq' begins?     *)
IsDue(entry, seq) == seq - entry[1] >= KEEP_FOR_REPAINTS

(* Where release_retired_frames stops to pop: the first that is not due.   *)
FirstKept(seq) ==
  CHOOSE i \in 1 .. Len(retired) + 1 :
    /\ i = Len(retired) + 1 \/ ~IsDue(retired[i], seq)
    /\ \A j \in 1 .. i - 1 : IsDue(retired[j], seq)

(* render: the sequence number, release_retired_frames, and the elements,  *)
(* which hold the image of the shown tab.                                  *)
Render ==
  /\ ~painting
  /\ render_seq < MaxRender
  /\ render_seq' = render_seq + 1
  /\ LET kept == FirstKept(render_seq + 1)
     IN /\ atlas' = atlas \ {retired[i][2] : i \in 1 .. kept - 1}
        /\ retired' = SubSeq(retired, kept, Len(retired))
  /\ scene' = IF active = None \/ frame[active] = 0 THEN {} ELSE {frame[active]}
  /\ painting' = TRUE
  /\ UNCHANGED <<open, active, frame, delivered, gpu>>

(* The GPU is done with the last draw.                                     *)
FenceSignals ==
  /\ gpu # {}
  /\ gpu' = {}
  /\ UNCHANGED <<open, active, frame, delivered, retired, render_seq, painting,
                 scene, atlas>>

(* gpui draws the elements: it waits for the fence of the previous draw,   *)
(* uploads the images that have no texture and submits.                    *)
Draw ==
  /\ painting
  /\ gpu = {}
  /\ painting' = FALSE
  /\ gpu' = scene
  /\ atlas' = atlas \union scene
  /\ scene' = {}
  /\ UNCHANGED <<open, active, frame, delivered, retired, render_seq>>

----------------------------------------------------------------------------

TabStep ==
  \/ \E c \in Console : OpenTab(c) \/ FocusTab(c) \/ DeliverFrame(c) \/ CloseTab(c)
  \/ SwitchRemote

Next == TabStep \/ Render \/ Draw \/ FenceSignals

Spec == Init /\ [][Next]_vars

----------------------------------------------------------------------------
(* What must hold.                                                         *)

Retiring == {retired[i][2] : i \in DOMAIN retired}

(* No texture of the retirement queue is destroyed while the GPU may still *)
(* be reading it (the device fault retired_frames is there to prevent).    *)
RetiredAreReleasedIdle ==
  [][\A f \in Retiring : f \notin Retiring' => f \notin gpu]_vars

(* Every texture is one that a tab shows or that waits in the queue, so    *)
(* that it will be destroyed: "the sprite atlas grows without bound"       *)
(* otherwise (connect_console's frame pump, close_tab).                    *)
NoTextureLeaks ==
  atlas \subseteq {frame[c] : c \in open} \union Retiring

(* The queue is in the order of its sequence numbers, and its numbers are  *)
(* those of repaints that have begun: nothing that is due waits behind     *)
(* something that is not, and no image is in it twice.                     *)
QueueInOrder ==
  /\ \A i, j \in DOMAIN retired :
       i < j => retired[i][1] <= retired[j][1] /\ retired[i][2] # retired[j][2]
  /\ \A i \in DOMAIN retired : retired[i][1] <= render_seq
  /\ \A c \in open : frame[c] \notin Retiring

(* Said of retired_frames (main.rs:303): the texture of a frame must not   *)
(* be destroyed while it may be in use for the draw in flight, however the *)
(* frame came to be let go of.                                             *)
NothingIsDestroyedInUse ==
  [][\A f \in atlas : f \notin atlas' => f \notin gpu]_vars

=============================================================================
