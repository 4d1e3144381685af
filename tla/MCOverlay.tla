------------------------------ MODULE MCOverlay -----------------------------
(* Two instances: enough for the list to change under a menu, a dialog or  *)
(* the palette's highlight.  Two tasks: enough for the details of one to   *)
(* arrive in a dialog that shows the other, or the same one again.         *)
EXTENDS Overlay

=============================================================================
