------------------------- MODULE MCFrameRetirement -------------------------
(* Two consoles, images enough to fill the queue twice over, and repaints  *)
(* enough for an image to be painted, retired, kept and destroyed while    *)
(* others go the same way behind it.                                       *)
EXTENDS FrameRetirement

CONSTANTS c1, c2

Symmetry == Permutations({c1, c2})

=============================================================================
