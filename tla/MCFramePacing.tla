--------------------------- MODULE MCFramePacing ---------------------------
(* Two consoles, one of which is shown: the smallest number for which      *)
(* switching tabs, and a timer that serves a hidden console, can happen.   *)
EXTENDS FramePacing

CONSTANTS c1, c2

(* The surface of one console changes while an image of it is on its way.  *)
MCMaxDamage == [c \in Console |-> IF c = c1 THEN 2 ELSE 1]

=============================================================================
