--------------------------- MODULE ConsoleScreen ---------------------------
(***************************************************************************)
(* What the screen of a console promises, whatever threads, flags and      *)
(* channels lie between the guest's surface and the window: one console is *)
(* shown; a repaint shows its surface as it is, or as it was at some time  *)
(* since the last repaint, never an earlier picture again and never that   *)
(* of another console.                                                     *)
(***************************************************************************)
EXTENDS Integers

CONSTANTS Console  \* the open consoles

VARIABLES
  surface, \* the number of changes made to each surface
  shown,   \* the console that is shown
  painted  \* the surface each console was last painted with

vars == <<surface, shown, painted>>

Init ==
  /\ surface = [c \in Console |-> 0]
  /\ shown \in Console
  /\ painted = [c \in Console |-> 0]

Change(c) ==
  /\ surface' = [surface EXCEPT ![c] = @ + 1]
  /\ UNCHANGED <<shown, painted>>

Show(c) ==
  /\ shown' = c
  /\ UNCHANGED <<surface, painted>>

Paint ==
  /\ \E n \in painted[shown]..surface[shown] : painted' = [painted EXCEPT ![shown] = n]
  /\ UNCHANGED <<surface, shown>>

Next == Paint \/ \E c \in Console : Change(c) \/ Show(c)

Spec == Init /\ [][Next]_vars

=============================================================================
