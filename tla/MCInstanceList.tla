--------------------------- MODULE MCInstanceList ---------------------------
(* Two remotes and one switch: enough for an answer, or an event, of the   *)
(* remote that has been left to arrive after the switch.                   *)
EXTENDS InstanceList

=============================================================================
