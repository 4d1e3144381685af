---------------------------- MODULE MCInputPump ----------------------------
(* Two places and the border, one button, a wheel of half notches, and a   *)
(* combination of two keys.                                                *)
EXTENDS InputPump

CONSTANTS left, ctrl, del, caps

MCCombo == <<ctrl, del>>
MCTurn == {-3, 6}

=============================================================================
