-------------------------- MODULE MCConsoleSession --------------------------
(* Two channels: one may be copying while the accept loop is at work on    *)
(* the other.                                                              *)
EXTENDS ConsoleSession

=============================================================================
