---------------------------- MODULE MCOperations ----------------------------
(* Two remotes and two actions at once: enough for the remote to be        *)
(* switched between any two requests of either, and for a wait that goes   *)
(* round again once before it gives up.                                    *)
EXTENDS Operations

=============================================================================
