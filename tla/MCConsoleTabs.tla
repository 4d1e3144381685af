--------------------------- MODULE MCConsoleTabs ---------------------------
(* Three VMs in two projects, so that a project's tabs can be split by     *)
(* another's, and attempts enough to open each once or one of them again.  *)
EXTENDS ConsoleTabs

CONSTANTS a1, a2, b1, proj_a, proj_b

MCProjectOf == [v \in Vm |-> IF v = b1 THEN proj_b ELSE proj_a]

(* The two VMs of one project are interchangeable.                         *)
Symmetry == Permutations({a1, a2})

(* All of the state but the history: no action reads it, so a run none of  *)
(* whose invariants speaks of it need not tell states apart by it.         *)
View ==
  <<tabs, active, connecting, task, session, visible, queued, current>>

=============================================================================
