------------------------- MODULE MCInputForwarding -------------------------
(* Two consoles to switch between, and a key of each kind: one that closes *)
(* overlays, one that is a shortcut, two that share a name.                *)
EXTENDS InputForwarding, TLC

CONSTANTS c1, c2

(* What is torn stays torn: the search ends where that is more than this.  *)
CONSTANT MaxTorn
FewTorn == Cardinality(torn) <= MaxTorn

Symmetry == Permutations({c1, c2})

=============================================================================
