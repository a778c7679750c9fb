-------------------------------- MODULE MCGroup --------------------------------
(***************************************************************************)
(* Small instances of Group for TLC.                                       *)
(***************************************************************************)
EXTENDS Group, TLC

CONSTANTS n1, n2, m1, m2, k1, k2, k3

Symmetry == Permutations(Node) \cup Permutations(Member) \cup Permutations(Kid)
=============================================================================
