------------------------------- MODULE MCLaunch -------------------------------
(***************************************************************************)
(* Small instances of Launch for TLC.                                      *)
(***************************************************************************)
EXTENDS Launch, TLC

CONSTANTS x1, x2, x3, k1, k2, k3

\* Pads are interchangeable, and so are process ids where Users holds all or none
Symmetry == Permutations(Pad) \cup Permutations(Pid)
=============================================================================
