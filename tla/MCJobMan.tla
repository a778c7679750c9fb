------------------------------ MODULE MCJobMan ------------------------------
(***************************************************************************)
(* Small instances of JobMan for TLC.                                      *)
(***************************************************************************)
EXTENDS JobManInv, TLC

CONSTANTS n1, n2, j1, j2, i1, i2, i3

\* Nodes are interchangeable, and so are inodes and (here) job ids
Symmetry == Permutations(Node) \cup Permutations(Inode) \cup Permutations(Job)
=============================================================================
