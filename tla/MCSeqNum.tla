------------------------------- MODULE MCSeqNum -------------------------------
(***************************************************************************)
(* A small instance of SeqNum for TLC: a job manager at one site that      *)
(* splits a group of many, and mkjob at another site.                      *)
(***************************************************************************)
EXTENDS SeqNum, TLC

CONSTANTS p1, p2, s1, s2

MCSiteOf == p1 :> s1 @@ p2 :> s2
MCZoneOf == s1 :> 2 @@ s2 :> 1

\* Numbers of one byte
MCBytesOf == [v \in 0..15 |-> <<v>>]
=============================================================================
