---------------------------- MODULE MCDbDispatch ----------------------------
(***************************************************************************)
(* Instances of DbDispatch for TLC: a request for a majority, which honest *)
(* nodes answer with v1, and a quick read, which they answer with the      *)
(* quick_read payload q1, to a swarm of four nodes, one of them faulty.    *)
(***************************************************************************)
EXTENDS DbDispatch, TLC

CONSTANTS r1, r2, v1, v2, q1, n1, n2, n3, n4

MCAnswer == [r \in Requests |-> IF r \in QuickReads THEN q1 ELSE v1]

\* The honest nodes answer alike, so they may be exchanged.
HonestSymmetry == Permutations(Nodes \ Faulty)
=============================================================================
