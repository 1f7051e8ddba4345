------------------------------ MODULE MCSwarm -------------------------------
(***************************************************************************)
(* Instances of Swarm for TLC: a swarm of one node that another one may    *)
(* join and leave.                                                         *)
(***************************************************************************)
EXTENDS Swarm, TLC

CONSTANTS n1, n2, i1, i2

\* Calls of initialize are interchangeable.
InitSymmetry == Permutations(Inits)
=============================================================================
