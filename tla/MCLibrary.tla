----------------------------- MODULE MCLibrary ------------------------------
(***************************************************************************)
(* Instances of Library for TLC: a database is created, opened and looked  *)
(* up, in any order.                                                       *)
(***************************************************************************)
EXTENDS Library

CONSTANTS o1, o2, o3, u1, c1

MCKind == [o \in Ops |-> IF o = o1 THEN "create" ELSE "has"]
MCUuid == [o \in Ops |-> u1]
=============================================================================
