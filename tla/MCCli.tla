------------------------------- MODULE MCCli --------------------------------
(***************************************************************************)
(* Instances of Cli for TLC: an operation of each kind on one database.    *)
(***************************************************************************)
EXTENDS Cli

CONSTANTS o1, o2, o3, u1, c1

MCKind == [o \in Ops |-> IF o = o1 THEN "create" ELSE "has"]
MCUuid == [o \in Ops |-> u1]
=============================================================================
