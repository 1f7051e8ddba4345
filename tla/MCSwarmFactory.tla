--------------------------- MODULE MCSwarmFactory ---------------------------
(***************************************************************************)
(* Instances of SwarmFactory for TLC: a lookup and two creations, two of   *)
(* them of the same database.                                              *)
(***************************************************************************)
EXTENDS SwarmFactory

CONSTANTS o1, o2, o3, u1, u2

MCKind == [o \in Ops |-> IF o = o1 THEN "has" ELSE "create"]
MCUuid == [o \in Ops |-> IF o = o3 THEN u2 ELSE u1]
=============================================================================
