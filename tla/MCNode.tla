------------------------------- MODULE MCNode -------------------------------
(***************************************************************************)
(* Instances of Node for TLC.  Messages are model values; the backoff time *)
(* doubles up to MaxBackoff, small here.                                   *)
(***************************************************************************)
EXTENDS Node

CONSTANTS m1, m2, m3
=============================================================================
