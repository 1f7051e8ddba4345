--------------------------- MODULE MCUdpResponse ----------------------------
(***************************************************************************)
(* Instances of UdpResponse for TLC: two ports, a success and an error.    *)
(***************************************************************************)
EXTENDS UdpResponse
=============================================================================
