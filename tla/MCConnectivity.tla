--------------------------- MODULE MCConnectivity ---------------------------
(* Connectivity with two SIMs, one modem and one new VPN connection.       *)
EXTENDS Connectivity
=============================================================================
