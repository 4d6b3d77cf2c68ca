-------------------------- MODULE MCVpnActivation --------------------------
(* Two VPN connections; paths are numbers, so that 0 is no path.           *)
EXTENDS VpnActivation

MCVpns == {1, 2}
MCActives == {11, 12}
MCOther == 20
=============================================================================
