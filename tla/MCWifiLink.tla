----------------------------- MODULE MCWifiLink -----------------------------
(* Three access points: two of a secured network and an enterprise one that *)
(* sorts before it.                                                         *)
EXTENDS WifiLink

MCAps == {1, 2, 3}
MCKeyOf == <<2, 2, 1>>
MCSecured == {1, 2}
MCEnterprise == {1}
=============================================================================
