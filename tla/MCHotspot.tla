------------------------------ MODULE MCHotspot ------------------------------
(* A station device and the one that the firmware makes for the hotspot.    *)
EXTENDS Hotspot

MCDevices == {"wlan0", "ap0"}
MCTether == "ap0"
=============================================================================
