--------------------------- MODULE MCSecretAgent ---------------------------
(* Two WiFi networks, one of which may change its security, and a VPN.     *)
EXTENDS SecretAgent

MCWifis == {"w1", "w2"}
MCVpns == {"v"}
MCKeyMgmt == ("w1" :> {"wpa-psk", "ieee8021x"}) @@ ("w2" :> {"none"})
MCFlags == {{}, {"ALLOW_INTERACTION", "REQUEST_NEW"}}
MCPasswords == {"p", "q"}
=============================================================================
