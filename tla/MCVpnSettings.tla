--------------------------- MODULE MCVpnSettings ---------------------------
(* VpnSettings with an OpenVPN connection that uses a password and a       *)
(* certificate, and a PPTP connection.                                     *)
EXTENDS VpnSettings

MCEdits ==
    [openvpn |-> {<<"ca", "b">>, <<"ca", "">>, <<"cipher", "SEED_CBC">>, <<"password", "p">>,
                  <<"certPass", "p">>, <<"neverDefault", TRUE>>, <<"id", "home">>,
                  <<"connectionType", "TLS">>,
                  <<"proxyType", "HTTP">>, <<"proxyPassword", "p">>},
     pptp |-> {<<"gateway", "b">>, <<"mppeType", "MPPE_40">>, <<"requireMppe", FALSE>>,
               <<"password", "p">>, <<"id", "home">>}]

MCForeign == [openvpn |-> {<<"ca", "c">>, <<"neverDefault", TRUE>>},
              pptp |-> {<<"gateway", "c">>}]

MCStored ==
    [openvpn |-> [OvDefault EXCEPT !.connectionType = "PASSWORD_TLS", !.password = "s",
                                   !.username = "u"],
     pptp |-> [PptpDefault EXCEPT !.requireMppe = TRUE, !.password = "s"]]
=============================================================================
