------------------------------ MODULE VpnData ------------------------------
(***************************************************************************)
(* The settings of one VPN connection as the program sees them (a struct   *)
(* of typed properties, OpenvpnConnection::Priv::Data and                  *)
(* PptpConnection::Priv::Data) and as NetworkManager stores them (two maps *)
(* from key to text: "data" and "secrets"), with the two conversions       *)
(* between them: buildData()/buildSecrets() and updateData()/              *)
(* updateSecrets().  Everything here is constant level: VpnSettings runs   *)
(* these operators inside the objects that use them, MCVpnData checks them *)
(* on their own.                                                           *)
(*                                                                         *)
(* A struct is a function from property names to values: text is a string, *)
(* numbers are integers, switches are BOOLEAN and an enumerator is its     *)
(* name.  A stored map is a function whose domain is the set of keys       *)
(* present; every stored value is a string, as in QStringMap.              *)
(***************************************************************************)
EXTENDS Integers, Sequences, TLC

CONSTANT Numbers    \* the integers that may be written as decimal text

ASSUME NumbersAssumption == Numbers \subseteq Int /\ 0 \in Numbers

\* The empty QStringMap.
NoKeys == [k \in {} |-> ""]

\* What is read where k is there; without it the old value stays.
IfStored(m, k, v, old) == IF k \in DOMAIN m THEN v ELSE old

\* The map g with the entries of f written over it.
Over(f, g) == [k \in DOMAIN f \cup DOMAIN g |-> IF k \in DOMAIN f THEN f[k] ELSE g[k]]

\* A map with these <<key, text>> entries, and entries written only when c holds.
MapOf(entries) ==
    [k \in {e[1] : e \in entries} |-> (CHOOSE e \in entries : e[1] = k)[2]]
When(c, entries) == IF c THEN entries ELSE {}

\* QMap::value(key): the text stored under k, empty when k is absent.
Value(m, k) == IF k \in DOMAIN m THEN m[k] ELSE ""

\* QString::toInt(): 0 for a text that is not a number.
ToInt(s) == LET n == {i \in Numbers : ToString(i) = s}
            IN  IF n = {} THEN 0 ELSE CHOOSE i \in n : TRUE

\* Reading an enumerator: the name whose text is s, dflt when there is none.
Named(texts, s, dflt) ==
    IF \E e \in DOMAIN texts : texts[e] = s
    THEN CHOOSE e \in DOMAIN texts : texts[e] = s
    ELSE dflt

-----------------------------------------------------------------------------
(* The enumerations, in the order of their declarations.                   *)

ConnectionTypes == <<"TLS", "PASSWORD", "PASSWORD_TLS", "STATIC_KEY">>
DevTypes == <<"TUN", "TAP">>
Ciphers == <<"DEFAULT_CIPHER", "DES_CBC", "RC2_CBC", "DES_EDE_CBC", "DES_EDE3_CBC",
             "DESX_CBC", "RC2_40_CBC", "CAST5_CBC", "AES_128_CBC", "AES_192_CBC",
             "AES_256_CBC", "CAMELLIA_128_CBC", "CAMELLIA_192_CBC", "CAMELLIA_256_CBC",
             "SEED_CBC", "AES_128_CBC_HMAC_SHA1", "AES_256_CBC_HMAC_SHA1">>
Auths == <<"DEFAULT_AUTH", "NONE", "RSA_MD4", "MD5", "SHA1", "SHA224", "SHA256",
           "SHA384", "SHA512", "RIPEMD160">>
TlsTypes == <<"SERVER", "CLIENT">>
KeyDirs == <<"KEY_NONE", "ZERO", "ONE">>
ProxyTypes == <<"NOT_REQUIRED", "HTTP", "SOCKS">>
MppeTypes == <<"MPPE_ALL", "MPPE_128", "MPPE_40">>

\* The properties whose type is an enumeration.
EnumOf == [connectionType |-> ConnectionTypes, staticKeyDirection |-> KeyDirs,
           devType |-> DevTypes, cipher |-> Ciphers, auth |-> Auths,
           remoteCertTls |-> TlsTypes, taDir |-> KeyDirs, proxyType |-> ProxyTypes,
           mppeType |-> MppeTypes]

(* The texts NetworkManager knows the enumerators by.                      *)

connectionTypeMap == [TLS |-> "tls", PASSWORD |-> "password",
                      PASSWORD_TLS |-> "password-tls", STATIC_KEY |-> "static-key"]
keyDirMap == [ZERO |-> "0", ONE |-> "1"]
devTypeMap == [TUN |-> "tun", TAP |-> "tap"]
cipherMap ==
    [DES_CBC |-> "DES-CBC", RC2_CBC |-> "RC2-CBC", DES_EDE_CBC |-> "DES-EDE-CBC",
     DES_EDE3_CBC |-> "DES-EDE3-CBC", DESX_CBC |-> "DESX-CBC",
     RC2_40_CBC |-> "RC2-40-CBC", CAST5_CBC |-> "CAST5-CBC",
     AES_128_CBC |-> "AES-128-CBC", AES_192_CBC |-> "AES-192-CBC",
     AES_256_CBC |-> "AES-256-CBC", CAMELLIA_128_CBC |-> "CAMELLIA-128-CBC",
     CAMELLIA_192_CBC |-> "CAMELLIA-192-CBC", CAMELLIA_256_CBC |-> "CAMELLIA-256-CBC",
     SEED_CBC |-> "SEED-CBC", AES_128_CBC_HMAC_SHA1 |-> "AES-128-CBC-HMAC-SHA1",
     AES_256_CBC_HMAC_SHA1 |-> "AES-256-CBC-HMAC-SHA1"]
authMap == [NONE |-> "none", RSA_MD4 |-> "RSA-MD4", MD5 |-> "MD5", SHA1 |-> "SHA1",
            SHA224 |-> "SHA224", SHA256 |-> "SHA256", SHA384 |-> "SHA384",
            SHA512 |-> "SHA512", RIPEMD160 |-> "RIPEMD160"]
remoteCertTlsMap == [SERVER |-> "server", CLIENT |-> "client"]
proxyTypeMap == [HTTP |-> "http", SOCKS |-> "socks"]
mppeTypeMap == [MPPE_ALL |-> "require-mppe", MPPE_128 |-> "require-mppe-128",
                MPPE_40 |-> "require-mppe-40"]

-----------------------------------------------------------------------------
(* OpenVPN: the struct and its defaults.                                   *)

OvBasic == [ca |-> "", cert |-> "", certPass |-> "", connectionType |-> "TLS",
            key |-> "", localIp |-> "", password |-> "", remote |-> "",
            remoteIp |-> "", staticKey |-> "", staticKeyDirection |-> "KEY_NONE",
            username |-> ""]
OvGeneral == [port |-> 1194, portSet |-> FALSE, renegSeconds |-> 0,
              renegSecondsSet |-> FALSE, compLzo |-> FALSE, protoTcp |-> FALSE,
              dev |-> "", devType |-> "TUN", devTypeSet |-> FALSE,
              tunnelMtu |-> 1500, tunnelMtuSet |-> FALSE, fragmentSize |-> 1300,
              fragmentSizeSet |-> FALSE, mssFix |-> FALSE, remoteRandom |-> FALSE]
OvSecurity == [cipher |-> "DEFAULT_CIPHER", keysize |-> 128, keysizeSet |-> FALSE,
               auth |-> "DEFAULT_AUTH"]
OvTls == [tlsRemote |-> "", remoteCertTls |-> "SERVER", remoteCertTlsSet |-> FALSE,
          ta |-> "", taDir |-> "KEY_NONE", taSet |-> FALSE]
OvProxy == [proxyType |-> "NOT_REQUIRED", proxyServer |-> "", proxyPort |-> 80,
            proxyRetry |-> FALSE, proxyUsername |-> "", proxyPassword |-> ""]
OvDefault == Over(OvBasic, Over(OvGeneral, Over(OvSecurity, Over(OvTls, OvProxy))))

(* The keys of the properties that are stored as they are, as "yes" when   *)
(* they are set, and as a number when their companion switch is set.       *)

OvTextKey == [ca |-> "ca", cert |-> "cert", key |-> "key", localIp |-> "local-ip",
              remote |-> "remote", remoteIp |-> "remote-ip",
              staticKey |-> "static-key", username |-> "username",
              tlsRemote |-> "tls-remote"]
OvBoolKey == [compLzo |-> "comp-lzo", protoTcp |-> "proto-tcp", mssFix |-> "mssfix",
              remoteRandom |-> "remote-random"]
OvPairKey_Shared == [port |-> "port", renegSeconds |-> "reneg-seconds",
                     tunnelMtu |-> "tunnel-mtu", fragmentSize |-> "tunnel-mtu",
                     keysize |-> "keysize"]
OvPairKey == [port |-> "port", renegSeconds |-> "reneg-seconds",
              tunnelMtu |-> "tunnel-mtu", fragmentSize |-> "fragment-size",
              keysize |-> "keysize"]
OvSwitchOf == [port |-> "portSet", renegSeconds |-> "renegSecondsSet",
               tunnelMtu |-> "tunnelMtuSet", fragmentSize |-> "fragmentSizeSet",
               keysize |-> "keysizeSet"]

\* The user name and the password of the proxy: the key depends on its type.
OvProxyUserKey == [HTTP |-> "http-proxy-username", SOCKS |-> "socks-proxy-username"]
OvProxyPasswordKey == [HTTP |-> "http-proxy-password", SOCKS |-> "socks-proxy-password"]

\* Data::operator=: every property of the other struct, and no other.
OvCopy(other) == [p \in DOMAIN OvDefault |-> other[p]]

-----------------------------------------------------------------------------
(* OpenVPN: from the struct to the entries of the stored maps.             *)

\* The text properties ps of d, under their keys.
Texts(d, ps) == {<<OvTextKey[p], d[p]>> : p \in ps}

\* buildData(), basic properties: what a connection type has no use for is
\* not written.
OvBuildBasic(d) ==
    LET t == d.connectionType
        pass == <<"password-flags", "1">>
        certPass == <<"cert-pass-flags", "1">>
    IN  {<<"connection-type", connectionTypeMap[t]>>} \cup
        CASE t = "TLS" -> Texts(d, {"ca", "cert", "key", "remote"}) \cup {certPass}
          [] t = "PASSWORD" -> Texts(d, {"ca", "username", "remote"}) \cup {pass}
          [] t = "PASSWORD_TLS" ->
               Texts(d, {"ca", "cert", "key", "username", "remote"}) \cup {certPass, pass}
          [] t = "STATIC_KEY" ->
               Texts(d, {"ca", "localIp", "remote", "remoteIp", "staticKey"}) \cup
               When(d.staticKeyDirection # "KEY_NONE",
                    {<<"static-key-direction", keyDirMap[d.staticKeyDirection]>>})

\* A number is written when its switch is set, a boolean when it is true.
OvBuildPair(d, p) == When(d[OvSwitchOf[p]], {<<OvPairKey[p], ToString(d[p])>>})
OvBuildBool(d, p) == When(d[p], {<<OvBoolKey[p], "yes">>})

\* buildData(), advanced general properties.
OvBuildGeneral(d) ==
    OvBuildPair(d, "port") \cup OvBuildPair(d, "renegSeconds") \cup
    OvBuildBool(d, "compLzo") \cup OvBuildBool(d, "protoTcp") \cup
    When(d.devTypeSet, {<<"dev-type", devTypeMap[d.devType]>>}) \cup
    When(d.devTypeSet /\ d.dev # "", {<<"dev", d.dev>>}) \cup
    OvBuildPair(d, "tunnelMtu") \cup OvBuildPair(d, "fragmentSize") \cup
    OvBuildBool(d, "mssFix") \cup OvBuildBool(d, "remoteRandom")

\* buildData(), advanced security properties.
OvBuildSecurity(d) ==
    When(d.cipher # "DEFAULT_CIPHER", {<<"cipher", cipherMap[d.cipher]>>}) \cup
    OvBuildPair(d, "keysize") \cup
    When(d.auth # "DEFAULT_AUTH", {<<"auth", authMap[d.auth]>>})

\* buildData(), advanced TLS properties: not for a static key connection, and
\* an empty ta file is written as "/".
OvBuildTls(d) ==
    When(d.connectionType # "STATIC_KEY",
         When(d.tlsRemote # "", {<<"tls-remote", d.tlsRemote>>}) \cup
         When(d.remoteCertTlsSet,
              {<<"remote-cert-tls", remoteCertTlsMap[d.remoteCertTls]>>}) \cup
         When(d.taSet /\ d.taDir # "KEY_NONE", {<<"ta-dir", keyDirMap[d.taDir]>>}) \cup
         When(d.taSet, {<<"ta", IF d.ta = "" THEN "/" ELSE d.ta>>}))

\* buildData(), proxy settings.
OvBuildProxy(d) ==
    When(d.proxyType # "NOT_REQUIRED",
         {<<"proxy-type", proxyTypeMap[d.proxyType]>>, <<"proxy-server", d.proxyServer>>,
          <<"proxy-port", ToString(d.proxyPort)>>} \cup
         When(d.proxyRetry, {<<"proxy-retry", "yes">>}) \cup
         When(d.proxyUsername # "", {<<OvProxyUserKey[d.proxyType], d.proxyUsername>>}))

OvBuildData(d) == MapOf(OvBuildBasic(d) \cup OvBuildGeneral(d) \cup OvBuildSecurity(d)
                        \cup OvBuildTls(d) \cup OvBuildProxy(d))

\* buildSecrets(): the secrets the connection type and the proxy type use.
OvBuildSecrets(d) ==
    MapOf(When(d.connectionType \in {"TLS", "PASSWORD_TLS"}, {<<"cert-pass", d.certPass>>})
          \cup When(d.connectionType \in {"PASSWORD", "PASSWORD_TLS"},
                    {<<"password", d.password>>})
          \cup When(d.proxyPassword # "" /\ d.proxyType # "NOT_REQUIRED",
                    {<<OvProxyPasswordKey[d.proxyType], d.proxyPassword>>}))

-----------------------------------------------------------------------------
(* OpenVPN: from the stored maps back to the struct.  Each operator gives  *)
(* the value that property p has then; old is the one it had.              *)

\* DEFINE_UPDATE_PROPERTY_STRING, DEFINE_UPDATE_PROPERTY_BOOL
OvReadText(m, p) == Value(m, OvTextKey[p])
OvReadBool(m, p) == Value(m, OvBoolKey[p]) = "yes"
\* DEFINE_UPDATE_PROPERTY_PAIR: an absent key clears the switch and leaves the
\* number as it was.
OvReadNumber(m, p, old) == IfStored(m, OvPairKey[p], ToInt(Value(m, OvPairKey[p])), old)
OvReadSwitch(m, p) ==
    \E n \in DOMAIN OvSwitchOf : OvSwitchOf[n] = p /\ OvPairKey[n] \in DOMAIN m

OvReadBasic(m, p, old) ==
    CASE p \in DOMAIN OvTextKey -> OvReadText(m, p)
      [] p = "connectionType" ->
           Named(connectionTypeMap, Value(m, "connection-type"), "TLS")
      [] p = "staticKeyDirection" ->
           Named(keyDirMap, Value(m, "static-key-direction"), "KEY_NONE")
      [] OTHER -> old                                   \* a secret

\* updateDevType(): type and device are read only when "dev-type" is there.
OvReadGeneral(m, p, old) ==
    CASE p \in DOMAIN OvPairKey -> OvReadNumber(m, p, old)
      [] p \in DOMAIN OvBoolKey -> OvReadBool(m, p)
      [] p = "devTypeSet" -> "dev-type" \in DOMAIN m
      [] p = "devType" ->
           IfStored(m, "dev-type", Named(devTypeMap, Value(m, "dev-type"), "TUN"), old)
      [] p = "dev" -> IfStored(m, "dev-type", Value(m, "dev"), old)
      [] OTHER -> OvReadSwitch(m, p)

OvReadSecurity(m, p, old) ==
    CASE p = "cipher" -> Named(cipherMap, Value(m, "cipher"), "DEFAULT_CIPHER")
      [] p = "auth" -> Named(authMap, Value(m, "auth"), "DEFAULT_AUTH")
      [] p = "keysize" -> OvReadNumber(m, p, old)
      [] OTHER -> OvReadSwitch(m, p)

OvReadTls(m, p, old) ==
    CASE p = "tlsRemote" -> OvReadText(m, p)
      [] p = "remoteCertTlsSet" -> "remote-cert-tls" \in DOMAIN m
      [] p = "remoteCertTls" ->
           IfStored(m, "remote-cert-tls",
                    Named(remoteCertTlsMap, Value(m, "remote-cert-tls"), "SERVER"), old)
      [] p = "taSet" -> "ta" \in DOMAIN m
      [] p = "ta" -> IfStored(m, "ta", Value(m, "ta"), old)
      [] OTHER -> IfStored(m, "ta", Named(keyDirMap, Value(m, "ta-dir"), "KEY_NONE"), old)

OvProxyType(m) == Named(proxyTypeMap, Value(m, "proxy-type"), "NOT_REQUIRED")

OvReadProxy_Kept(m, p, old) ==
    CASE p = "proxyType" -> IfStored(m, "proxy-type", OvProxyType(m), old)
      [] p = "proxyServer" -> IfStored(m, "proxy-type", Value(m, "proxy-server"), old)
      [] p = "proxyPort" -> IfStored(m, "proxy-type", ToInt(Value(m, "proxy-port")), old)
      [] p = "proxyRetry" ->
           IfStored(m, "proxy-type", Value(m, "proxy-retry") = "yes", old)
      [] OTHER -> old

\* updateProxy(): without "proxy-type" only the type is reset; the user name is
\* read from the key of the type.
OvReadProxy(m, p, old) ==
    CASE p = "proxyType" -> OvProxyType(m)
      [] p = "proxyServer" -> IfStored(m, "proxy-type", Value(m, "proxy-server"), old)
      [] p = "proxyPort" -> IfStored(m, "proxy-type", ToInt(Value(m, "proxy-port")), old)
      [] p = "proxyRetry" ->
           IfStored(m, "proxy-type", Value(m, "proxy-retry") = "yes", old)
      [] p = "proxyUsername" -> IF OvProxyType(m) \in DOMAIN OvProxyUserKey
                                THEN Value(m, OvProxyUserKey[OvProxyType(m)]) ELSE old
      [] OTHER -> old                                   \* the secret

OvRead(m, p, old) ==
    CASE p \in DOMAIN OvBasic -> OvReadBasic(m, p, old)
      [] p \in DOMAIN OvGeneral -> OvReadGeneral(m, p, old)
      [] p \in DOMAIN OvSecurity -> OvReadSecurity(m, p, old)
      [] p \in DOMAIN OvTls -> OvReadTls(m, p, old)
      [] OTHER -> OvReadProxy(m, p, old)

OvUpdateData(x, m) == [p \in DOMAIN x |-> OvRead(m, p, x[p])]

\* updateProxySecrets(): from the key of the current proxy type.
OvReadProxyPassword_Http(type, s, old) == Value(s, "http-proxy-password")
OvReadProxyPassword(type, s, old) ==
    IF type \in DOMAIN OvProxyPasswordKey THEN Value(s, OvProxyPasswordKey[type]) ELSE old

\* updateSecrets(): an absent secret is read as empty text.
OvUpdateSecrets(x, s) ==
    [x EXCEPT !.certPass = Value(s, "cert-pass"), !.password = Value(s, "password"),
              !.proxyPassword = OvReadProxyPassword(x.proxyType, s, @)]

-----------------------------------------------------------------------------
(* PPTP: the struct, and the keys of the switches that are stored by their *)
(* negation ("yes" refuses).                                               *)

PptpDefault ==
    [gateway |-> "", user |-> "", password |-> "", domain |-> "",
     allowPap |-> TRUE, allowChap |-> TRUE, allowMschap |-> TRUE,
     allowMschapv2 |-> TRUE, allowEap |-> TRUE, requireMppe |-> FALSE,
     mppeType |-> "MPPE_ALL", mppeStateful |-> FALSE, bsdCompression |-> TRUE,
     deflateCompression |-> TRUE, tcpHeaderCompression |-> TRUE,
     sendPppEchoPackets |-> FALSE]

PptpAntiKey == [allowPap |-> "refuse-pap", allowChap |-> "refuse-chap",
                allowMschap |-> "refuse-mschap", allowMschapv2 |-> "refuse-mschapv2",
                allowEap |-> "refuse-eap", bsdCompression |-> "nobsdcomp",
                deflateCompression |-> "nodeflate", tcpHeaderCompression |-> "no-vj-comp"]

\* Data::operator=
PptpCopy(other) == [p \in DOMAIN PptpDefault |-> other[p]]

\* The refusals that are written: PAP, CHAP and EAP only without MPPE.
PptpRefused(d) ==
    {p \in DOMAIN PptpAntiKey :
        ~d[p] /\ (d.requireMppe => p \notin {"allowPap", "allowChap", "allowEap"})}

\* buildData(): MPPE is written only when one of the MSCHAP methods is allowed.
PptpBuildData(d) ==
    MapOf({<<"gateway", d.gateway>>, <<"user", d.user>>, <<"password-flags", "1">>} \cup
          When(d.domain # "", {<<"domain", d.domain>>}) \cup
          {<<PptpAntiKey[p], "yes">> : p \in PptpRefused(d)} \cup
          When((d.allowMschap \/ d.allowMschapv2) /\ d.requireMppe,
               {<<mppeTypeMap[d.mppeType], "yes">>} \cup
               When(d.mppeStateful, {<<"mppe-stateful", "yes">>})) \cup
          When(d.sendPppEchoPackets,
               {<<"lcp-echo-interval", "30">>, <<"lcp-echo-failure", "5">>}))

PptpBuildSecrets(d) == MapOf(When(d.password # "", {<<"password", d.password>>}))

\* updateMppe(): the first of the three keys that says "yes" wins; without one
\* the type keeps its value.
Says(m, k) == Value(m, k) = "yes"
PptpReadMppeType(m, old) ==
    IF Says(m, "require-mppe") THEN "MPPE_ALL"
    ELSE IF Says(m, "require-mppe-128") THEN "MPPE_128"
    ELSE IF Says(m, "require-mppe-40") THEN "MPPE_40" ELSE old

PptpRead(m, p, old) ==
    CASE p \in {"gateway", "user", "domain"} -> Value(m, p)
      [] p \in DOMAIN PptpAntiKey -> ~Says(m, PptpAntiKey[p])
      [] p = "requireMppe" ->
           \E t \in DOMAIN mppeTypeMap : Says(m, mppeTypeMap[t])
      [] p = "mppeType" -> PptpReadMppeType(m, old)
      [] p = "mppeStateful" -> Says(m, "mppe-stateful")
      [] p = "sendPppEchoPackets" ->
           DOMAIN m \cap {"lcp-echo-interval", "lcp-echo-failure"} # {}
      [] OTHER -> old                                   \* the secret

PptpUpdateData(x, m) == [p \in DOMAIN x |-> PptpRead(m, p, x[p])]

PptpUpdateSecrets(x, s) == [x EXCEPT !.password = Value(s, "password")]

-----------------------------------------------------------------------------
(* Either kind of connection.                                              *)

Kinds == {"openvpn", "pptp"}

\* updateType(): a service NetworkManager knows and this program does not is
\* taken for OpenVPN.
KindOf(service) == IF service = "pptp" THEN "pptp" ELSE "openvpn"

Default(kind) == IF kind = "pptp" THEN PptpDefault ELSE OvDefault
Copy(kind, d) == IF kind = "pptp" THEN PptpCopy(d) ELSE OvCopy(d)
BuildData(kind, d) == IF kind = "pptp" THEN PptpBuildData(d) ELSE OvBuildData(d)
BuildSecrets(kind, d) == IF kind = "pptp" THEN PptpBuildSecrets(d) ELSE OvBuildSecrets(d)
UpdateData(kind, x, m) ==
    IF kind = "pptp" THEN PptpUpdateData(x, m) ELSE OvUpdateData(x, m)
UpdateSecrets(kind, x, s) ==
    IF kind = "pptp" THEN PptpUpdateSecrets(x, s) ELSE OvUpdateSecrets(x, s)

Properties(kind) == DOMAIN Default(kind)

\* The properties set through DEFINE_SECRET_PROPERTY_SETTER.
OvSecretProperties == {"certPass", "password", "proxyPassword"}
PptpSecretProperties == {"password"}
SecretProperties(kind) == IF kind = "pptp" THEN PptpSecretProperties
                                           ELSE OvSecretProperties

=============================================================================
