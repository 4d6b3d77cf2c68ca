-------------------------- MODULE VpnSettingsProofs --------------------------
(***************************************************************************)
(* Proofs for VpnSettings, for any edits and any stored settings and       *)
(* without the bounds of TLC's runs: WindowKept, that a window's edits are *)
(* in what the next dispatch writes; AtRestAgree, that the client, the     *)
(* service and NetworkManager agree once nothing is on its way; and        *)
(* LoneEditLands, that an undisturbed edit ends up in NetworkManager's     *)
(* settings and on the user's screen.                                      *)
(*                                                                         *)
(* The conversions of VpnData are used through four facts about them: the  *)
(* stored data does not depend on secrets (DataSame), the stored secrets   *)
(* only on secrets and on the properties in SecretPlaces (SecretsSame),    *)
(* reading the same data twice is reading it once (UpdateTwice), and a     *)
(* secret that is written at all is read back from its key                 *)
(* (SecretWritten).                                                        *)
(***************************************************************************)
EXTENDS VpnSettings, TLAPS

(* The structs d and e have the same values for the properties S.          *)
SameOn(S, d, e) == \A p \in S : d[p] = e[p]

(* The properties of an OpenVPN connection, page by page of its editor.    *)
LEMMA OvDomains ==
    /\ DOMAIN OvDefault = DOMAIN OvBasic \cup DOMAIN OvGeneral \cup DOMAIN OvSecurity
                             \cup DOMAIN OvTls \cup DOMAIN OvProxy
    /\ DOMAIN OvBasic = {"ca", "cert", "certPass", "connectionType", "key", "localIp",
                         "password", "remote", "remoteIp", "staticKey",
                         "staticKeyDirection", "username"}
    /\ DOMAIN OvGeneral = {"port", "portSet", "renegSeconds", "renegSecondsSet", "compLzo",
                           "protoTcp", "dev", "devType", "devTypeSet", "tunnelMtu",
                           "tunnelMtuSet", "fragmentSize", "fragmentSizeSet", "mssFix",
                           "remoteRandom"}
    /\ DOMAIN OvSecurity = {"cipher", "keysize", "keysizeSet", "auth"}
    /\ DOMAIN OvTls = {"tlsRemote", "remoteCertTls", "remoteCertTlsSet", "ta", "taDir", "taSet"}
    /\ DOMAIN OvProxy = {"proxyType", "proxyServer", "proxyPort", "proxyRetry",
                         "proxyUsername", "proxyPassword"}
<1>2. DOMAIN OvDefault = DOMAIN OvBasic \cup DOMAIN OvGeneral \cup DOMAIN OvSecurity
                            \cup DOMAIN OvTls \cup DOMAIN OvProxy
  <2>1. PICK a : a = Over(OvTls, OvProxy)
    OBVIOUS
  <2>2. PICK b : b = Over(OvSecurity, a)
    OBVIOUS
  <2>3. PICK c : c = Over(OvGeneral, b)
    OBVIOUS
  <2>4. OvDefault = Over(OvBasic, c)
    BY <2>1, <2>2, <2>3 DEF OvDefault
  <2>5. DOMAIN a = DOMAIN OvTls \cup DOMAIN OvProxy
    BY <2>1 DEF Over
  <2>6. DOMAIN b = DOMAIN OvSecurity \cup DOMAIN a
    BY <2>2 DEF Over
  <2>7. DOMAIN c = DOMAIN OvGeneral \cup DOMAIN b
    BY <2>3 DEF Over
  <2>8. DOMAIN OvDefault = DOMAIN OvBasic \cup DOMAIN c
    BY <2>4 DEF Over
  <2> QED
    BY <2>5, <2>6, <2>7, <2>8
<1>3. DOMAIN OvBasic = {"ca", "cert", "certPass", "connectionType", "key", "localIp",
                        "password", "remote", "remoteIp", "staticKey",
                        "staticKeyDirection", "username"}
  BY DEF OvBasic
<1>4. DOMAIN OvGeneral = {"port", "portSet", "renegSeconds", "renegSecondsSet", "compLzo",
                          "protoTcp", "dev", "devType", "devTypeSet", "tunnelMtu",
                          "tunnelMtuSet", "fragmentSize", "fragmentSizeSet", "mssFix",
                          "remoteRandom"}
  BY DEF OvGeneral
<1>5. DOMAIN OvSecurity = {"cipher", "keysize", "keysizeSet", "auth"}
  BY DEF OvSecurity
<1>6. DOMAIN OvTls = {"tlsRemote", "remoteCertTls", "remoteCertTlsSet", "ta", "taDir", "taSet"}
  BY DEF OvTls
<1>7. DOMAIN OvProxy = {"proxyType", "proxyServer", "proxyPort", "proxyRetry",
                        "proxyUsername", "proxyPassword"}
  BY DEF OvProxy
<1> QED
  BY <1>2, <1>3, <1>4, <1>5, <1>6, <1>7

(* The properties of a PPTP connection.                                    *)
LEMMA PptpDomains ==
    DOMAIN PptpDefault = {"gateway", "user", "password", "domain", "allowPap", "allowChap",
                          "allowMschap", "allowMschapv2", "allowEap", "requireMppe",
                          "mppeType", "mppeStateful", "bsdCompression",
                          "deflateCompression", "tcpHeaderCompression",
                          "sendPppEchoPackets"}
BY DEF PptpDefault

(* The properties whose type is an enumeration.                            *)
LEMMA EnumDomains ==
    DOMAIN EnumOf = {"connectionType", "staticKeyDirection", "devType", "cipher", "auth",
                     "remoteCertTls", "taDir", "proxyType", "mppeType"}
BY DEF EnumOf

(* The tables of every layer (what the client sets, what the service       *)
(* writes and announces) name the same properties.                         *)
LEMMA Tables ==
    /\ AllProperties = VpnProperties \cup Properties(kind)
    /\ ClientSettable = AllProperties
    /\ Writable = AllProperties
    /\ AllProperties \subseteq Announced
    /\ Properties(kind) \cap VpnProperties = {}
    /\ SecretProperties(kind) \subseteq Properties(kind)
<1>1. CASE kind = "pptp"
  BY <1>1, PptpDomains, EnumDomains, SMT
  DEF AllProperties, VpnProperties, Properties, Default, ClientSettable, Writable, Announced,
      PptpReadable, PptpSettable, PptpExported, PptpForward, PptpEnumSetters, VpnForward,
      PptpReverse, PptpAnnounced, VpnReverse, PptpClientSet, VpnClientSet, EnumProperties,
      SecretProperties, PptpSecretProperties
<1>2. CASE kind # "pptp"
  <2>1. Properties(kind) = DOMAIN OvDefault
    BY <1>2 DEF Properties, Default
  <2>2. OvReverse = DOMAIN OvDefault
    BY OvDomains DEF OvReverse
  <2>3. \A p \in DOMAIN OvDefault \cap DOMAIN EnumOf : p \in OvEnumSetters
    BY OvDomains, EnumDomains, SMT DEF OvEnumSetters
  <2>4. OvEnumSetters \subseteq DOMAIN OvDefault
    BY OvDomains, SMT DEF OvEnumSetters
  <2>5. OvForward \cup OvEnumSetters = DOMAIN OvDefault
    BY <2>3, <2>4 DEF OvForward, OvExported, EnumProperties
  <2>6. "id" \notin DOMAIN OvDefault /\ "neverDefault" \notin DOMAIN OvDefault
    BY OvDomains, SMT
  <2>7. OvSecretProperties \subseteq DOMAIN OvDefault
    BY OvDomains, SMT DEF OvSecretProperties
  <2> QED
    BY <1>2, <2>1, <2>2, <2>5, <2>6, <2>7
    DEF AllProperties, VpnProperties, ClientSettable, Writable, Announced, OvReadable,
        OvSettable, VpnForward, OvAnnounced, OvExported, VpnReverse, OvClientSet,
        VpnClientSet, SecretProperties
<1> QED
  BY <1>1, <1>2

-----------------------------------------------------------------------------
(* The entries of text properties are a matter of these properties only.   *)
LEMMA TextsSame ==
    ASSUME NEW d, NEW e, NEW ps, SameOn(ps, d, e)
    PROVE  Texts(d, ps) = Texts(e, ps)
BY DEF Texts, SameOn

(* buildData() reads no secret: the basic properties,                      *)
LEMMA BasicSame ==
    ASSUME NEW d, NEW e, SameOn(DOMAIN OvDefault \ OvSecretProperties, d, e)
    PROVE  OvBuildBasic(d) = OvBuildBasic(e)
<1>1. SameOn({"ca", "cert", "key", "remote", "username", "localIp", "remoteIp", "staticKey",
              "connectionType", "staticKeyDirection"}, d, e)
  BY OvDomains DEF SameOn, OvSecretProperties
<1>2. /\ d.connectionType = e.connectionType /\ d.staticKeyDirection = e.staticKeyDirection
  BY <1>1 DEF SameOn
<1>3. Texts(d, {"ca", "cert", "key", "remote"}) = Texts(e, {"ca", "cert", "key", "remote"})
  BY <1>1, TextsSame DEF SameOn
<1>4. Texts(d, {"ca", "username", "remote"}) = Texts(e, {"ca", "username", "remote"})
  BY <1>1, TextsSame DEF SameOn
<1>5. Texts(d, {"ca", "cert", "key", "username", "remote"}) =
          Texts(e, {"ca", "cert", "key", "username", "remote"})
  BY <1>1, TextsSame DEF SameOn
<1>6. Texts(d, {"ca", "localIp", "remote", "remoteIp", "staticKey"}) =
          Texts(e, {"ca", "localIp", "remote", "remoteIp", "staticKey"})
  BY <1>1, TextsSame DEF SameOn
<1> QED
  BY <1>2, <1>3, <1>4, <1>5, <1>6, Zenon DEF OvBuildBasic

(* the general ones,                                                       *)
LEMMA GeneralSame ==
    ASSUME NEW d, NEW e, SameOn(DOMAIN OvDefault \ OvSecretProperties, d, e)
    PROVE  OvBuildGeneral(d) = OvBuildGeneral(e)
<1> DOMAIN OvGeneral \subseteq DOMAIN OvDefault \ OvSecretProperties
  BY OvDomains, SMT DEF OvSecretProperties
<1>1. \A p \in {"port", "renegSeconds", "tunnelMtu", "fragmentSize"} :
         OvBuildPair(d, p) = OvBuildPair(e, p)
  <2>1. \A p \in {"port", "portSet", "renegSeconds", "renegSecondsSet",
                 "tunnelMtu", "tunnelMtuSet", "fragmentSize", "fragmentSizeSet"} : d[p] = e[p]
    BY OvDomains DEF SameOn
  <2>2. \A p \in {"port", "renegSeconds", "tunnelMtu", "fragmentSize"} :
            OvSwitchOf[p] \in {"portSet", "renegSecondsSet", "tunnelMtuSet", "fragmentSizeSet"}
    BY DEF OvSwitchOf
  <2> QED
    BY <2>1, <2>2 DEF OvBuildPair
<1>2. \A p \in {"compLzo", "protoTcp", "mssFix", "remoteRandom"} :
         OvBuildBool(d, p) = OvBuildBool(e, p)
  BY OvDomains DEF SameOn, OvBuildBool
<1>3. d.devTypeSet = e.devTypeSet /\ d.devType = e.devType /\ d.dev = e.dev
  BY OvDomains DEF SameOn
<1> QED
  BY <1>1, <1>2, <1>3 DEF OvBuildGeneral

(* the security ones,                                                      *)
LEMMA SecuritySame ==
    ASSUME NEW d, NEW e, SameOn(DOMAIN OvDefault \ OvSecretProperties, d, e)
    PROVE  OvBuildSecurity(d) = OvBuildSecurity(e)
<1> DOMAIN OvSecurity \subseteq DOMAIN OvDefault \ OvSecretProperties
  BY OvDomains, SMT DEF OvSecretProperties
<1>1. OvBuildPair(d, "keysize") = OvBuildPair(e, "keysize")
  <2>1. \A p \in {"keysize", "keysizeSet"} : d[p] = e[p]
    BY OvDomains DEF SameOn
  <2>2. OvSwitchOf["keysize"] = "keysizeSet"
    BY DEF OvSwitchOf
  <2> QED
    BY <2>1, <2>2 DEF OvBuildPair
<1>2. d.cipher = e.cipher /\ d.auth = e.auth
  BY OvDomains DEF SameOn
<1> QED
  BY <1>1, <1>2 DEF OvBuildSecurity

(* the TLS ones,                                                           *)
LEMMA TlsSame ==
    ASSUME NEW d, NEW e, SameOn(DOMAIN OvDefault \ OvSecretProperties, d, e)
    PROVE  OvBuildTls(d) = OvBuildTls(e)
<1> /\ DOMAIN OvTls \subseteq DOMAIN OvDefault \ OvSecretProperties
    /\ "connectionType" \in DOMAIN OvDefault \ OvSecretProperties
  BY OvDomains, SMT DEF OvSecretProperties
<1>1. /\ d.tlsRemote = e.tlsRemote /\ d.remoteCertTls = e.remoteCertTls
      /\ d.remoteCertTlsSet = e.remoteCertTlsSet
      /\ d.ta = e.ta /\ d.taDir = e.taDir /\ d.taSet = e.taSet
      /\ d.connectionType = e.connectionType
  BY OvDomains DEF SameOn
<1> QED
  BY <1>1 DEF OvBuildTls

(* the proxy settings.                                                     *)
LEMMA ProxySame ==
    ASSUME NEW d, NEW e, SameOn(DOMAIN OvDefault \ OvSecretProperties, d, e)
    PROVE  OvBuildProxy(d) = OvBuildProxy(e)
<1> {"proxyType", "proxyServer", "proxyPort", "proxyRetry", "proxyUsername"}
       \subseteq DOMAIN OvDefault \ OvSecretProperties
  BY OvDomains, SMT DEF OvSecretProperties
<1>1. /\ d.proxyType = e.proxyType /\ d.proxyServer = e.proxyServer
      /\ d.proxyPort = e.proxyPort /\ d.proxyRetry = e.proxyRetry
      /\ d.proxyUsername = e.proxyUsername
  BY DEF SameOn
<1> QED
  BY <1>1 DEF OvBuildProxy

(* Structs that differ in secrets only are stored as the same data.        *)
LEMMA DataSame ==
    ASSUME NEW k, NEW d, NEW e, SameOn(Properties(k) \ SecretProperties(k), d, e)
    PROVE  BuildData(k, d) = BuildData(k, e)
<1>1. CASE k # "pptp"
  <2>1. SameOn(DOMAIN OvDefault \ OvSecretProperties, d, e)
    BY <1>1 DEF Properties, Default, SecretProperties
  <2> QED
    BY <1>1, <2>1, BasicSame, GeneralSame, SecuritySame, TlsSame, ProxySame
    DEF BuildData, OvBuildData
<1>2. CASE k = "pptp"
  <2>1. SameOn(DOMAIN PptpDefault \ {"password"}, d, e)
    BY <1>2 DEF Properties, Default, SecretProperties, PptpSecretProperties
  <2>2. /\ d.gateway = e.gateway /\ d.user = e.user /\ d.domain = e.domain
        /\ d.requireMppe = e.requireMppe /\ d.allowMschap = e.allowMschap
        /\ d.allowMschapv2 = e.allowMschapv2 /\ d.mppeType = e.mppeType
        /\ d.mppeStateful = e.mppeStateful /\ d.sendPppEchoPackets = e.sendPppEchoPackets
    BY <2>1, PptpDomains DEF SameOn
  <2>3. DOMAIN PptpAntiKey \subseteq DOMAIN PptpDefault \ {"password"}
    BY PptpDomains, SMT DEF PptpAntiKey
  <2>4. PptpRefused(d) = PptpRefused(e)
    BY <2>1, <2>2, <2>3 DEF SameOn, PptpRefused
  <2> QED
    BY <1>2, <2>2, <2>4 DEF BuildData, PptpBuildData
<1> QED
  BY <1>1, <1>2

(* Structs with the same secrets, connection type and proxy type are       *)
(* stored as the same secrets.                                             *)
LEMMA SecretsSame ==
    ASSUME NEW k, NEW d, NEW e, SameOn(SecretProperties(k), d, e),
           k # "pptp" => SameOn(SecretPlaces, d, e)
    PROVE  BuildSecrets(k, d) = BuildSecrets(k, e)
BY DEF SameOn, SecretProperties, OvSecretProperties, PptpSecretProperties, SecretPlaces,
       BuildSecrets, OvBuildSecrets, PptpBuildSecrets

-----------------------------------------------------------------------------
(* The members of the service's objects, of the settings, and their        *)
(* shapes: the functions with just these fields.  The timer runs while     *)
(* something is pending, and typed edits are pending only as part of that. *)
SvcFields == {"settings", "pending", "dirty", "timer", "id", "neverDefault", "data",
              "pendingData", "typedDirty"}
PendFields == {"id", "ipv4", "ipv6", "data", "secrets"}
IsSvc(s) == s = [f \in SvcFields |-> s[f]]
IsSettings(s) == s = [f \in PendFields |-> s[f]]
IsStruct(d) == d = [p \in Properties(kind) |-> d[p]]
IsShape(s) ==
    /\ IsSvc(s) /\ IsSettings(s.settings) /\ IsSettings(s.pending) /\ IsStruct(s.data)
    /\ s.dirty \in BOOLEAN /\ s.timer = s.dirty
    /\ s.typedDirty => s.dirty /\ IsStruct(s.pendingData)

(* What setDirty() leaves: only the first call takes the settings over.    *)
LEMMA DirtyEffect ==
    ASSUME NEW s, IsSvc(s)
    PROVE  LET t == setDirty(s)
           IN  /\ IsSvc(t)
               /\ t.settings = s.settings /\ t.id = s.id /\ t.neverDefault = s.neverDefault
               /\ t.data = s.data /\ t.pendingData = s.pendingData
               /\ t.typedDirty = s.typedDirty
               /\ s.dirty => t = s
               /\ ~s.dirty => t.dirty = TRUE /\ t.timer = TRUE /\ t.pending = s.settings
BY DEF IsSvc, SvcFields, setDirty

(* Data::operator= copies all of the struct.                               *)
LEMMA CopySame ==
    ASSUME NEW d, IsStruct(d)
    PROVE  Copy(kind, d) = d
BY DEF IsStruct, Copy, OvCopy, PptpCopy, Properties, Default

(* The struct an edit starts from, and the struct with the edit.           *)
Base(s) == IF s.typedDirty THEN s.pendingData ELSE Copy(kind, s.data)
Edited(s, p, v) == [Base(s) EXCEPT ![p] = v]

(* An edit starts from a full struct.                                      *)
LEMMA BaseStruct ==
    ASSUME NEW s, IsShape(s)
    PROVE  IsStruct(Base(s))
BY CopySame DEF IsShape, Base

(* The edited struct has the new value, and with an edit pending the       *)
(* values pending for all other properties.                                *)
LEMMA EditedFacts ==
    ASSUME NEW s, IsShape(s), NEW p \in Properties(kind), NEW v
    PROVE  /\ IsStruct(Edited(s, p, v))
           /\ Edited(s, p, v)[p] = v
           /\ \A q : s.typedDirty /\ q # p /\ q \in Properties(kind) =>
                 Edited(s, p, v)[q] = s.pendingData[q]
<1>1. PICK b : b = Base(s)
  OBVIOUS
<1>2. IsStruct(b)
  BY <1>1, BaseStruct
<1>3. s.typedDirty => b = s.pendingData
  BY <1>1 DEF Base
<1>4. Edited(s, p, v) = [b EXCEPT ![p] = v]
  BY <1>1 DEF Edited
<1>5. PICK e : e = [b EXCEPT ![p] = v]
  OBVIOUS
<1>6. IsStruct(e) /\ e[p] = v /\ \A q : q # p /\ q \in Properties(kind) => e[q] = b[q]
  BY <1>2, <1>5 DEF IsStruct
<1> QED
  BY <1>3, <1>4, <1>5, <1>6

(* The members the common part of the typed setters leaves alone.          *)
Untouched == {"settings", "pending", "dirty", "timer", "id", "neverDefault", "data"}

(* What the common part of the typed setters leaves.                       *)
LEMMA PendEffect ==
    ASSUME NEW s, IsSvc(s), NEW p, NEW v
    PROVE  /\ IsSvc(Pend(s, p, v))
           /\ \A f \in Untouched : Pend(s, p, v)[f] = s[f]
           /\ Pend(s, p, v).pendingData = Edited(s, p, v)
           /\ Pend(s, p, v).typedDirty
<1> DEFINE e == [Base(s) EXCEPT ![p] = v]
<1>1. PICK q : q = e
  OBVIOUS
<1>2. Pend(s, p, v) = [s EXCEPT !.pendingData = q, !.typedDirty = TRUE]
  BY <1>1 DEF Pend, Base
<1> HIDE DEF e
<1> QED
  BY <1>1, <1>2 DEF IsSvc, SvcFields, e, Edited, Untouched

(* One pending setting is replaced: all else stays.                        *)
LEMMA PendingEffect ==
    ASSUME NEW s, IsSvc(s), NEW f \in {"data", "secrets", "id", "ipv4", "ipv6"}, NEW v,
           IsSettings(s.pending)
    PROVE  LET t == [s EXCEPT !.pending[f] = v]
           IN  /\ IsSvc(t) /\ IsSettings(t.pending)
               /\ t.settings = s.settings /\ t.id = s.id /\ t.neverDefault = s.neverDefault
               /\ t.data = s.data /\ t.pendingData = s.pendingData
               /\ t.typedDirty = s.typedDirty /\ t.dirty = s.dirty /\ t.timer = s.timer
               /\ t.pending[f] = v
               /\ \A g \in PendFields : g # f => t.pending[g] = s.pending[g]
BY DEF IsSvc, SvcFields, IsSettings, PendFields

(* What a setter that is not refused leaves: of the name, of the route.    *)
LEMMA SetIdEffect ==
    ASSUME NEW s, IsShape(s), NEW v, s.id # v
    PROVE  LET t == setId(s, v)
           IN  /\ IsShape(t) /\ t.dirty
               /\ t.settings = s.settings /\ t.id = s.id /\ t.neverDefault = s.neverDefault
               /\ t.data = s.data /\ t.pendingData = s.pendingData
               /\ t.typedDirty = s.typedDirty
               /\ t.pending.id = v
               /\ \A g \in PendFields : g # "id" =>
                     t.pending[g] = IF s.dirty THEN s.pending[g] ELSE s.settings[g]
<1>1. PICK r : r = setDirty(s)
  OBVIOUS
<1>2. /\ IsSvc(r) /\ IsSettings(r.pending) /\ r.dirty = TRUE /\ r.timer = TRUE
      /\ r.settings = s.settings /\ r.id = s.id /\ r.neverDefault = s.neverDefault
      /\ r.data = s.data /\ r.pendingData = s.pendingData /\ r.typedDirty = s.typedDirty
      /\ r.pending = IF s.dirty THEN s.pending ELSE s.settings
  BY <1>1, DirtyEffect DEF IsShape
<1>3. setId(s, v) = [r EXCEPT !.pending["id"] = v]
  BY <1>1 DEF setId
<1>4. PICK t : t = [r EXCEPT !.pending["id"] = v]
  OBVIOUS
<1>5. /\ IsSvc(t) /\ IsSettings(t.pending)
      /\ t.settings = r.settings /\ t.id = r.id /\ t.neverDefault = r.neverDefault
      /\ t.data = r.data /\ t.pendingData = r.pendingData
      /\ t.typedDirty = r.typedDirty /\ t.dirty = r.dirty /\ t.timer = r.timer
      /\ t.pending.id = v
      /\ \A g \in PendFields : g # "id" => t.pending[g] = r.pending[g]
  BY <1>2, <1>4, PendingEffect
<1> QED
  <2>1. t = setId(s, v)
    BY <1>3, <1>4
  <2>2. IsShape(t)
    BY <1>2, <1>5 DEF IsShape
  <2>3. /\ t.dirty /\ t.settings = s.settings /\ t.id = s.id /\ t.neverDefault = s.neverDefault
        /\ t.data = s.data /\ t.pendingData = s.pendingData /\ t.typedDirty = s.typedDirty
    BY <1>2, <1>5
  <2>4. \A g \in PendFields : r.pending[g] = IF s.dirty THEN s.pending[g] ELSE s.settings[g]
    BY <1>2
  <2> QED
    BY <1>5, <2>1, <2>2, <2>3, <2>4

(* The route is set for both address families.                             *)
LEMMA SetNeverDefaultEffect ==
    ASSUME NEW s, IsShape(s), NEW v, s.neverDefault # v
    PROVE  LET t == setNeverDefault(s, v)
           IN  /\ IsShape(t) /\ t.dirty
               /\ t.settings = s.settings /\ t.id = s.id /\ t.neverDefault = s.neverDefault
               /\ t.data = s.data /\ t.pendingData = s.pendingData
               /\ t.typedDirty = s.typedDirty
               /\ t.pending.ipv4 = v /\ t.pending.ipv6 = v
               /\ \A g \in PendFields : g \notin {"ipv4", "ipv6"} =>
                     t.pending[g] = IF s.dirty THEN s.pending[g] ELSE s.settings[g]
<1>1. PICK r : r = setDirty(s)
  OBVIOUS
<1>2. /\ IsSvc(r) /\ IsSettings(r.pending) /\ r.dirty = TRUE /\ r.timer = TRUE
      /\ r.settings = s.settings /\ r.id = s.id /\ r.neverDefault = s.neverDefault
      /\ r.data = s.data /\ r.pendingData = s.pendingData /\ r.typedDirty = s.typedDirty
      /\ r.pending = IF s.dirty THEN s.pending ELSE s.settings
  BY <1>1, DirtyEffect DEF IsShape
<1>3. setNeverDefault(s, v) = [r EXCEPT !.pending.ipv4 = v, !.pending.ipv6 = v]
  BY <1>1 DEF setNeverDefault
<1>4. PICK t : t = [r EXCEPT !.pending.ipv4 = v, !.pending.ipv6 = v]
  OBVIOUS
<1>5. /\ IsSvc(t) /\ IsSettings(t.pending)
      /\ t.settings = r.settings /\ t.id = r.id /\ t.neverDefault = r.neverDefault
      /\ t.data = r.data /\ t.pendingData = r.pendingData
      /\ t.typedDirty = r.typedDirty /\ t.dirty = r.dirty /\ t.timer = r.timer
      /\ t.pending.ipv4 = v /\ t.pending.ipv6 = v
      /\ \A g \in PendFields : g \notin {"ipv4", "ipv6"} => t.pending[g] = r.pending[g]
  BY <1>2, <1>4 DEF IsSvc, SvcFields, IsSettings, PendFields
<1> QED
  <2>1. t = setNeverDefault(s, v)
    BY <1>3, <1>4
  <2>2. IsShape(t)
    BY <1>2, <1>5 DEF IsShape
  <2>3. /\ t.dirty /\ t.settings = s.settings /\ t.id = s.id /\ t.neverDefault = s.neverDefault
        /\ t.data = s.data /\ t.pendingData = s.pendingData /\ t.typedDirty = s.typedDirty
    BY <1>2, <1>5
  <2>4. \A g \in PendFields : r.pending[g] = IF s.dirty THEN s.pending[g] ELSE s.settings[g]
    BY <1>2
  <2> QED
    BY <1>5, <2>1, <2>2, <2>3, <2>4

(* A typed property that is no secret: the pending data is built from the  *)
(* pending struct.                                                         *)
LEMMA SetDataEffect ==
    ASSUME NEW s, IsShape(s), NEW p \in Properties(kind), NEW v, s.data[p] # v
    PROVE  LET t == setData(s, p, v)
           IN  /\ IsShape(t) /\ t.dirty /\ t.typedDirty
               /\ t.settings = s.settings /\ t.id = s.id /\ t.neverDefault = s.neverDefault
               /\ t.data = s.data /\ t.pendingData = Edited(s, p, v)
               /\ t.pending.data = BuildData(kind, t.pendingData)
               /\ \A g \in PendFields : g # "data" =>
                     t.pending[g] = IF s.dirty THEN s.pending[g] ELSE s.settings[g]
<1>0. PICK q : q = Pend(s, p, v)
  OBVIOUS
<1>1. PICK r : r = setDirty(q)
  OBVIOUS
<1>2. /\ IsSvc(q)
      /\ q.settings = s.settings /\ q.id = s.id /\ q.neverDefault = s.neverDefault
      /\ q.data = s.data /\ q.pending = s.pending
      /\ q.dirty = s.dirty /\ q.timer = s.timer
      /\ q.pendingData = Edited(s, p, v)
      /\ q.typedDirty
  <2>1. IsSvc(s)
    BY DEF IsShape
  <2>4. \A f \in Untouched : Pend(s, p, v)[f] = s[f]
    BY <2>1, PendEffect
  <2>5. /\ IsSvc(Pend(s, p, v)) /\ Pend(s, p, v).pendingData = Edited(s, p, v)
        /\ Pend(s, p, v).typedDirty
    BY <2>1, PendEffect
  <2>2. \A f \in Untouched : q[f] = s[f]
    BY <1>0, <2>4
  <2>3. IsSvc(q) /\ q.pendingData = Edited(s, p, v) /\ q.typedDirty
    BY <1>0, <2>5
  <2> QED
    BY <2>2, <2>3 DEF Untouched
<1>3. /\ IsSvc(r) /\ IsSettings(r.pending) /\ r.dirty = TRUE /\ r.timer = TRUE
      /\ r.settings = s.settings /\ r.id = s.id /\ r.neverDefault = s.neverDefault
      /\ r.data = s.data /\ r.pendingData = Edited(s, p, v) /\ r.typedDirty
      /\ r.pending = IF s.dirty THEN s.pending ELSE s.settings
  <2>1. IsSettings(s.settings) /\ IsSettings(s.pending) /\ s.dirty \in BOOLEAN /\ s.timer = s.dirty
    BY DEF IsShape
  <2>2. /\ IsSvc(r)
        /\ r.settings = s.settings /\ r.id = s.id /\ r.neverDefault = s.neverDefault
        /\ r.data = s.data /\ r.pendingData = Edited(s, p, v) /\ r.typedDirty
        /\ s.dirty => r = q
        /\ ~s.dirty => r.dirty = TRUE /\ r.timer = TRUE /\ r.pending = s.settings
    <3>1. /\ IsSvc(r)
          /\ r.settings = q.settings /\ r.id = q.id /\ r.neverDefault = q.neverDefault
          /\ r.data = q.data /\ r.pendingData = q.pendingData /\ r.typedDirty = q.typedDirty
          /\ q.dirty => r = q
          /\ ~q.dirty => r.dirty = TRUE /\ r.timer = TRUE /\ r.pending = q.settings
      BY <1>1, <1>2 DEF IsSvc, SvcFields, setDirty
    <3> QED
      BY <1>2, <3>1
  <2>3. CASE s.dirty
    BY <1>2, <2>1, <2>2, <2>3
  <2>4. CASE ~s.dirty
    BY <2>1, <2>2, <2>4
  <2> QED
    BY <2>1, <2>3, <2>4
<1>6. PICK w : w = BuildData(kind, r.pendingData)
  OBVIOUS
<1>7. setData(s, p, v) = [r EXCEPT !.pending["data"] = w]
  BY <1>0, <1>1, <1>6 DEF setData
<1>4. PICK t : t = [r EXCEPT !.pending["data"] = w]
  OBVIOUS
<1>5. /\ IsSvc(t) /\ IsSettings(t.pending)
      /\ t.settings = r.settings /\ t.id = r.id /\ t.neverDefault = r.neverDefault
      /\ t.data = r.data /\ t.pendingData = r.pendingData
      /\ t.typedDirty = r.typedDirty /\ t.dirty = r.dirty /\ t.timer = r.timer
      /\ t.pending["data"] = w
      /\ \A g \in PendFields : g # "data" => t.pending[g] = r.pending[g]
  <2>1. IsSvc(r) /\ IsSettings(r.pending)
    BY <1>3
  <2> QED
    BY <1>4, <2>1 DEF IsSvc, SvcFields, IsSettings, PendFields
<1>8. IsStruct(t.pendingData)
  BY <1>3, <1>5, EditedFacts
<1>9. t.pending.data = BuildData(kind, t.pendingData)
  BY <1>5, <1>6
<1>10. IsShape(t)
  <2>1. IsSvc(t) /\ IsSettings(t.pending) /\ IsSettings(t.settings) /\ IsStruct(t.data)
    BY <1>3, <1>5 DEF IsShape
  <2>2. t.dirty \in BOOLEAN /\ t.timer = t.dirty /\ t.dirty
    BY <1>3, <1>5
  <2> QED
    BY <1>8, <2>1, <2>2 DEF IsShape
<1>11. \A g \in PendFields : g # "data" =>
          t.pending[g] = IF s.dirty THEN s.pending[g] ELSE s.settings[g]
  BY <1>3, <1>5
<1>12. t = setData(s, p, v)
  BY <1>4, <1>7
<1> QED
  BY <1>3, <1>5, <1>9, <1>10, <1>11, <1>12

(* A secret: the pending secrets are built from the pending struct.        *)
LEMMA SetSecretEffect ==
    ASSUME NEW s, IsShape(s), NEW p \in Properties(kind), NEW v, s.data[p] # v
    PROVE  LET t == setSecret(s, p, v)
           IN  /\ IsShape(t) /\ t.dirty /\ t.typedDirty
               /\ t.settings = s.settings /\ t.id = s.id /\ t.neverDefault = s.neverDefault
               /\ t.data = s.data /\ t.pendingData = Edited(s, p, v)
               /\ t.pending.secrets = BuildSecrets(kind, t.pendingData)
               /\ \A g \in PendFields : g # "secrets" =>
                     t.pending[g] = IF s.dirty THEN s.pending[g] ELSE s.settings[g]
<1>0. PICK q : q = Pend(s, p, v)
  OBVIOUS
<1>1. PICK r : r = setDirty(q)
  OBVIOUS
<1>2. /\ IsSvc(q)
      /\ q.settings = s.settings /\ q.id = s.id /\ q.neverDefault = s.neverDefault
      /\ q.data = s.data /\ q.pending = s.pending
      /\ q.dirty = s.dirty /\ q.timer = s.timer
      /\ q.pendingData = Edited(s, p, v)
      /\ q.typedDirty
  <2>1. IsSvc(s)
    BY DEF IsShape
  <2>4. \A f \in Untouched : Pend(s, p, v)[f] = s[f]
    BY <2>1, PendEffect
  <2>5. /\ IsSvc(Pend(s, p, v)) /\ Pend(s, p, v).pendingData = Edited(s, p, v)
        /\ Pend(s, p, v).typedDirty
    BY <2>1, PendEffect
  <2>2. \A f \in Untouched : q[f] = s[f]
    BY <1>0, <2>4
  <2>3. IsSvc(q) /\ q.pendingData = Edited(s, p, v) /\ q.typedDirty
    BY <1>0, <2>5
  <2> QED
    BY <2>2, <2>3 DEF Untouched
<1>3. /\ IsSvc(r) /\ IsSettings(r.pending) /\ r.dirty = TRUE /\ r.timer = TRUE
      /\ r.settings = s.settings /\ r.id = s.id /\ r.neverDefault = s.neverDefault
      /\ r.data = s.data /\ r.pendingData = Edited(s, p, v) /\ r.typedDirty
      /\ r.pending = IF s.dirty THEN s.pending ELSE s.settings
  <2>1. IsSettings(s.settings) /\ IsSettings(s.pending) /\ s.dirty \in BOOLEAN /\ s.timer = s.dirty
    BY DEF IsShape
  <2>2. /\ IsSvc(r)
        /\ r.settings = s.settings /\ r.id = s.id /\ r.neverDefault = s.neverDefault
        /\ r.data = s.data /\ r.pendingData = Edited(s, p, v) /\ r.typedDirty
        /\ s.dirty => r = q
        /\ ~s.dirty => r.dirty = TRUE /\ r.timer = TRUE /\ r.pending = s.settings
    <3>1. /\ IsSvc(r)
          /\ r.settings = q.settings /\ r.id = q.id /\ r.neverDefault = q.neverDefault
          /\ r.data = q.data /\ r.pendingData = q.pendingData /\ r.typedDirty = q.typedDirty
          /\ q.dirty => r = q
          /\ ~q.dirty => r.dirty = TRUE /\ r.timer = TRUE /\ r.pending = q.settings
      BY <1>1, <1>2 DEF IsSvc, SvcFields, setDirty
    <3> QED
      BY <1>2, <3>1
  <2>3. CASE s.dirty
    BY <1>2, <2>1, <2>2, <2>3
  <2>4. CASE ~s.dirty
    BY <2>1, <2>2, <2>4
  <2> QED
    BY <2>1, <2>3, <2>4
<1>6. PICK w : w = BuildSecrets(kind, r.pendingData)
  OBVIOUS
<1>7. setSecret(s, p, v) = [r EXCEPT !.pending["secrets"] = w]
  BY <1>0, <1>1, <1>6 DEF setSecret
<1>4. PICK t : t = [r EXCEPT !.pending["secrets"] = w]
  OBVIOUS
<1>5. /\ IsSvc(t) /\ IsSettings(t.pending)
      /\ t.settings = r.settings /\ t.id = r.id /\ t.neverDefault = r.neverDefault
      /\ t.data = r.data /\ t.pendingData = r.pendingData
      /\ t.typedDirty = r.typedDirty /\ t.dirty = r.dirty /\ t.timer = r.timer
      /\ t.pending["secrets"] = w
      /\ \A g \in PendFields : g # "secrets" => t.pending[g] = r.pending[g]
  <2>1. IsSvc(r) /\ IsSettings(r.pending)
    BY <1>3
  <2> QED
    BY <1>4, <2>1 DEF IsSvc, SvcFields, IsSettings, PendFields
<1>8. IsStruct(t.pendingData)
  BY <1>3, <1>5, EditedFacts
<1>9. t.pending.secrets = BuildSecrets(kind, t.pendingData)
  BY <1>5, <1>6
<1>10. IsShape(t)
  <2>1. IsSvc(t) /\ IsSettings(t.pending) /\ IsSettings(t.settings) /\ IsStruct(t.data)
    BY <1>3, <1>5 DEF IsShape
  <2>2. t.dirty \in BOOLEAN /\ t.timer = t.dirty /\ t.dirty
    BY <1>3, <1>5
  <2> QED
    BY <1>8, <2>1, <2>2 DEF IsShape
<1>11. \A g \in PendFields : g # "secrets" =>
          t.pending[g] = IF s.dirty THEN s.pending[g] ELSE s.settings[g]
  BY <1>3, <1>5
<1>12. t = setSecret(s, p, v)
  BY <1>4, <1>7
<1> QED
  BY <1>3, <1>5, <1>9, <1>10, <1>11, <1>12

-----------------------------------------------------------------------------
(* What makes WindowKept inductive: the edits w of the window are in the   *)
(* pending settings and in the pending struct, and the pending data and    *)
(* secrets are built from that struct as soon as an edit in them is        *)
(* counted.                                                                *)
KeptIn(s, w) ==
    /\ DOMAIN w \subseteq AllProperties
    /\ DOMAIN w # {} => s.dirty
    /\ "id" \in DOMAIN w => s.pending.id = w["id"]
    /\ "neverDefault" \in DOMAIN w => s.pending.ipv4 = w["neverDefault"]
    /\ \A p \in DOMAIN w \ VpnProperties : s.typedDirty /\ s.pendingData[p] = w[p]
    /\ DOMAIN w \ (VpnProperties \cup SecretProperties(kind)) # {} =>
          s.pending.data = BuildData(kind, s.pendingData)
    /\ DOMAIN w \cap SecretProperties(kind) # {} =>
          s.pending.secrets = BuildSecrets(kind, s.pendingData)

(* The history with one edit more: the other edits that still count are    *)
(* the old ones.                                                           *)
LEMMA WithEditFacts ==
    ASSUME NEW w, NEW p, NEW v
    PROVE  /\ p \in DOMAIN WithEdit(w, p, v)
           /\ WithEdit(w, p, v)[p] = v
           /\ \A q \in DOMAIN WithEdit(w, p, v) :
                 q # p => q \in DOMAIN w /\ WithEdit(w, p, v)[q] = w[q]
           /\ \A q \in DOMAIN WithEdit(w, p, v) :
                 q # p /\ q \in SecretProperties(kind) => p \notin SecretPlaces
BY DEF WithEdit

(* The setter of the name keeps the window's edits and adds its own;       *)
LEMMA IdKept ==
    ASSUME NEW s, IsShape(s), NEW w, KeptIn(s, w), NEW v, s.id # v
    PROVE  KeptIn(setId(s, v), WithEdit(w, "id", v))
<1>1. PICK t : t = setId(s, v)
  OBVIOUS
<1>2. PICK x : x = WithEdit(w, "id", v)
  OBVIOUS
<1>3. /\ t.dirty /\ t.pendingData = s.pendingData /\ t.typedDirty = s.typedDirty
      /\ t.pending.id = v
      /\ s.dirty => /\ t.pending.ipv4 = s.pending.ipv4
                    /\ t.pending.data = s.pending.data
                    /\ t.pending.secrets = s.pending.secrets
  BY <1>1, SetIdEffect, SMT DEF PendFields
<1>4. /\ "id" \in DOMAIN x /\ x["id"] = v
      /\ \A q \in DOMAIN x : q # "id" => q \in DOMAIN w /\ x[q] = w[q]
  BY <1>2, WithEditFacts
<1>5. "id" \in VpnProperties /\ "id" \notin SecretProperties(kind) /\ "id" \in AllProperties
  BY Tables DEF VpnProperties

<1>6. KeptIn(t, x)
  BY <1>3, <1>4, <1>5 DEF KeptIn
<1> QED
  BY <1>1, <1>2, <1>6

(* so does the setter of the route,                                        *)
LEMMA NeverDefaultKept ==
    ASSUME NEW s, IsShape(s), NEW w, KeptIn(s, w), NEW v, s.neverDefault # v
    PROVE  KeptIn(setNeverDefault(s, v), WithEdit(w, "neverDefault", v))
<1>1. PICK t : t = setNeverDefault(s, v)
  OBVIOUS
<1>2. PICK x : x = WithEdit(w, "neverDefault", v)
  OBVIOUS
<1>3. /\ t.dirty /\ t.pendingData = s.pendingData /\ t.typedDirty = s.typedDirty
      /\ t.pending.ipv4 = v
      /\ s.dirty => /\ t.pending.id = s.pending.id
                    /\ t.pending.data = s.pending.data
                    /\ t.pending.secrets = s.pending.secrets
  BY <1>1, SetNeverDefaultEffect, SMT DEF PendFields
<1>4. /\ "neverDefault" \in DOMAIN x /\ x["neverDefault"] = v
      /\ \A q \in DOMAIN x : q # "neverDefault" => q \in DOMAIN w /\ x[q] = w[q]
  BY <1>2, WithEditFacts
<1>5. /\ "neverDefault" \in VpnProperties /\ "neverDefault" \notin SecretProperties(kind)
      /\ "neverDefault" \in AllProperties
  BY Tables DEF VpnProperties
<1>6. KeptIn(t, x)
  BY <1>3, <1>4, <1>5 DEF KeptIn
<1> QED
  BY <1>1, <1>2, <1>6

(* so does the setter of a property that is no secret: a secret set before *)
(* it counts on only when the edit leaves the keys of secrets alone,       *)
LEMMA DataKept ==
    ASSUME NEW s, IsShape(s), NEW w, KeptIn(s, w), NEW v,
           NEW p \in Properties(kind) \ SecretProperties(kind), s.data[p] # v
    PROVE  KeptIn(setData(s, p, v), WithEdit(w, p, v))
<1>1. PICK t : t = setData(s, p, v)
  OBVIOUS
<1>2. PICK x : x = WithEdit(w, p, v)
  OBVIOUS
<1>3. /\ t.dirty /\ t.typedDirty /\ t.pendingData = Edited(s, p, v)
      /\ t.pending.data = BuildData(kind, t.pendingData)
      /\ s.dirty => /\ t.pending.id = s.pending.id
                    /\ t.pending.ipv4 = s.pending.ipv4
                    /\ t.pending.secrets = s.pending.secrets
  BY <1>1, SetDataEffect, SMT DEF PendFields
<1>4. /\ p \in DOMAIN x /\ x[p] = v
      /\ \A q \in DOMAIN x : q # p => q \in DOMAIN w /\ x[q] = w[q]
      /\ \A q \in DOMAIN x : q # p /\ q \in SecretProperties(kind) => p \notin SecretPlaces
  BY <1>2, WithEditFacts
<1>5. /\ p \notin VpnProperties /\ p \in AllProperties
      /\ AllProperties = VpnProperties \cup Properties(kind)
      /\ SecretProperties(kind) \subseteq Properties(kind)
      /\ Properties(kind) \cap VpnProperties = {}
  BY Tables
<1>6. /\ t.pendingData[p] = v
      /\ \A q : s.typedDirty /\ q # p /\ q \in Properties(kind) =>
            t.pendingData[q] = s.pendingData[q]
  BY <1>3, EditedFacts
<1>7. \A q \in DOMAIN x \ VpnProperties : t.typedDirty /\ t.pendingData[q] = x[q]
  BY <1>3, <1>4, <1>5, <1>6 DEF KeptIn
<1>8. ASSUME DOMAIN x \cap SecretProperties(kind) # {}
      PROVE  t.pending.secrets = BuildSecrets(kind, t.pendingData)
  <2>1. PICK q \in DOMAIN x : q \in SecretProperties(kind)
    BY <1>8
  <2>2. q \in DOMAIN w /\ q # p /\ p \notin SecretPlaces
    BY <1>4, <2>1
  <2>3. s.dirty /\ s.typedDirty /\ s.pending.secrets = BuildSecrets(kind, s.pendingData)
    BY <2>1, <2>2, <1>5 DEF KeptIn
  <2>4. SameOn(SecretProperties(kind), s.pendingData, t.pendingData)
    BY <1>5, <1>6, <2>3 DEF SameOn
  <2>5. kind # "pptp" => SecretPlaces \subseteq Properties(kind)
    BY OvDomains, SMT DEF SecretPlaces, Properties, Default
  <2>6. kind # "pptp" => SameOn(SecretPlaces, s.pendingData, t.pendingData)
    BY <2>2, <2>3, <2>5, <1>6 DEF SameOn
  <2> QED
    BY <1>3, <2>3, <2>4, <2>6, SecretsSame
<1>9. /\ DOMAIN x \subseteq AllProperties
      /\ "id" \in DOMAIN x => t.pending.id = x["id"]
      /\ "neverDefault" \in DOMAIN x => t.pending.ipv4 = x["neverDefault"]
  BY <1>3, <1>4, <1>5 DEF KeptIn, VpnProperties
<1>10. KeptIn(t, x)
  BY <1>3, <1>7, <1>8, <1>9 DEF KeptIn
<1> QED
  BY <1>1, <1>2, <1>10

(* and so does the setter of a secret, which leaves the pending data       *)
(* alone.                                                                  *)
LEMMA SecretKept ==
    ASSUME NEW s, IsShape(s), NEW w, KeptIn(s, w), NEW v,
           NEW p \in SecretProperties(kind), s.data[p] # v
    PROVE  KeptIn(setSecret(s, p, v), WithEdit(w, p, v))
<1>5. /\ p \notin VpnProperties /\ p \in AllProperties /\ p \in Properties(kind)
      /\ AllProperties = VpnProperties \cup Properties(kind)
      /\ SecretProperties(kind) \subseteq Properties(kind)
      /\ Properties(kind) \cap VpnProperties = {}
  BY Tables
<1>1. PICK t : t = setSecret(s, p, v)
  OBVIOUS
<1>2. PICK x : x = WithEdit(w, p, v)
  OBVIOUS
<1>3. /\ t.dirty /\ t.typedDirty /\ t.pendingData = Edited(s, p, v)
      /\ t.pending.secrets = BuildSecrets(kind, t.pendingData)
      /\ s.dirty => /\ t.pending.id = s.pending.id
                    /\ t.pending.ipv4 = s.pending.ipv4
                    /\ t.pending.data = s.pending.data
  BY <1>1, <1>5, SetSecretEffect, SMT DEF PendFields
<1>4. /\ p \in DOMAIN x /\ x[p] = v
      /\ \A q \in DOMAIN x : q # p => q \in DOMAIN w /\ x[q] = w[q]
  BY <1>2, WithEditFacts
<1>6. /\ t.pendingData[p] = v
      /\ \A q : s.typedDirty /\ q # p /\ q \in Properties(kind) =>
            t.pendingData[q] = s.pendingData[q]
  BY <1>3, <1>5, EditedFacts
<1>7. \A q \in DOMAIN x \ VpnProperties : t.typedDirty /\ t.pendingData[q] = x[q]
  BY <1>3, <1>4, <1>5, <1>6 DEF KeptIn
<1>8. ASSUME DOMAIN x \ (VpnProperties \cup SecretProperties(kind)) # {}
      PROVE  t.pending.data = BuildData(kind, t.pendingData)
  <2>1. PICK q \in DOMAIN x : q \notin VpnProperties /\ q \notin SecretProperties(kind)
    BY <1>8
  <2>2. q \in DOMAIN w /\ q # p
    BY <1>4, <2>1
  <2>3. s.dirty /\ s.typedDirty /\ s.pending.data = BuildData(kind, s.pendingData)
    BY <2>1, <2>2, <1>5 DEF KeptIn
  <2>4. SameOn(Properties(kind) \ SecretProperties(kind), s.pendingData, t.pendingData)
    BY <1>5, <1>6, <2>3 DEF SameOn
  <2> QED
    BY <1>3, <2>3, <2>4, DataSame
<1>9. /\ DOMAIN x \subseteq AllProperties
      /\ "id" \in DOMAIN x => t.pending.id = x["id"]
      /\ "neverDefault" \in DOMAIN x => t.pending.ipv4 = x["neverDefault"]
  BY <1>3, <1>4, <1>5 DEF KeptIn, VpnProperties
<1>10. KeptIn(t, x)
  BY <1>3, <1>7, <1>8, <1>9 DEF KeptIn
<1> QED
  BY <1>1, <1>2, <1>10

(* A setter with one value of the 200 ms window in each state it can meet. *)
LEMMA SetterEffect ==
    ASSUME NEW s, IsShape(s), NEW w, KeptIn(s, w), NEW p \in AllProperties, NEW v,
           NEW t, t = setProperty(s, p, v)
    PROVE  /\ IsShape(t)
           /\ t.settings = s.settings /\ t.id = s.id /\ t.neverDefault = s.neverDefault
           /\ t.data = s.data
           /\ t # s => KeptIn(t, WithEdit(w, p, v))
<1>1. CASE p = "id"
  <2>1. t = setId(s, v)
    <3>1. p # "neverDefault" /\ p \notin SecretProperties(kind)
      BY <1>1, Tables DEF VpnProperties
    <3> QED
      BY <1>1, <3>1, Zenon DEF setProperty
  <2>2. CASE s.id = v
    <3>1. t = s
      BY <2>1, <2>2 DEF setId
    <3> QED
      BY <3>1
  <2>3. CASE s.id # v
    BY <1>1, <2>1, <2>3, SetIdEffect, IdKept
  <2> QED
    BY <2>2, <2>3
<1>2. CASE p = "neverDefault"
  <2>1. t = setNeverDefault(s, v)
    <3>1. p # "id" /\ p \notin SecretProperties(kind)
      BY <1>2, Tables DEF VpnProperties
    <3> QED
      BY <1>2, <3>1, Zenon DEF setProperty
  <2>2. CASE s.neverDefault = v
    <3>1. t = s
      BY <2>1, <2>2 DEF setNeverDefault
    <3> QED
      BY <3>1
  <2>3. CASE s.neverDefault # v
    BY <1>2, <2>1, <2>3, SetNeverDefaultEffect, NeverDefaultKept
  <2> QED
    BY <2>2, <2>3
<1>3. CASE p \in SecretProperties(kind)
  <2>0. p # "id" /\ p # "neverDefault" /\ p \in Properties(kind)
    BY <1>3, Tables DEF VpnProperties
  <2>1. t = setSecret(s, p, v)
    BY <1>3, <2>0, Zenon DEF setProperty
  <2>2. CASE s.data[p] = v
    <3>1. t = s
      BY <2>1, <2>2 DEF setSecret
    <3> QED
      BY <3>1
  <2>3. CASE s.data[p] # v
    <3>1. /\ IsShape(setSecret(s, p, v))
          /\ setSecret(s, p, v).settings = s.settings /\ setSecret(s, p, v).id = s.id
          /\ setSecret(s, p, v).neverDefault = s.neverDefault
          /\ setSecret(s, p, v).data = s.data
      BY <2>0, <2>3, SetSecretEffect
    <3>2. KeptIn(setSecret(s, p, v), WithEdit(w, p, v))
      BY <1>3, <2>3, SecretKept
    <3> QED
      BY <2>1, <3>1, <3>2
  <2> QED
    BY <2>2, <2>3
<1>4. CASE p \notin SecretProperties(kind) /\ p # "id" /\ p # "neverDefault"
  <2>0. p \in Properties(kind) \ SecretProperties(kind)
    BY <1>4, Tables DEF VpnProperties
  <2>1. t = setData(s, p, v)
    BY <1>4, Zenon DEF setProperty
  <2>2. CASE s.data[p] = v
    <3>1. t = s
      BY <2>1, <2>2 DEF setData
    <3> QED
      BY <3>1
  <2>3. CASE s.data[p] # v
    <3>1. /\ IsShape(setData(s, p, v))
          /\ setData(s, p, v).settings = s.settings /\ setData(s, p, v).id = s.id
          /\ setData(s, p, v).neverDefault = s.neverDefault
          /\ setData(s, p, v).data = s.data
      BY <2>0, <2>3, SetDataEffect
    <3>2. KeptIn(setData(s, p, v), WithEdit(w, p, v))
      BY <2>0, <2>3, DataKept
    <3> QED
      BY <2>1, <3>1, <3>2
  <2> QED
    BY <2>2, <2>3
<1> QED
  BY <1>1, <1>2, <1>3, <1>4

(* Reading settings or secrets leaves a full struct.                       *)
LEMMA UpdateStruct ==
    ASSUME NEW x, IsStruct(x), NEW m
    PROVE  IsStruct(UpdateData(kind, x, m)) /\ IsStruct(UpdateSecrets(kind, x, m))
<1>1. DOMAIN x = Properties(kind)
  BY DEF IsStruct
<1>2. IsStruct(UpdateData(kind, x, m))
  BY <1>1 DEF IsStruct, UpdateData, OvUpdateData, PptpUpdateData
<1>3. PICK v : v = OvReadProxyPassword(x.proxyType, m, x.proxyPassword)
  OBVIOUS
<1>4. OvUpdateSecrets(x, m) = [x EXCEPT !.certPass = Value(m, "cert-pass"),
                                        !.password = Value(m, "password"),
                                        !.proxyPassword = v]
  BY <1>3 DEF OvUpdateSecrets
<1>5. IsStruct(UpdateSecrets(kind, x, m))
  BY <1>4 DEF IsStruct, UpdateSecrets, PptpUpdateSecrets
<1> QED
  BY <1>2, <1>5

(* The inductive invariant of WindowKept.                                  *)
SvcInv == IsShape(svc) /\ KeptIn(svc, window)

(* What GetSettings() returns has the shape of settings.                   *)
LEMMA SettingsShape ==
    ASSUME NEW n
    PROVE  IsSettings(SettingsOf(n))
BY DEF IsSettings, PendFields, SettingsOf

(* The defaults are a full struct.                                         *)
LEMMA DefaultStruct == IsStruct(Default(kind))
<1>1. PptpDefault = [p \in DOMAIN PptpDefault |-> PptpDefault[p]]
  BY DEF PptpDefault
<1>2. OvDefault = [p \in DOMAIN OvDefault |-> OvDefault[p]]
  <2>1. PICK g : g = Over(OvGeneral, Over(OvSecurity, Over(OvTls, OvProxy)))
    OBVIOUS
  <2>2. OvDefault = Over(OvBasic, g)
    BY <2>1 DEF OvDefault
  <2> QED
    BY <2>2 DEF Over
<1> QED
  BY <1>1, <1>2 DEF IsStruct, Properties, Default

(* The constructors establish SvcInv.                                      *)
LEMMA InitSvc ==
    ASSUME Init
    PROVE  SvcInv
<1>1. PICK x : x = UpdateData(kind, Default(kind), nm.data)
  OBVIOUS
<1>2. IsStruct(x)
  BY <1>1, DefaultStruct, UpdateStruct
<1>3. PICK g : g = SettingsOf(nm)
  OBVIOUS
<1>4. IsSettings(g)
  BY <1>3, SettingsShape
<1>5. PICK y : y = Default(kind)
  OBVIOUS
<1>6. svc = [settings |-> g, pending |-> g, dirty |-> FALSE, timer |-> FALSE, id |-> nm.id,
             neverDefault |-> nm.ipv4, data |-> x, pendingData |-> y, typedDirty |-> FALSE]
  BY <1>1, <1>3, <1>5 DEF Init
<1>7. IsShape(svc)
  BY <1>2, <1>4, <1>6 DEF IsShape, IsSvc, SvcFields
<1>8. DOMAIN window = {}
  BY DEF Init, NoKeys
<1> QED
  BY <1>7, <1>8 DEF SvcInv, KeptIn

(* Every step keeps SvcInv: a setter collects its edit, a dispatch ends    *)
(* the window, and what arrives from NetworkManager does not touch the     *)
(* pending settings.                                                       *)
LEMMA SvcStep ==
    ASSUME SvcInv, [Next]_vars
    PROVE  SvcInv'
<1> USE DEF SvcInv
<1>0. kind' = kind
  BY DEF Next, vars, UserSet, UserUpdateSecrets, HandleSet, HandleUpdateSecrets,
         DispatchPendingSettings, SettingsUpdated, FlushPropertyChanges, PropertiesChanged,
         ForeignEdit, Remove
<1> DEFINE Still == svc' = svc /\ window' = window
<1>1. ASSUME Still
      PROVE  SvcInv'
  BY <1>0, <1>1 DEF IsShape, IsSvc, IsSettings, IsStruct, KeptIn, AllProperties
<1>2. CASE UNCHANGED vars
  BY <1>1, <1>2 DEF vars
<1>3. ASSUME NEW e \in Edits[kind], UserSet(e[1], e[2])
      PROVE  SvcInv'
  BY <1>1, <1>3 DEF UserSet
<1>4. CASE UserUpdateSecrets
  BY <1>1, <1>4 DEF UserUpdateSecrets
<1>5. CASE HandleSet
  <2>1. PICK p, v : /\ p = Head(calls).property
                    /\ v = Enumerator(EnumOf, p, Head(calls).value)
    OBVIOUS
  <2>2. /\ svc' = IF p \in Writable THEN setProperty(svc, p, v) ELSE svc
        /\ window' = IF svc' # svc THEN WithEdit(window, p, v) ELSE window
    BY <1>5, <2>1 DEF HandleSet
  <2>3. CASE svc' = svc
    BY <1>1, <2>2, <2>3
  <2>4. CASE svc' # svc
    <3>1. p \in AllProperties /\ svc' = setProperty(svc, p, v)
      BY <2>2, <2>4, Tables
    <3>2. PICK t : t = setProperty(svc, p, v)
      OBVIOUS
    <3>3. PICK w : w = WithEdit(window, p, v)
      OBVIOUS
    <3>4. IsShape(t) /\ KeptIn(t, w)
      BY <2>4, <3>1, <3>2, <3>3, SetterEffect
    <3>5. svc' = t /\ window' = w
      BY <2>2, <2>4, <3>1, <3>2, <3>3
    <3> QED
      BY <1>0, <3>4, <3>5 DEF IsShape, IsSvc, IsSettings, IsStruct, KeptIn, AllProperties
  <2> QED
    BY <2>3, <2>4
<1>6. ASSUME NEW ok \in BOOLEAN, HandleUpdateSecrets(ok)
      PROVE  SvcInv'
  <2>1. window' = window
    BY <1>6 DEF HandleUpdateSecrets
  <2>2. CASE ~ok
    BY <1>1, <1>6, <2>1, <2>2 DEF HandleUpdateSecrets
  <2>3. CASE ok
    <3>1. PICK x : x = UpdateSecrets(kind, svc.data, nm.secrets)
      OBVIOUS
    <3>2. svc' = [svc EXCEPT !.data = x]
      BY <1>6, <2>3, <3>1 DEF HandleUpdateSecrets
    <3>3. IsStruct(x)
      BY <3>1, UpdateStruct DEF IsShape
    <3>4. PICK t : t = [svc EXCEPT !.data = x]
      OBVIOUS
    <3>5. IsShape(t) /\ KeptIn(t, window)
      BY <3>3, <3>4 DEF IsShape, IsSvc, SvcFields, KeptIn
    <3> QED
      BY <1>0, <2>1, <3>2, <3>4, <3>5
      DEF IsShape, IsSvc, IsSettings, IsStruct, KeptIn, AllProperties
  <2> QED
    BY <2>2, <2>3
<1>7. ASSUME NEW ok \in BOOLEAN, DispatchPendingSettings(ok)
      PROVE  SvcInv'
  <2>1. PICK t : t = [svc EXCEPT !.timer = FALSE, !.dirty = FALSE, !.typedDirty = FALSE]
    OBVIOUS
  <2>2. svc' = t /\ window' = NoKeys
    BY <1>7, <2>1 DEF DispatchPendingSettings
  <2>3. IsShape(t)
    BY <2>1 DEF IsShape, IsSvc, SvcFields
  <2>4. KeptIn(t, NoKeys)
    BY DEF KeptIn, NoKeys
  <2> QED
    BY <1>0, <2>2, <2>3, <2>4
    DEF IsShape, IsSvc, IsSettings, IsStruct, KeptIn, AllProperties, NoKeys
<1>8. CASE SettingsUpdated
  <2>1. window' = window
    BY <1>8 DEF SettingsUpdated
  <2>2. CASE ~nm.exists
    BY <1>1, <1>8, <2>1, <2>2 DEF SettingsUpdated
  <2>3. CASE nm.exists
    <3>1. PICK x : x = UpdateData(kind, svc.data, nm.data)
      OBVIOUS
    <3>2. PICK g : g = SettingsOf(nm)
      OBVIOUS
    <3>3. PICK t : t = [svc EXCEPT !.settings = g, !.id = nm.id, !.neverDefault = nm.ipv4,
                                   !.data = x]
      OBVIOUS
    <3>4. svc' = t
      BY <1>8, <2>3, <3>1, <3>2, <3>3 DEF SettingsUpdated
    <3>5. IsStruct(x) /\ IsSettings(g)
      BY <3>1, <3>2, UpdateStruct, SettingsShape DEF IsShape
    <3>6. IsShape(t) /\ KeptIn(t, window)
      BY <3>3, <3>5 DEF IsShape, IsSvc, SvcFields, KeptIn
    <3> QED
      BY <1>0, <2>1, <3>4, <3>6
      DEF IsShape, IsSvc, IsSettings, IsStruct, KeptIn, AllProperties
  <2> QED
    BY <2>2, <2>3
<1>9. CASE FlushPropertyChanges
  BY <1>1, <1>9 DEF FlushPropertyChanges
<1>10. CASE PropertiesChanged
  BY <1>1, <1>10 DEF PropertiesChanged
<1>11. ASSUME NEW e \in Foreign[kind], ForeignEdit(e[1], e[2])
       PROVE  SvcInv'
  BY <1>1, <1>11 DEF ForeignEdit
<1>12. CASE Remove
  BY <1>1, <1>12 DEF Remove
<1> QED
  BY <1>2, <1>3, <1>4, <1>5, <1>6, <1>7, <1>8, <1>9, <1>10, <1>11, <1>12 DEF Next

(* Under SvcInv a dispatch writes the edits of the window.                 *)
LEMMA WindowHolds ==
    ASSUME SvcInv
    PROVE  WindowKept
<1> SUFFICES ASSUME NEW p \in DOMAIN window,
                    p \in VpnProperties \/ Keeps(svc.pendingData, p, window[p])
             PROVE  WouldStore(p) = window[p]
  BY DEF WindowKept
<1> DEFINE d == svc.pendingData
<1>1. CASE p = "id"
  <2>1. p # "neverDefault" /\ p \notin SecretProperties(kind)
    BY <1>1, Tables DEF VpnProperties
  <2>2. WouldStore(p) = svc.pending.id
    BY <1>1, <2>1, Zenon DEF WouldStore
  <2> QED
    BY <1>1, <2>2 DEF SvcInv, KeptIn
<1>2. CASE p = "neverDefault"
  <2>1. p # "id" /\ p \notin SecretProperties(kind)
    BY <1>2, Tables DEF VpnProperties
  <2>2. WouldStore(p) = svc.pending.ipv4
    BY <1>2, <2>1, Zenon DEF WouldStore
  <2> QED
    BY <1>2, <2>2 DEF SvcInv, KeptIn
<1>3. CASE p \notin VpnProperties
  <2>1. /\ p # "id" /\ p # "neverDefault" /\ p \in Properties(kind)
    BY <1>3, Tables DEF VpnProperties, SvcInv, KeptIn
  <2>2. IsStruct(d) /\ d[p] = window[p]
    BY <1>3 DEF SvcInv, KeptIn, IsShape
  <2>3. [d EXCEPT ![p] = window[p]] = d
    BY <2>1, <2>2 DEF IsStruct
  <2>4. Keeps(d, p, window[p])
    BY <1>3
  <2>5. CASE p \in SecretProperties(kind)
    <3>1. WouldStore(p) = UpdateSecrets(kind, d, svc.pending.secrets)[p]
      BY <2>1, <2>5, Zenon DEF WouldStore
    <3>2. svc.pending.secrets = BuildSecrets(kind, d)
      BY <2>5 DEF SvcInv, KeptIn
    <3>3. UpdateSecrets(kind, d, BuildSecrets(kind, d))[p] = window[p]
      <4>1. UpdateSecrets(kind, [d EXCEPT ![p] = window[p]],
                          BuildSecrets(kind, [d EXCEPT ![p] = window[p]]))[p] = window[p]
        BY <1>3, <2>4, <2>5, Zenon DEF Keeps
      <4> QED
        BY <2>3, <4>1
    <3> QED
      BY <3>1, <3>2, <3>3
  <2>6. CASE p \notin SecretProperties(kind)
    <3>1. WouldStore(p) = UpdateData(kind, d, svc.pending.data)[p]
      BY <2>1, <2>6, Zenon DEF WouldStore
    <3>2. svc.pending.data = BuildData(kind, d)
      BY <1>3, <2>6 DEF SvcInv, KeptIn
    <3>3. UpdateData(kind, d, BuildData(kind, d))[p] = window[p]
      <4>1. UpdateData(kind, d, BuildData(kind, [d EXCEPT ![p] = window[p]]))[p] = window[p]
        BY <1>3, <2>4, <2>6, Zenon DEF Keeps
      <4> QED
        BY <2>3, <4>1
    <3> QED
      BY <3>1, <3>2, <3>3
  <2> QED
    BY <2>5, <2>6
<1> QED
  BY <1>1, <1>2, <1>3 DEF VpnProperties

(* Every edit of the window is in what the next dispatch writes            *)
(* (WindowKept), whatever setters and signals come in between: for any     *)
(* edits, any stored settings and any number of steps.                     *)
THEOREM EditsAreKept == Spec => []WindowKept
<1>1. Init => SvcInv
  BY InitSvc
<1>2. SvcInv /\ [Next]_vars => SvcInv'
  BY SvcStep
<1>3. SvcInv => WindowKept
  BY WindowHolds
<1> QED
  BY <1>1, <1>2, <1>3, PTL DEF Spec

-----------------------------------------------------------------------------
(* What updateData() does property by property, as equations instead of    *)
(* cases: the basic properties,                                            *)
LEMMA ReadsBasic ==
    ASSUME NEW m, NEW p, NEW old
    PROVE  /\ p \in DOMAIN OvTextKey =>
                 OvReadBasic(m, p, old) = OvReadText(m, p)
           /\ p = "connectionType" =>
                 OvReadBasic(m, p, old) =
                     Named(connectionTypeMap, Value(m, "connection-type"), "TLS")
           /\ p = "staticKeyDirection" =>
                 OvReadBasic(m, p, old) =
                     Named(keyDirMap, Value(m, "static-key-direction"), "KEY_NONE")
           /\ (p \notin DOMAIN OvTextKey
               /\ p # "connectionType"
               /\ p # "staticKeyDirection") =>
                 OvReadBasic(m, p, old) = old
<1>1. CASE p \in DOMAIN OvTextKey
  <2>1. /\ p # "connectionType"
        /\ p # "staticKeyDirection"
    BY <1>1, SMT DEF OvTextKey
  <2>2. OvReadBasic(m, p, old) = OvReadText(m, p)
    BY <1>1, <2>1, Zenon DEF OvReadBasic
  <2> QED
    BY <2>1, <2>2, <1>1
<1>2. CASE p = "connectionType"
  <2>1. /\ p \notin DOMAIN OvTextKey
        /\ p # "staticKeyDirection"
    BY <1>2, SMT DEF OvTextKey
  <2>2. OvReadBasic(m, p, old) =
                     Named(connectionTypeMap, Value(m, "connection-type"), "TLS")
    BY <1>2, <2>1, Zenon DEF OvReadBasic
  <2> QED
    BY <2>1, <2>2, <1>2
<1>3. CASE p = "staticKeyDirection"
  <2>1. /\ p \notin DOMAIN OvTextKey
        /\ p # "connectionType"
    BY <1>3, SMT DEF OvTextKey
  <2>2. OvReadBasic(m, p, old) =
                     Named(keyDirMap, Value(m, "static-key-direction"), "KEY_NONE")
    BY <1>3, <2>1, Zenon DEF OvReadBasic
  <2> QED
    BY <2>1, <2>2, <1>3
<1>4. CASE /\ p \notin DOMAIN OvTextKey
            /\ p # "connectionType"
            /\ p # "staticKeyDirection"
  <2>1. OvReadBasic(m, p, old) = old
    BY <1>4, Zenon DEF OvReadBasic
  <2> QED
    BY <2>1, <1>4
<1> QED
  BY <1>1, <1>2, <1>3, <1>4

(* the general ones,                                                       *)
LEMMA ReadsGeneral ==
    ASSUME NEW m, NEW p, NEW old
    PROVE  /\ p \in DOMAIN OvPairKey =>
                 OvReadGeneral(m, p, old) = OvReadNumber(m, p, old)
           /\ p \in DOMAIN OvBoolKey =>
                 OvReadGeneral(m, p, old) = OvReadBool(m, p)
           /\ p = "devTypeSet" =>
                 OvReadGeneral(m, p, old) = ("dev-type" \in DOMAIN m)
           /\ p = "devType" =>
                 OvReadGeneral(m, p, old) = IfStored(m, "dev-type",
                    Named(devTypeMap, Value(m, "dev-type"), "TUN"), old)
           /\ p = "dev" =>
                 OvReadGeneral(m, p, old) = IfStored(m, "dev-type",
                                                     Value(m, "dev"), old)
           /\ (p \notin DOMAIN OvPairKey
               /\ p \notin DOMAIN OvBoolKey
               /\ p # "devTypeSet"
               /\ p # "devType"
               /\ p # "dev") =>
                 OvReadGeneral(m, p, old) = OvReadSwitch(m, p)
<1>1. CASE p \in DOMAIN OvPairKey
  <2>1. /\ p \notin DOMAIN OvBoolKey
        /\ p # "devTypeSet"
        /\ p # "devType"
        /\ p # "dev"
    BY <1>1, SMT DEF OvPairKey, OvBoolKey
  <2>2. OvReadGeneral(m, p, old) = OvReadNumber(m, p, old)
    BY <1>1, <2>1, Zenon DEF OvReadGeneral
  <2> QED
    BY <2>1, <2>2, <1>1
<1>2. CASE p \in DOMAIN OvBoolKey
  <2>1. /\ p \notin DOMAIN OvPairKey
        /\ p # "devTypeSet"
        /\ p # "devType"
        /\ p # "dev"
    BY <1>2, SMT DEF OvPairKey, OvBoolKey
  <2>2. OvReadGeneral(m, p, old) = OvReadBool(m, p)
    BY <1>2, <2>1, Zenon DEF OvReadGeneral
  <2> QED
    BY <2>1, <2>2, <1>2
<1>3. CASE p = "devTypeSet"
  <2>1. /\ p \notin DOMAIN OvPairKey
        /\ p \notin DOMAIN OvBoolKey
        /\ p # "devType"
        /\ p # "dev"
    BY <1>3, SMT DEF OvPairKey, OvBoolKey
  <2>2. OvReadGeneral(m, p, old) = ("dev-type" \in DOMAIN m)
    BY <1>3, <2>1, Zenon DEF OvReadGeneral
  <2> QED
    BY <2>1, <2>2, <1>3
<1>4. CASE p = "devType"
  <2>1. /\ p \notin DOMAIN OvPairKey
        /\ p \notin DOMAIN OvBoolKey
        /\ p # "devTypeSet"
        /\ p # "dev"
    BY <1>4, SMT DEF OvPairKey, OvBoolKey
  <2>2. OvReadGeneral(m, p, old) = IfStored(m, "dev-type",
                    Named(devTypeMap, Value(m, "dev-type"), "TUN"), old)
    BY <1>4, <2>1, Zenon DEF OvReadGeneral
  <2> QED
    BY <2>1, <2>2, <1>4
<1>5. CASE p = "dev"
  <2>1. /\ p \notin DOMAIN OvPairKey
        /\ p \notin DOMAIN OvBoolKey
        /\ p # "devTypeSet"
        /\ p # "devType"
    BY <1>5, SMT DEF OvPairKey, OvBoolKey
  <2>2. OvReadGeneral(m, p, old) = IfStored(m, "dev-type", Value(m, "dev"), old)
    BY <1>5, <2>1, Zenon DEF OvReadGeneral
  <2> QED
    BY <2>1, <2>2, <1>5
<1>6. CASE /\ p \notin DOMAIN OvPairKey
            /\ p \notin DOMAIN OvBoolKey
            /\ p # "devTypeSet"
            /\ p # "devType"
            /\ p # "dev"
  <2>1. OvReadGeneral(m, p, old) = OvReadSwitch(m, p)
    BY <1>6, Zenon DEF OvReadGeneral
  <2> QED
    BY <2>1, <1>6
<1> QED
  BY <1>1, <1>2, <1>3, <1>4, <1>5, <1>6

(* the security ones,                                                      *)
LEMMA ReadsSecurity ==
    ASSUME NEW m, NEW p, NEW old
    PROVE  /\ p = "cipher" =>
                 OvReadSecurity(m, p, old) =
                     Named(cipherMap, Value(m, "cipher"), "DEFAULT_CIPHER")
           /\ p = "auth" =>
                 OvReadSecurity(m, p, old) =
                     Named(authMap, Value(m, "auth"), "DEFAULT_AUTH")
           /\ p = "keysize" =>
                 OvReadSecurity(m, p, old) = OvReadNumber(m, p, old)
           /\ (p # "cipher"
               /\ p # "auth"
               /\ p # "keysize") =>
                 OvReadSecurity(m, p, old) = OvReadSwitch(m, p)
<1>1. CASE p = "cipher"
  <2>1. /\ p # "auth"
        /\ p # "keysize"
    BY <1>1, SMT
  <2>2. OvReadSecurity(m, p, old) =
                     Named(cipherMap, Value(m, "cipher"), "DEFAULT_CIPHER")
    BY <1>1, <2>1, Zenon DEF OvReadSecurity
  <2> QED
    BY <2>1, <2>2, <1>1
<1>2. CASE p = "auth"
  <2>1. /\ p # "cipher"
        /\ p # "keysize"
    BY <1>2, SMT
  <2>2. OvReadSecurity(m, p, old) = Named(authMap, Value(m, "auth"), "DEFAULT_AUTH")
    BY <1>2, <2>1, Zenon DEF OvReadSecurity
  <2> QED
    BY <2>1, <2>2, <1>2
<1>3. CASE p = "keysize"
  <2>1. /\ p # "cipher"
        /\ p # "auth"
    BY <1>3, SMT
  <2>2. OvReadSecurity(m, p, old) = OvReadNumber(m, p, old)
    BY <1>3, <2>1, Zenon DEF OvReadSecurity
  <2> QED
    BY <2>1, <2>2, <1>3
<1>4. CASE /\ p # "cipher"
            /\ p # "auth"
            /\ p # "keysize"
  <2>1. OvReadSecurity(m, p, old) = OvReadSwitch(m, p)
    BY <1>4, Zenon DEF OvReadSecurity
  <2> QED
    BY <2>1, <1>4
<1> QED
  BY <1>1, <1>2, <1>3, <1>4

(* the TLS ones,                                                           *)
LEMMA ReadsTls ==
    ASSUME NEW m, NEW p, NEW old
    PROVE  /\ p = "tlsRemote" =>
                 OvReadTls(m, p, old) = OvReadText(m, p)
           /\ p = "remoteCertTlsSet" =>
                 OvReadTls(m, p, old) = ("remote-cert-tls" \in DOMAIN m)
           /\ p = "remoteCertTls" =>
                 OvReadTls(m, p, old) = IfStored(m, "remote-cert-tls",
                    Named(remoteCertTlsMap, Value(m, "remote-cert-tls"), "SERVER"), old)
           /\ p = "taSet" =>
                 OvReadTls(m, p, old) = ("ta" \in DOMAIN m)
           /\ p = "ta" =>
                 OvReadTls(m, p, old) = IfStored(m, "ta", Value(m, "ta"), old)
           /\ (p # "tlsRemote"
               /\ p # "remoteCertTlsSet"
               /\ p # "remoteCertTls"
               /\ p # "taSet"
               /\ p # "ta") =>
                 OvReadTls(m, p, old) = IfStored(m, "ta",
                    Named(keyDirMap, Value(m, "ta-dir"), "KEY_NONE"), old)
<1>1. CASE p = "tlsRemote"
  <2>1. /\ p # "remoteCertTlsSet"
        /\ p # "remoteCertTls"
        /\ p # "taSet"
        /\ p # "ta"
    BY <1>1, SMT
  <2>2. OvReadTls(m, p, old) = OvReadText(m, p)
    BY <1>1, <2>1, Zenon DEF OvReadTls
  <2> QED
    BY <2>1, <2>2, <1>1
<1>2. CASE p = "remoteCertTlsSet"
  <2>1. /\ p # "tlsRemote"
        /\ p # "remoteCertTls"
        /\ p # "taSet"
        /\ p # "ta"
    BY <1>2, SMT
  <2>2. OvReadTls(m, p, old) = ("remote-cert-tls" \in DOMAIN m)
    BY <1>2, <2>1, Zenon DEF OvReadTls
  <2> QED
    BY <2>1, <2>2, <1>2
<1>3. CASE p = "remoteCertTls"
  <2>1. /\ p # "tlsRemote"
        /\ p # "remoteCertTlsSet"
        /\ p # "taSet"
        /\ p # "ta"
    BY <1>3, SMT
  <2>2. OvReadTls(m, p, old) = IfStored(m, "remote-cert-tls",
                    Named(remoteCertTlsMap, Value(m, "remote-cert-tls"), "SERVER"), old)
    BY <1>3, <2>1, Zenon DEF OvReadTls
  <2> QED
    BY <2>1, <2>2, <1>3
<1>4. CASE p = "taSet"
  <2>1. /\ p # "tlsRemote"
        /\ p # "remoteCertTlsSet"
        /\ p # "remoteCertTls"
        /\ p # "ta"
    BY <1>4, SMT
  <2>2. OvReadTls(m, p, old) = ("ta" \in DOMAIN m)
    BY <1>4, <2>1, Zenon DEF OvReadTls
  <2> QED
    BY <2>1, <2>2, <1>4
<1>5. CASE p = "ta"
  <2>1. /\ p # "tlsRemote"
        /\ p # "remoteCertTlsSet"
        /\ p # "remoteCertTls"
        /\ p # "taSet"
    BY <1>5, SMT
  <2>2. OvReadTls(m, p, old) = IfStored(m, "ta", Value(m, "ta"), old)
    BY <1>5, <2>1, Zenon DEF OvReadTls
  <2> QED
    BY <2>1, <2>2, <1>5
<1>6. CASE /\ p # "tlsRemote"
            /\ p # "remoteCertTlsSet"
            /\ p # "remoteCertTls"
            /\ p # "taSet"
            /\ p # "ta"
  <2>1. OvReadTls(m, p, old) = IfStored(m, "ta",
                    Named(keyDirMap, Value(m, "ta-dir"), "KEY_NONE"), old)
    BY <1>6, Zenon DEF OvReadTls
  <2> QED
    BY <2>1, <1>6
<1> QED
  BY <1>1, <1>2, <1>3, <1>4, <1>5, <1>6

(* the proxy settings,                                                     *)
LEMMA ReadsProxy ==
    ASSUME NEW m, NEW p, NEW old
    PROVE  /\ p = "proxyType" =>
                 OvReadProxy(m, p, old) = OvProxyType(m)
           /\ p = "proxyServer" =>
                 OvReadProxy(m, p, old) = IfStored(m, "proxy-type",
                                                   Value(m, "proxy-server"), old)
           /\ p = "proxyPort" =>
                 OvReadProxy(m, p, old) = IfStored(m, "proxy-type",
                                                   ToInt(Value(m, "proxy-port")), old)
           /\ p = "proxyRetry" =>
                 OvReadProxy(m, p, old) = IfStored(m, "proxy-type",
                                                   Value(m, "proxy-retry") = "yes", old)
           /\ p = "proxyUsername" =>
                 OvReadProxy(m, p, old) =
                     (IF OvProxyType(m) \in DOMAIN OvProxyUserKey
                      THEN Value(m, OvProxyUserKey[OvProxyType(m)]) ELSE old)
           /\ (p # "proxyType"
               /\ p # "proxyServer"
               /\ p # "proxyPort"
               /\ p # "proxyRetry"
               /\ p # "proxyUsername") =>
                 OvReadProxy(m, p, old) = old
<1>1. CASE p = "proxyType"
  <2>1. /\ p # "proxyServer"
        /\ p # "proxyPort"
        /\ p # "proxyRetry"
        /\ p # "proxyUsername"
    BY <1>1, SMT
  <2>2. OvReadProxy(m, p, old) = OvProxyType(m)
    BY <1>1, <2>1, Zenon DEF OvReadProxy
  <2> QED
    BY <2>1, <2>2, <1>1
<1>2. CASE p = "proxyServer"
  <2>1. /\ p # "proxyType"
        /\ p # "proxyPort"
        /\ p # "proxyRetry"
        /\ p # "proxyUsername"
    BY <1>2, SMT
  <2>2. OvReadProxy(m, p, old) = IfStored(m, "proxy-type",
                                          Value(m, "proxy-server"), old)
    BY <1>2, <2>1, Zenon DEF OvReadProxy
  <2> QED
    BY <2>1, <2>2, <1>2
<1>3. CASE p = "proxyPort"
  <2>1. /\ p # "proxyType"
        /\ p # "proxyServer"
        /\ p # "proxyRetry"
        /\ p # "proxyUsername"
    BY <1>3, SMT
  <2>2. OvReadProxy(m, p, old) = IfStored(m, "proxy-type",
                                          ToInt(Value(m, "proxy-port")), old)
    BY <1>3, <2>1, Zenon DEF OvReadProxy
  <2> QED
    BY <2>1, <2>2, <1>3
<1>4. CASE p = "proxyRetry"
  <2>1. /\ p # "proxyType"
        /\ p # "proxyServer"
        /\ p # "proxyPort"
        /\ p # "proxyUsername"
    BY <1>4, SMT
  <2>2. OvReadProxy(m, p, old) = IfStored(m, "proxy-type",
                                          Value(m, "proxy-retry") = "yes", old)
    BY <1>4, <2>1, Zenon DEF OvReadProxy
  <2> QED
    BY <2>1, <2>2, <1>4
<1>5. CASE p = "proxyUsername"
  <2>1. /\ p # "proxyType"
        /\ p # "proxyServer"
        /\ p # "proxyPort"
        /\ p # "proxyRetry"
    BY <1>5, SMT
  <2>2. OvReadProxy(m, p, old) =
                     (IF OvProxyType(m) \in DOMAIN OvProxyUserKey
                      THEN Value(m, OvProxyUserKey[OvProxyType(m)]) ELSE old)
    BY <1>5, <2>1, Zenon DEF OvReadProxy
  <2> QED
    BY <2>1, <2>2, <1>5
<1>6. CASE /\ p # "proxyType"
            /\ p # "proxyServer"
            /\ p # "proxyPort"
            /\ p # "proxyRetry"
            /\ p # "proxyUsername"
  <2>1. OvReadProxy(m, p, old) = old
    BY <1>6, Zenon DEF OvReadProxy
  <2> QED
    BY <2>1, <1>6
<1> QED
  BY <1>1, <1>2, <1>3, <1>4, <1>5, <1>6

(* all pages of OpenVPN,                                                   *)
LEMMA ReadsAll ==
    ASSUME NEW m, NEW p, NEW old
    PROVE  /\ p \in DOMAIN OvBasic =>
                 OvRead(m, p, old) = OvReadBasic(m, p, old)
           /\ p \in DOMAIN OvGeneral =>
                 OvRead(m, p, old) = OvReadGeneral(m, p, old)
           /\ p \in DOMAIN OvSecurity =>
                 OvRead(m, p, old) = OvReadSecurity(m, p, old)
           /\ p \in DOMAIN OvTls =>
                 OvRead(m, p, old) = OvReadTls(m, p, old)
           /\ (p \notin DOMAIN OvBasic
               /\ p \notin DOMAIN OvGeneral
               /\ p \notin DOMAIN OvSecurity
               /\ p \notin DOMAIN OvTls) =>
                 OvRead(m, p, old) = OvReadProxy(m, p, old)
<1>1. CASE p \in DOMAIN OvBasic
  <2>1. /\ p \notin DOMAIN OvGeneral
        /\ p \notin DOMAIN OvSecurity
        /\ p \notin DOMAIN OvTls
    BY <1>1, OvDomains, SMT
  <2>2. OvRead(m, p, old) = OvReadBasic(m, p, old)
    BY <1>1, <2>1, Zenon DEF OvRead
  <2> QED
    BY <2>1, <2>2, <1>1
<1>2. CASE p \in DOMAIN OvGeneral
  <2>1. /\ p \notin DOMAIN OvBasic
        /\ p \notin DOMAIN OvSecurity
        /\ p \notin DOMAIN OvTls
    BY <1>2, OvDomains, SMT
  <2>2. OvRead(m, p, old) = OvReadGeneral(m, p, old)
    BY <1>2, <2>1, Zenon DEF OvRead
  <2> QED
    BY <2>1, <2>2, <1>2
<1>3. CASE p \in DOMAIN OvSecurity
  <2>1. /\ p \notin DOMAIN OvBasic
        /\ p \notin DOMAIN OvGeneral
        /\ p \notin DOMAIN OvTls
    BY <1>3, OvDomains, SMT
  <2>2. OvRead(m, p, old) = OvReadSecurity(m, p, old)
    BY <1>3, <2>1, Zenon DEF OvRead
  <2> QED
    BY <2>1, <2>2, <1>3
<1>4. CASE p \in DOMAIN OvTls
  <2>1. /\ p \notin DOMAIN OvBasic
        /\ p \notin DOMAIN OvGeneral
        /\ p \notin DOMAIN OvSecurity
    BY <1>4, OvDomains, SMT
  <2>2. OvRead(m, p, old) = OvReadTls(m, p, old)
    BY <1>4, <2>1, Zenon DEF OvRead
  <2> QED
    BY <2>1, <2>2, <1>4
<1>5. CASE /\ p \notin DOMAIN OvBasic
            /\ p \notin DOMAIN OvGeneral
            /\ p \notin DOMAIN OvSecurity
            /\ p \notin DOMAIN OvTls
  <2>1. OvRead(m, p, old) = OvReadProxy(m, p, old)
    BY <1>5, Zenon DEF OvRead
  <2> QED
    BY <2>1, <1>5
<1> QED
  BY <1>1, <1>2, <1>3, <1>4, <1>5

(* and PPTP.                                                               *)
LEMMA ReadsPptp ==
    ASSUME NEW m, NEW p, NEW old, NEW o
    PROVE  /\ p = "mppeType" => PptpRead(m, p, old) = PptpReadMppeType(m, old)
           /\ p = "password" => PptpRead(m, p, old) = old
           /\ PptpRead(m, p, o) = PptpRead(m, p, old) \/ p = "mppeType"
                 \/ (PptpRead(m, p, old) = old /\ PptpRead(m, p, o) = o)
<1>1. CASE p \in {"gateway", "user", "domain"}
  <2>1. /\ p \notin DOMAIN PptpAntiKey /\ p # "requireMppe" /\ p # "mppeType"
        /\ p # "mppeStateful" /\ p # "sendPppEchoPackets" /\ p # "password"
    BY <1>1, SMT DEF PptpAntiKey
  <2>2. PptpRead(m, p, o) = PptpRead(m, p, old)
    BY <1>1, <2>1, Zenon DEF PptpRead
  <2> QED
    BY <2>1, <2>2
<1>2. CASE p \in DOMAIN PptpAntiKey
  <2>1. /\ p \notin {"gateway", "user", "domain"} /\ p # "requireMppe" /\ p # "mppeType"
        /\ p # "mppeStateful" /\ p # "sendPppEchoPackets" /\ p # "password"
    BY <1>2, SMT DEF PptpAntiKey
  <2>2. PptpRead(m, p, o) = PptpRead(m, p, old)
    BY <1>2, <2>1, Zenon DEF PptpRead
  <2> QED
    BY <2>1, <2>2
<1>3. CASE p \in {"requireMppe", "mppeStateful", "sendPppEchoPackets"}
  <2>1. /\ p \notin {"gateway", "user", "domain"} /\ p \notin DOMAIN PptpAntiKey
        /\ p # "mppeType" /\ p # "password"
        /\ p = "requireMppe" => p # "mppeStateful" /\ p # "sendPppEchoPackets"
        /\ p = "mppeStateful" => p # "sendPppEchoPackets"
    BY <1>3, SMT DEF PptpAntiKey
  <2>2. p = "requireMppe" \/ p = "mppeStateful" \/ p = "sendPppEchoPackets"
    BY <1>3
  <2>3. PptpRead(m, p, o) = PptpRead(m, p, old)
    BY <2>1, <2>2, Zenon DEF PptpRead
  <2> QED
    BY <2>1, <2>3
<1>4. CASE p = "mppeType"
  <2>1. /\ p \notin {"gateway", "user", "domain"} /\ p \notin DOMAIN PptpAntiKey
        /\ p # "requireMppe" /\ p # "mppeStateful" /\ p # "sendPppEchoPackets"
        /\ p # "password"
    BY <1>4, SMT DEF PptpAntiKey
  <2>2. PptpRead(m, p, old) = PptpReadMppeType(m, old)
    BY <1>4, <2>1, Zenon DEF PptpRead
  <2> QED
    BY <1>4, <2>1, <2>2
<1>5. CASE /\ p \notin {"gateway", "user", "domain"} /\ p \notin DOMAIN PptpAntiKey
           /\ p \notin {"requireMppe", "mppeStateful", "sendPppEchoPackets", "mppeType"}
  <2>1. /\ p # "requireMppe" /\ p # "mppeType" /\ p # "mppeStateful"
        /\ p # "sendPppEchoPackets"
    BY <1>5
  <2>2. PptpRead(m, p, old) = old
    BY <1>5, <2>1, Zenon DEF PptpRead
  <2>3. PptpRead(m, p, o) = o
    BY <1>5, <2>1, Zenon DEF PptpRead
  <2> QED
    BY <2>1, <2>2, <2>3
<1> QED
  BY <1>1, <1>2, <1>3, <1>4, <1>5

(* Reading a value where there is one and then again is reading it once,   *)
LEMMA StoredTwice ==
    ASSUME NEW m, NEW k, NEW v, NEW old
    PROVE  IfStored(m, k, v, IfStored(m, k, v, old)) = IfStored(m, k, v, old)
BY DEF IfStored

(* also for a number that is read back as a number.                        *)
LEMMA NumberTwice ==
    ASSUME NEW m, NEW p, NEW old
    PROVE  OvReadNumber(m, p, OvReadNumber(m, p, old)) = OvReadNumber(m, p, old)
BY StoredTwice DEF OvReadNumber

(* A property that was read from stored data reads the same again: no      *)
(* reader depends on more of the old value than that it stays.             *)
LEMMA ReadTwice ==
    ASSUME NEW m, NEW p, NEW old
    PROVE  /\ OvRead(m, p, OvRead(m, p, old)) = OvRead(m, p, old)
           /\ PptpRead(m, p, PptpRead(m, p, old)) = PptpRead(m, p, old)
<1>1. OvReadBasic(m, p, OvReadBasic(m, p, old)) = OvReadBasic(m, p, old)
  BY ReadsBasic
<1>2. OvReadGeneral(m, p, OvReadGeneral(m, p, old)) = OvReadGeneral(m, p, old)
  BY ReadsGeneral, NumberTwice, StoredTwice
<1>3. OvReadSecurity(m, p, OvReadSecurity(m, p, old)) = OvReadSecurity(m, p, old)
  BY ReadsSecurity, NumberTwice
<1>4. OvReadTls(m, p, OvReadTls(m, p, old)) = OvReadTls(m, p, old)
  BY ReadsTls, StoredTwice
<1>5. OvReadProxy(m, p, OvReadProxy(m, p, old)) = OvReadProxy(m, p, old)
  BY ReadsProxy, StoredTwice
<1>6. OvRead(m, p, OvRead(m, p, old)) = OvRead(m, p, old)
  BY <1>1, <1>2, <1>3, <1>4, <1>5, ReadsAll
<1>7. PptpReadMppeType(m, PptpReadMppeType(m, old)) = PptpReadMppeType(m, old)
  BY DEF PptpReadMppeType
<1>8. PptpRead(m, p, PptpRead(m, p, old)) = PptpRead(m, p, old)
  BY <1>7, ReadsPptp
<1> QED
  BY <1>6, <1>8

(* updateData() leaves a secret alone.                                     *)
LEMMA SecretNotRead ==
    ASSUME NEW m, NEW old
    PROVE  /\ \A p \in OvSecretProperties : OvRead(m, p, old) = old
           /\ \A p \in PptpSecretProperties : PptpRead(m, p, old) = old
<1>1. "certPass" \notin DOMAIN OvTextKey /\ "password" \notin DOMAIN OvTextKey
  BY DEF OvTextKey
<1>2. /\ "certPass" \in DOMAIN OvBasic /\ "password" \in DOMAIN OvBasic
      /\ "proxyPassword" \notin DOMAIN OvBasic /\ "proxyPassword" \notin DOMAIN OvGeneral
      /\ "proxyPassword" \notin DOMAIN OvSecurity /\ "proxyPassword" \notin DOMAIN OvTls
  BY OvDomains, SMT
<1>3. OvRead(m, "certPass", old) = old
  BY <1>1, <1>2, ReadsBasic, ReadsAll
<1>4. OvRead(m, "password", old) = old
  BY <1>1, <1>2, ReadsBasic, ReadsAll
<1>5. OvRead(m, "proxyPassword", old) = old
  BY <1>2, ReadsProxy, ReadsAll
<1>6. PptpRead(m, "password", old) = old
  BY ReadsPptp
<1> QED
  BY <1>3, <1>4, <1>5, <1>6 DEF OvSecretProperties, PptpSecretProperties

(* Reading the same stored data a second time changes nothing              *)
(* (updateData() after the Updated signal of data already known).          *)
LEMMA UpdateTwice ==
    ASSUME NEW x, IsStruct(x), NEW m
    PROVE  UpdateData(kind, UpdateData(kind, x, m), m) = UpdateData(kind, x, m)
BY ReadTwice DEF UpdateData, OvUpdateData, PptpUpdateData

(* Reading the secrets does not undo what was read from the data.          *)
LEMMA SecretsKeepData ==
    ASSUME NEW x, IsStruct(x), NEW m, x = UpdateData(kind, x, m), NEW n,
           NEW y, y = UpdateSecrets(kind, x, n)
    PROVE  y = UpdateData(kind, y, m)
<1>1. IsStruct(y) /\ DOMAIN y = Properties(kind) /\ DOMAIN x = Properties(kind)
  BY UpdateStruct DEF IsStruct
<1>2. \A p \in Properties(kind) \ SecretProperties(kind) : y[p] = x[p]
  <2>1. CASE kind = "pptp"
    BY <2>1, <1>1 DEF UpdateSecrets, PptpUpdateSecrets, SecretProperties, PptpSecretProperties
  <2>2. CASE kind # "pptp"
    <3>1. PICK v : v = OvReadProxyPassword(x.proxyType, n, x.proxyPassword)
      OBVIOUS
    <3>2. y = [x EXCEPT !.certPass = Value(n, "cert-pass"),
                        !.password = Value(n, "password"), !.proxyPassword = v]
      BY <2>2, <3>1 DEF OvUpdateSecrets, UpdateSecrets
    <3> QED
      BY <2>2, <3>2, <1>1 DEF SecretProperties, OvSecretProperties
  <2> QED
    BY <2>1, <2>2
<1>3. CASE kind = "pptp"
  <2>1. x = [p \in Properties(kind) |-> PptpRead(m, p, x[p])]
    BY <1>1, <1>3 DEF UpdateData, PptpUpdateData
  <2>2. \A p \in Properties(kind) : PptpRead(m, p, y[p]) = y[p]
    BY <1>2, <1>3, <2>1, SecretNotRead DEF SecretProperties
  <2>3. y = [p \in DOMAIN y |-> PptpRead(m, p, y[p])]
    BY <1>1, <2>2 DEF IsStruct
  <2> QED
    BY <1>3, <2>3 DEF UpdateData, PptpUpdateData
<1>4. CASE kind # "pptp"
  <2>1. x = [p \in Properties(kind) |-> OvRead(m, p, x[p])]
    BY <1>1, <1>4 DEF UpdateData, OvUpdateData
  <2>2. \A p \in Properties(kind) : OvRead(m, p, y[p]) = y[p]
    BY <1>2, <1>4, <2>1, SecretNotRead DEF SecretProperties
  <2>3. y = [p \in DOMAIN y |-> OvRead(m, p, y[p])]
    BY <1>1, <2>2 DEF IsStruct
  <2> QED
    BY <1>4, <2>3 DEF UpdateData, OvUpdateData
<1> QED
  BY <1>3, <1>4

-----------------------------------------------------------------------------
(* The enumerators of property p.                                          *)
Members(p) == {EnumOf[p][i] : i \in DOMAIN EnumOf[p]}

(* The client declares the enumerations in the order of the service.       *)
LEMMA SameEnums == ClientEnumOf = EnumOf
<1>1. DOMAIN ClientEnumOf = DOMAIN EnumOf
  BY EnumDomains, SMT DEF ClientEnumOf
<1>2. \A p \in DOMAIN EnumOf : ClientEnumOf[p] = EnumOf[p]
  <2>1. /\ ClientEnumOf.connectionType = EnumOf.connectionType
        /\ ClientEnumOf.staticKeyDirection = EnumOf.staticKeyDirection
        /\ ClientEnumOf.devType = EnumOf.devType
    BY DEF ClientEnumOf, EnumOf, ConnectionTypes, KeyDirs, DevTypes
  <2>2. ClientEnumOf.cipher = EnumOf.cipher
    BY DEF ClientEnumOf, EnumOf, Ciphers
  <2>3. ClientEnumOf.auth = EnumOf.auth
    BY DEF ClientEnumOf, EnumOf, Auths
  <2>4. /\ ClientEnumOf.remoteCertTls = EnumOf.remoteCertTls
        /\ ClientEnumOf.taDir = EnumOf.taDir
        /\ ClientEnumOf.proxyType = EnumOf.proxyType
        /\ ClientEnumOf.mppeType = EnumOf.mppeType
    BY DEF ClientEnumOf, EnumOf, TlsTypes, KeyDirs, ProxyTypes, MppeTypes
  <2> QED
    BY <2>1, <2>2, <2>3, <2>4, EnumDomains
<1>3. ClientEnumOf = [p \in DOMAIN ClientEnumOf |-> ClientEnumOf[p]]
  BY DEF ClientEnumOf
<1>4. EnumOf = [p \in DOMAIN EnumOf |-> EnumOf[p]]
  BY DEF EnumOf
<1> QED
  BY <1>1, <1>2, <1>3, <1>4

(* Positions in a declaration are numbers.                                 *)
LEMMA EnumIndices ==
    ASSUME NEW p \in DOMAIN EnumOf
    PROVE  DOMAIN EnumOf[p] \subseteq Int
<1>1. /\ DOMAIN ConnectionTypes \subseteq Int /\ DOMAIN KeyDirs \subseteq Int
      /\ DOMAIN DevTypes \subseteq Int /\ DOMAIN TlsTypes \subseteq Int
      /\ DOMAIN ProxyTypes \subseteq Int /\ DOMAIN MppeTypes \subseteq Int
  BY DEF ConnectionTypes, KeyDirs, DevTypes, TlsTypes, ProxyTypes, MppeTypes
<1>2. DOMAIN Ciphers \subseteq Int
  BY DEF Ciphers
<1>3. DOMAIN Auths \subseteq Int
  BY DEF Auths
<1> QED
  BY <1>1, <1>2, <1>3, EnumDomains DEF EnumOf

(* An enumerator that is sent as its position is read as itself.           *)
LEMMA OrdinalBack ==
    ASSUME NEW p, NEW v, p \in EnumProperties => v \in Members(p)
    PROVE  Enumerator(EnumOf, p, Ordinal(EnumOf, p, v)) = v
<1>1. CASE p \notin DOMAIN EnumOf
  BY <1>1 DEF Enumerator, Ordinal
<1>2. CASE p \in DOMAIN EnumOf
  <2>1. PICK i \in DOMAIN EnumOf[p] : EnumOf[p][i] = v
    BY <1>2 DEF EnumProperties, Members
  <2>2. PICK j : j = CHOOSE k \in DOMAIN EnumOf[p] : EnumOf[p][k] = v
    OBVIOUS
  <2>3. j \in DOMAIN EnumOf[p] /\ EnumOf[p][j] = v
    BY <2>1, <2>2
  <2>4. (j - 1) + 1 = j
    BY <1>2, <2>3, EnumIndices
  <2>5. Ordinal(EnumOf, p, v) = j - 1
    BY <1>2, <2>2 DEF Ordinal
  <2> QED
    BY <1>2, <2>3, <2>4, <2>5 DEF Enumerator
<1> QED
  BY <1>1, <1>2

(* Reading a text gives an enumerator of the map or the default,           *)
LEMMA NamedMember ==
    ASSUME NEW t, NEW s, NEW dflt
    PROVE  Named(t, s, dflt) \in DOMAIN t \cup {dflt}
BY DEF Named

(* or, where the text is absent, the value there was.                      *)
LEMMA StoredMember ==
    ASSUME NEW m, NEW k, NEW v, NEW old, NEW S, v \in S, old \in S
    PROVE  IfStored(m, k, v, old) \in S
BY DEF IfStored

(* The maps from enumerators to texts and the defaults are about the       *)
(* enumerators of their property.                                          *)
LEMMA MapsMember ==
    /\ DOMAIN connectionTypeMap \cup {"TLS"} \subseteq Members("connectionType")
    /\ DOMAIN keyDirMap \cup {"KEY_NONE"} \subseteq Members("staticKeyDirection")
    /\ DOMAIN keyDirMap \cup {"KEY_NONE"} \subseteq Members("taDir")
    /\ DOMAIN devTypeMap \cup {"TUN"} \subseteq Members("devType")
    /\ DOMAIN remoteCertTlsMap \cup {"SERVER"} \subseteq Members("remoteCertTls")
    /\ DOMAIN proxyTypeMap \cup {"NOT_REQUIRED"} \subseteq Members("proxyType")
    /\ DOMAIN cipherMap \cup {"DEFAULT_CIPHER"} \subseteq Members("cipher")
    /\ DOMAIN authMap \cup {"DEFAULT_AUTH"} \subseteq Members("auth")
    /\ {"MPPE_ALL", "MPPE_128", "MPPE_40"} \subseteq Members("mppeType")
<1>1. /\ DOMAIN connectionTypeMap \cup {"TLS"} \subseteq Members("connectionType")
      /\ DOMAIN devTypeMap \cup {"TUN"} \subseteq Members("devType")
  BY DEF Members, EnumOf, connectionTypeMap, ConnectionTypes, devTypeMap, DevTypes
<1>2. /\ DOMAIN keyDirMap \cup {"KEY_NONE"} \subseteq Members("staticKeyDirection")
      /\ DOMAIN keyDirMap \cup {"KEY_NONE"} \subseteq Members("taDir")
  BY DEF Members, EnumOf, keyDirMap, KeyDirs
<1>3. /\ DOMAIN remoteCertTlsMap \cup {"SERVER"} \subseteq Members("remoteCertTls")
      /\ DOMAIN proxyTypeMap \cup {"NOT_REQUIRED"} \subseteq Members("proxyType")
      /\ {"MPPE_ALL", "MPPE_128", "MPPE_40"} \subseteq Members("mppeType")
  BY DEF Members, EnumOf, remoteCertTlsMap, TlsTypes, proxyTypeMap, ProxyTypes, MppeTypes
<1>4. DOMAIN cipherMap \cup {"DEFAULT_CIPHER"} \subseteq Members("cipher")
  BY DEF Members, EnumOf, cipherMap, Ciphers
<1>5. DOMAIN authMap \cup {"DEFAULT_AUTH"} \subseteq Members("auth")
  BY DEF Members, EnumOf, authMap, Auths
<1> QED
  BY <1>1, <1>2, <1>3, <1>4, <1>5

(* Properties that are enumerations have an enumerator as their value.     *)
EnumsTyped(d) == \A p \in Properties(kind) \cap EnumProperties : d[p] \in Members(p)

(* Reading data leaves an enumerator in such a property,                   *)
LEMMA ReadMember ==
    ASSUME NEW m, NEW p \in EnumProperties, NEW old, old \in Members(p)
    PROVE  OvRead(m, p, old) \in Members(p) /\ PptpRead(m, p, old) \in Members(p)
<1>0. p \in {"connectionType", "staticKeyDirection", "devType", "cipher", "auth",
             "remoteCertTls", "taDir", "proxyType", "mppeType"}
  BY EnumDomains DEF EnumProperties
<1> DEFINE r == OvRead(m, p, old)
<1>1. ASSUME p \in {"connectionType", "staticKeyDirection"}
      PROVE  r \in Members(p)
  <2>1. p \in DOMAIN OvBasic /\ p \notin DOMAIN OvTextKey
    BY <1>1, OvDomains, SMT DEF OvTextKey
  <2>2. r = OvReadBasic(m, p, old)
    BY <2>1, ReadsAll
  <2>3. \/ p = "connectionType" /\ r = Named(connectionTypeMap, Value(m, "connection-type"), "TLS")
        \/ p = "staticKeyDirection"
              /\ r = Named(keyDirMap, Value(m, "static-key-direction"), "KEY_NONE")
    BY <1>1, <2>2, ReadsBasic
  <2> QED
    BY <2>3, NamedMember, MapsMember
<1>2. ASSUME p = "devType"
      PROVE  r \in Members(p)
  <2>1. p \in DOMAIN OvGeneral
    BY <1>2, OvDomains, SMT
  <2>2. r = OvReadGeneral(m, p, old)
    BY <2>1, ReadsAll
  <2>3. r = IfStored(m, "dev-type", Named(devTypeMap, Value(m, "dev-type"), "TUN"), old)
    BY <1>2, <2>2, ReadsGeneral
  <2>4. Named(devTypeMap, Value(m, "dev-type"), "TUN") \in Members(p)
    BY <1>2, NamedMember, MapsMember
  <2> QED
    BY <2>3, <2>4, StoredMember
<1>3. ASSUME p \in {"cipher", "auth"}
      PROVE  r \in Members(p)
  <2>1. p \in DOMAIN OvSecurity
    BY <1>3, OvDomains, SMT
  <2>2. r = OvReadSecurity(m, p, old)
    BY <2>1, ReadsAll
  <2>3. \/ p = "cipher" /\ r = Named(cipherMap, Value(m, "cipher"), "DEFAULT_CIPHER")
        \/ p = "auth" /\ r = Named(authMap, Value(m, "auth"), "DEFAULT_AUTH")
    BY <1>3, <2>2, ReadsSecurity
  <2> QED
    BY <2>3, NamedMember, MapsMember
<1>4. ASSUME p \in {"remoteCertTls", "taDir"}
      PROVE  r \in Members(p)
  <2>1. p \in DOMAIN OvTls
    BY <1>4, OvDomains, SMT
  <2>2. r = OvReadTls(m, p, old)
    BY <2>1, ReadsAll
  <2>3. \/ /\ p = "remoteCertTls"
           /\ r = IfStored(m, "remote-cert-tls",
                           Named(remoteCertTlsMap, Value(m, "remote-cert-tls"), "SERVER"), old)
        \/ /\ p = "taDir"
           /\ r = IfStored(m, "ta", Named(keyDirMap, Value(m, "ta-dir"), "KEY_NONE"), old)
    BY <1>4, <2>2, ReadsTls
  <2>4. /\ p = "remoteCertTls" =>
              Named(remoteCertTlsMap, Value(m, "remote-cert-tls"), "SERVER") \in Members(p)
        /\ p = "taDir" => Named(keyDirMap, Value(m, "ta-dir"), "KEY_NONE") \in Members(p)
    BY NamedMember, MapsMember
  <2> QED
    BY <2>3, <2>4, StoredMember
<1>5. ASSUME p = "proxyType"
      PROVE  r \in Members(p)
  <2>1. /\ p \notin DOMAIN OvBasic /\ p \notin DOMAIN OvGeneral /\ p \notin DOMAIN OvSecurity
        /\ p \notin DOMAIN OvTls
    BY <1>5, OvDomains, SMT
  <2>2. r = OvProxyType(m)
    BY <1>5, <2>1, ReadsAll, ReadsProxy
  <2> QED
    BY <1>5, <2>2, NamedMember, MapsMember DEF OvProxyType
<1>6. ASSUME p = "mppeType"
      PROVE  r \in Members(p)
  <2>1. /\ p \notin DOMAIN OvBasic /\ p \notin DOMAIN OvGeneral /\ p \notin DOMAIN OvSecurity
        /\ p \notin DOMAIN OvTls
    BY <1>6, OvDomains, SMT
  <2>2. r = old
    BY <1>6, <2>1, ReadsAll, ReadsProxy
  <2> QED
    BY <2>2
<1>7. r \in Members(p)
  BY <1>0, <1>1, <1>2, <1>3, <1>4, <1>5, <1>6
<1>8. PptpRead(m, p, old) \in Members(p)
  <2>1. CASE p = "mppeType"
    BY <2>1, ReadsPptp, MapsMember DEF PptpReadMppeType
  <2>2. CASE p # "mppeType"
    <3>1. /\ p \notin {"gateway", "user", "domain"} /\ p \notin DOMAIN PptpAntiKey
          /\ p # "requireMppe" /\ p # "mppeStateful" /\ p # "sendPppEchoPackets"
      BY <1>0, <2>2, SMT DEF PptpAntiKey
    <3>2. PptpRead(m, p, old) = old
      BY <2>2, <3>1, Zenon DEF PptpRead
    <3> QED
      BY <3>2
  <2> QED
    BY <2>1, <2>2
<1> QED
  BY <1>7, <1>8

(* in all of them;                                                         *)
LEMMA EnumsRead ==
    ASSUME NEW x, IsStruct(x), EnumsTyped(x), NEW m
    PROVE  EnumsTyped(UpdateData(kind, x, m))
<1>1. DOMAIN x = Properties(kind)
  BY DEF IsStruct
<1>2. CASE kind = "pptp"
  BY <1>1, <1>2, ReadMember DEF UpdateData, PptpUpdateData, EnumsTyped
<1>3. CASE kind # "pptp"
  BY <1>1, <1>3, ReadMember DEF UpdateData, OvUpdateData, EnumsTyped
<1> QED
  BY <1>2, <1>3

(* so do the defaults.                                                     *)
LEMMA DefaultEnums == EnumsTyped(Default(kind))
<1>1. CASE kind = "pptp"
  <2>1. Properties(kind) \cap EnumProperties = {"mppeType"}
    BY <1>1, PptpDomains, EnumDomains, SMT DEF Properties, Default, EnumProperties
  <2>2. Default(kind).mppeType = "MPPE_ALL"
    BY <1>1 DEF Default, PptpDefault
  <2> QED
    BY <2>1, <2>2, MapsMember DEF EnumsTyped
<1>2. CASE kind # "pptp"
  <2>1. Properties(kind) \cap EnumProperties =
          {"connectionType", "staticKeyDirection", "devType", "cipher", "auth",
           "remoteCertTls", "taDir", "proxyType"}
    BY <1>2, OvDomains, EnumDomains, SMT DEF Properties, Default, EnumProperties
  <2>2. PICK a : a = Over(OvTls, OvProxy)
    OBVIOUS
  <2>3. PICK b : b = Over(OvSecurity, a)
    OBVIOUS
  <2>4. PICK c : c = Over(OvGeneral, b)
    OBVIOUS
  <2>5. OvDefault = Over(OvBasic, c)
    BY <2>2, <2>3, <2>4 DEF OvDefault
  <2>6. a.proxyType = "NOT_REQUIRED" /\ a.remoteCertTls = "SERVER" /\ a.taDir = "KEY_NONE"
    BY <2>2 DEF Over, OvTls, OvProxy
  <2>7. /\ b.proxyType = a.proxyType /\ b.remoteCertTls = a.remoteCertTls /\ b.taDir = a.taDir
        /\ b.cipher = "DEFAULT_CIPHER" /\ b.auth = "DEFAULT_AUTH"
    <3>1. \A p \in {"proxyType", "remoteCertTls", "taDir"} :
             p \in DOMAIN a /\ p \notin DOMAIN OvSecurity
      BY <2>2, OvDomains, SMT DEF Over
    <3>2. \A p \in {"proxyType", "remoteCertTls", "taDir"} : b[p] = a[p]
      BY <2>3, <3>1 DEF Over
    <3>3. b.cipher = "DEFAULT_CIPHER" /\ b.auth = "DEFAULT_AUTH"
      BY <2>3 DEF Over, OvSecurity
    <3> QED
      BY <3>2, <3>3
  <2>8. /\ c.proxyType = b.proxyType /\ c.remoteCertTls = b.remoteCertTls /\ c.taDir = b.taDir
        /\ c.cipher = b.cipher /\ c.auth = b.auth /\ c.devType = "TUN"
    <3>1. \A p \in {"proxyType", "remoteCertTls", "taDir", "cipher", "auth"} :
             p \in DOMAIN b /\ p \notin DOMAIN OvGeneral
      BY <2>2, <2>3, OvDomains, SMT DEF Over
    <3>2. \A p \in {"proxyType", "remoteCertTls", "taDir", "cipher", "auth"} : c[p] = b[p]
      BY <2>4, <3>1 DEF Over
    <3>3. c.devType = "TUN"
      BY <2>4 DEF Over, OvGeneral
    <3> QED
      BY <3>2, <3>3
  <2>9. /\ OvDefault.proxyType = c.proxyType /\ OvDefault.remoteCertTls = c.remoteCertTls
        /\ OvDefault.taDir = c.taDir /\ OvDefault.cipher = c.cipher
        /\ OvDefault.auth = c.auth /\ OvDefault.devType = c.devType
        /\ OvDefault.connectionType = "TLS" /\ OvDefault.staticKeyDirection = "KEY_NONE"
    <3>1. \A p \in {"proxyType", "remoteCertTls", "taDir", "cipher", "auth", "devType"} :
             p \in DOMAIN c /\ p \notin DOMAIN OvBasic
      BY <2>2, <2>3, <2>4, OvDomains, SMT DEF Over
    <3>2. \A p \in {"proxyType", "remoteCertTls", "taDir", "cipher", "auth", "devType"} :
             OvDefault[p] = c[p]
      BY <2>5, <3>1 DEF Over
    <3>3. OvDefault.connectionType = "TLS" /\ OvDefault.staticKeyDirection = "KEY_NONE"
      BY <2>5 DEF Over, OvBasic
    <3> QED
      BY <3>2, <3>3
  <2> QED
    BY <1>2, <2>1, <2>6, <2>7, <2>8, <2>9, MapsMember DEF EnumsTyped, Default
<1> QED
  BY <1>1, <1>2

-----------------------------------------------------------------------------
(* A bus is a finite sequence of signals.  The client is told value w of   *)
(* property p: the queue has it, or else the last signal on its way that   *)
(* mentions p, or, when there is none, the client's cache.                 *)
IsBus(b) == \E S : b \in Seq(S)
Mentions(m, i, p) == m.interface = i /\ p \in DOMAIN m.changed
ToldOn(q, b, c, i, p, w) ==
    /\ p \in DOMAIN q => q[p] = w
    /\ p \notin DOMAIN q =>
          /\ \A k \in 1..Len(b) :
                Mentions(b[k], i, p) /\ (\A j \in (k + 1)..Len(b) : ~Mentions(b[j], i, p))
                    => b[k].changed[p] = w
          /\ (\A k \in 1..Len(b) : ~Mentions(b[k], i, p)) => c[p] = w

(* One signal more,                                                        *)
LEMMA BusAppend ==
    ASSUME NEW b, IsBus(b), NEW e
    PROVE  /\ IsBus(Append(b, e)) /\ Len(Append(b, e)) = Len(b) + 1 /\ Len(b) \in Nat
           /\ Append(b, e)[Len(b) + 1] = e
           /\ \A k \in 1..Len(b) : Append(b, e)[k] = b[k]
<1>1. PICK S : b \in Seq(S)
  BY DEF IsBus
<1>2. b \in Seq(S \cup {e}) /\ e \in S \cup {e}
  BY <1>1
<1>3. Append(b, e) \in Seq(S \cup {e})
  BY <1>2
<1>4. IsBus(Append(b, e))
  BY <1>3 DEF IsBus
<1> QED
  BY <1>2, <1>4

(* in the form the flush of the queue adds it;                             *)
LEMMA BusConcat ==
    ASSUME NEW b, IsBus(b), NEW e
    PROVE  b \o <<>> = b /\ b \o <<e>> = Append(b, e)
<1>1. PICK S : b \in Seq(S)
  BY DEF IsBus
<1>2. b \in Seq(S \cup {e}) /\ e \in S \cup {e}
  BY <1>1
<1>3. b \o <<>> = b
  BY <1>1
<1>4. b \o <<e>> = Append(b, e)
  BY <1>2
<1> QED
  BY <1>3, <1>4

(* one signal less.                                                        *)
LEMMA BusTail ==
    ASSUME NEW b, IsBus(b), b # <<>>
    PROVE  /\ IsBus(Tail(b)) /\ Len(b) \in Nat /\ Len(b) > 0 /\ Len(Tail(b)) = Len(b) - 1
           /\ Head(b) = b[1]
           /\ \A k \in 1..Len(Tail(b)) : Tail(b)[k] = b[k + 1]
<1>1. PICK S : b \in Seq(S)
  BY DEF IsBus
<1> QED
  BY <1>1 DEF IsBus

(* The flush of p's own interface moves the value from the queue to the    *)
(* last signal;                                                            *)
LEMMA ToldFlush ==
    ASSUME NEW q, NEW b, IsBus(b), NEW c, NEW i, NEW p, NEW w, ToldOn(q, b, c, i, p, w),
           NEW b1, DOMAIN q = {} => b1 = b,
           DOMAIN q # {} => b1 = Append(b, [interface |-> i, changed |-> q])
    PROVE  IsBus(b1) /\ ToldOn(NoKeys, b1, c, i, p, w)
<1>0. DOMAIN NoKeys = {}
  BY DEF NoKeys
<1>1. CASE DOMAIN q = {}
  BY <1>0, <1>1 DEF ToldOn
<1>2. CASE DOMAIN q # {}
  <2>1. PICK e : e = [interface |-> i, changed |-> q]
    OBVIOUS
  <2>2. e.interface = i /\ e.changed = q
    BY <2>1
  <2>3. b1 = Append(b, e)
    BY <1>2, <2>1
  <2>4. /\ IsBus(b1) /\ Len(b1) = Len(b) + 1 /\ Len(b) \in Nat
        /\ b1[Len(b) + 1] = e
        /\ \A k \in 1..Len(b) : b1[k] = b[k]
    BY <2>3, BusAppend
  <2>5. CASE p \in DOMAIN q
    <3>1. Mentions(b1[Len(b) + 1], i, p) /\ q[p] = w
      BY <2>2, <2>4, <2>5 DEF Mentions, ToldOn
    <3>2. ASSUME NEW k \in 1..Len(b1), Mentions(b1[k], i, p),
                 \A j \in (k + 1)..Len(b1) : ~Mentions(b1[j], i, p)
          PROVE  b1[k].changed[p] = w
      <4>1. k = Len(b) + 1
        <5>1. SUFFICES ASSUME k # Len(b) + 1
                       PROVE  FALSE
          OBVIOUS
        <5>2. Len(b) + 1 \in (k + 1)..Len(b1)
          BY <2>4, <5>1
        <5> QED
          BY <3>1, <3>2, <5>2
      <4> QED
        BY <2>2, <2>4, <3>1, <4>1
    <3>3. Len(b) + 1 \in 1..Len(b1)
      BY <2>4
    <3> QED
      BY <1>0, <2>4, <3>1, <3>2, <3>3 DEF ToldOn
  <2>6. CASE p \notin DOMAIN q
    <3>1. ~Mentions(b1[Len(b) + 1], i, p)
      BY <2>2, <2>4, <2>6 DEF Mentions
    <3>2. ASSUME NEW k \in 1..Len(b1), Mentions(b1[k], i, p),
                 \A j \in (k + 1)..Len(b1) : ~Mentions(b1[j], i, p)
          PROVE  b1[k].changed[p] = w
      <4>1. k \in 1..Len(b) /\ b1[k] = b[k]
        BY <2>4, <3>1, <3>2
      <4>2. \A j \in (k + 1)..Len(b) : ~Mentions(b[j], i, p)
        BY <2>4, <3>2
      <4> QED
        BY <2>6, <3>2, <4>1, <4>2 DEF ToldOn
    <3>3. ASSUME \A k \in 1..Len(b1) : ~Mentions(b1[k], i, p)
          PROVE  c[p] = w
      <4>1. \A k \in 1..Len(b) : ~Mentions(b[k], i, p)
        BY <2>4, <3>3
      <4> QED
        BY <2>6, <4>1 DEF ToldOn
    <3> QED
      BY <1>0, <2>4, <3>2, <3>3 DEF ToldOn
  <2> QED
    BY <2>5, <2>6
<1> QED
  BY <1>1, <1>2

(* a signal of the other interface tells nothing about p;                  *)
LEMMA ToldOther ==
    ASSUME NEW q, NEW b, IsBus(b), NEW c, NEW i, NEW p, NEW w, ToldOn(q, b, c, i, p, w),
           NEW r, NEW h, h # i,
           NEW b1, DOMAIN r = {} => b1 = b,
           DOMAIN r # {} => b1 = Append(b, [interface |-> h, changed |-> r])
    PROVE  IsBus(b1) /\ ToldOn(q, b1, c, i, p, w)
<1>1. CASE DOMAIN r = {}
  BY <1>1
<1>2. CASE DOMAIN r # {}
  <2>1. PICK e : e = [interface |-> h, changed |-> r]
    OBVIOUS
  <2>2. e.interface = h
    BY <2>1
  <2>3. b1 = Append(b, e)
    BY <1>2, <2>1
  <2>4. /\ IsBus(b1) /\ Len(b1) = Len(b) + 1 /\ Len(b) \in Nat
        /\ b1[Len(b) + 1] = e
        /\ \A k \in 1..Len(b) : b1[k] = b[k]
    BY <2>3, BusAppend
  <2>5. ~Mentions(b1[Len(b) + 1], i, p)
    BY <2>2, <2>4 DEF Mentions
  <2>6. ASSUME p \notin DOMAIN q, NEW k \in 1..Len(b1), Mentions(b1[k], i, p),
               \A j \in (k + 1)..Len(b1) : ~Mentions(b1[j], i, p)
        PROVE  b1[k].changed[p] = w
    <3>1. k \in 1..Len(b) /\ b1[k] = b[k]
      BY <2>4, <2>5, <2>6
    <3>2. \A j \in (k + 1)..Len(b) : ~Mentions(b[j], i, p)
      BY <2>4, <2>6
    <3> QED
      BY <2>6, <3>1, <3>2 DEF ToldOn
  <2>7. ASSUME p \notin DOMAIN q, \A k \in 1..Len(b1) : ~Mentions(b1[k], i, p)
        PROVE  c[p] = w
    <3>1. \A k \in 1..Len(b) : ~Mentions(b[k], i, p)
      BY <2>4, <2>7
    <3> QED
      BY <2>7, <3>1 DEF ToldOn
  <2> QED
    BY <2>4, <2>6, <2>7 DEF ToldOn
<1> QED
  BY <1>1, <1>2

(* and the client that takes the first signal in keeps the later ones and  *)
(* knows what it said.                                                     *)
LEMMA ToldHeard ==
    ASSUME NEW q, NEW b, IsBus(b), b # <<>>, NEW i, NEW p, NEW c, p \in DOMAIN c, NEW w,
           ToldOn(q, b, c, i, p, w),
           NEW d, d = IF Head(b).interface = i THEN Over(Head(b).changed, c) ELSE c
    PROVE  ToldOn(q, Tail(b), d, i, p, w) /\ p \in DOMAIN d
<1>1. PICK t : t = Tail(b)
  OBVIOUS
<1>2. /\ IsBus(t) /\ Len(b) \in Nat /\ Len(b) > 0 /\ Len(t) = Len(b) - 1
      /\ Head(b) = b[1]
      /\ \A k \in 1..Len(t) : t[k] = b[k + 1]
  BY <1>1, BusTail
<1>3. PICK e : e = Head(b)
  OBVIOUS
<1>4. /\ Mentions(e, i, p) => d[p] = e.changed[p]
      /\ ~Mentions(e, i, p) => d[p] = c[p]
      /\ p \in DOMAIN d
  BY <1>3 DEF Mentions, Over
<1>5. \A j \in 2..Len(b) : j - 1 \in 1..Len(t) /\ b[j] = t[j - 1]
  BY <1>2
<1>6. ASSUME p \notin DOMAIN q, NEW k \in 1..Len(t), Mentions(t[k], i, p),
             \A j \in (k + 1)..Len(t) : ~Mentions(t[j], i, p)
      PROVE  t[k].changed[p] = w
  <2>1. k + 1 \in 1..Len(b) /\ b[k + 1] = t[k]
    BY <1>2
  <2>2. ASSUME NEW j \in ((k + 1) + 1)..Len(b)
        PROVE  ~Mentions(b[j], i, p)
    <3>1. j \in 2..Len(b) /\ j - 1 \in (k + 1)..Len(t)
      BY <1>2, <2>1
    <3> QED
      BY <1>5, <1>6, <3>1
  <2> QED
    BY <1>6, <2>1, <2>2 DEF ToldOn
<1>7. ASSUME p \notin DOMAIN q, \A k \in 1..Len(t) : ~Mentions(t[k], i, p)
      PROVE  d[p] = w
  <2>1. \A j \in 2..Len(b) : ~Mentions(b[j], i, p)
    BY <1>5, <1>7
  <2>2. CASE Mentions(e, i, p)
    <3>1. 1 \in 1..Len(b) /\ b[1] = e
      BY <1>2, <1>3
    <3>2. \A j \in (1 + 1)..Len(b) : ~Mentions(b[j], i, p)
      BY <2>1
    <3>3. b[1].changed[p] = w
      BY <1>7, <2>2, <3>1, <3>2 DEF ToldOn
    <3> QED
      BY <1>4, <2>2, <3>1, <3>3
  <2>3. CASE ~Mentions(e, i, p)
    <3>1. \A j \in 1..Len(b) : ~Mentions(b[j], i, p)
      <4>1. ASSUME NEW j \in 1..Len(b)
            PROVE  ~Mentions(b[j], i, p)
        <5>1. j = 1 \/ j \in 2..Len(b)
          BY <1>2
        <5> QED
          BY <1>2, <1>3, <2>1, <2>3, <5>1
      <4> QED
        BY <4>1
    <3> QED
      BY <1>4, <1>7, <2>3, <3>1 DEF ToldOn
  <2> QED
    BY <2>2, <2>3
<1> QED
  BY <1>1, <1>4, <1>6, <1>7 DEF ToldOn

-----------------------------------------------------------------------------
(* The value of a property as it is sent; Told: the client is on its way   *)
(* to it for every property.                                               *)
Wire(s, p) == Ordinal(EnumOf, p, Current(s, p))
Told(s, q, b, c) ==
    /\ IsBus(b)
    /\ DOMAIN q = Interfaces /\ DOMAIN c = Interfaces
    /\ \A p \in AllProperties :
          /\ p \in DOMAIN c[InterfaceOf(p)]
          /\ ToldOn(q[InterfaceOf(p)], b, c[InterfaceOf(p)], InterfaceOf(p), p, Wire(s, p))

(* The values the service has are a matter of three of its members.        *)
LEMMA CurrentSame ==
    ASSUME NEW s, NEW t, t.id = s.id, t.neverDefault = s.neverDefault, t.data = s.data, NEW p
    PROVE  Current(t, p) = Current(s, p)
<1>1. CASE p = "id"
  <2>1. p # "neverDefault"
    BY <1>1
  <2> QED
    BY <1>1, <2>1, Zenon DEF Current
<1>2. CASE p = "neverDefault"
  <2>1. p # "id"
    BY <1>2
  <2> QED
    BY <1>2, <2>1, Zenon DEF Current
<1>3. CASE p # "id" /\ p # "neverDefault"
  BY <1>3, Zenon DEF Current
<1> QED
  BY <1>1, <1>2, <1>3

(* A step of the service that leaves these alone leaves the client told.   *)
LEMMA ToldSame ==
    ASSUME NEW s, NEW q, NEW b, NEW c, Told(s, q, b, c),
           NEW t, t.id = s.id, t.neverDefault = s.neverDefault, t.data = s.data
    PROVE  Told(t, q, b, c)
<1>1. \A p : Wire(t, p) = Wire(s, p)
  BY CurrentSame DEF Wire
<1> QED
  BY <1>1 DEF Told

(* notifyPropertyChanged() for every difference keeps the client told.     *)
LEMMA ToldNotify ==
    ASSUME NEW s, NEW q, NEW b, NEW c, Told(s, q, b, c), NEW t
    PROVE  Told(t, Notify(q, s, t), b, c)
<1> DEFINE changed(i) == {p \in AllProperties \cap Announced :
                             InterfaceOf(p) = i /\ Current(s, p) # Current(t, p)}
           n == Notify(q, s, t)
<1>1. /\ DOMAIN n = Interfaces
      /\ \A i \in Interfaces : n[i] = Over([p \in changed(i) |-> Wire(t, p)], q[i])
  BY DEF Notify, Wire
<1>2. ASSUME NEW p \in AllProperties
      PROVE  ToldOn(n[InterfaceOf(p)], b, c[InterfaceOf(p)], InterfaceOf(p), p, Wire(t, p))
  <2>1. PICK i : i = InterfaceOf(p)
    OBVIOUS
  <2>2. i \in Interfaces
    BY <2>1 DEF InterfaceOf, Interfaces
  <2>3. ToldOn(q[i], b, c[i], i, p, Wire(s, p))
    BY <2>1 DEF Told
  <2>4. PICK f : f = [r \in changed(i) |-> Wire(t, r)]
    OBVIOUS
  <2>5. n[i] = Over(f, q[i])
    BY <1>1, <2>2, <2>4
  <2>6. CASE p \in changed(i)
    <3>1. p \in DOMAIN f /\ f[p] = Wire(t, p)
      BY <2>4, <2>6
    <3>2. p \in DOMAIN n[i] /\ n[i][p] = Wire(t, p)
      BY <2>5, <3>1 DEF Over
    <3> QED
      BY <2>1, <3>2 DEF ToldOn
  <2>7. CASE p \notin changed(i)
    <3>1. Current(s, p) = Current(t, p)
      BY <2>1, <2>7, Tables
    <3>2. Wire(s, p) = Wire(t, p)
      BY <3>1 DEF Wire
    <3>3. p \notin DOMAIN f
      BY <2>4, <2>7
    <3>4. /\ p \in DOMAIN n[i] <=> p \in DOMAIN q[i]
          /\ p \in DOMAIN n[i] => n[i][p] = q[i][p]
      BY <2>5, <3>3 DEF Over
    <3> QED
      BY <2>1, <2>3, <3>2, <3>4 DEF ToldOn
  <2> QED
    BY <2>6, <2>7
<1> QED
  BY <1>1, <1>2 DEF Told

(* The flush of both interfaces keeps the client told.                     *)
LEMMA ToldFlushed ==
    ASSUME NEW s, NEW q, NEW b, NEW c, Told(s, q, b, c),
           NEW v, IF DOMAIN q["vpn"] = {} THEN v = b
                  ELSE v = Append(b, [interface |-> "vpn", changed |-> q["vpn"]]),
           NEW u, IF DOMAIN q["typed"] = {} THEN u = v
                  ELSE u = Append(v, [interface |-> "typed", changed |-> q["typed"]])
    PROVE  Told(s, EmptyQueue, u, c)
<1>1. DOMAIN EmptyQueue = Interfaces /\ \A i \in Interfaces : EmptyQueue[i] = NoKeys
  BY DEF EmptyQueue
<1>2. ASSUME NEW p \in AllProperties
      PROVE  /\ IsBus(u)
             /\ ToldOn(NoKeys, u, c[InterfaceOf(p)], InterfaceOf(p), p, Wire(s, p))
  <2>1. PICK i : i = InterfaceOf(p)
    OBVIOUS
  <2>2. i \in {"vpn", "typed"}
    BY <2>1 DEF InterfaceOf
  <2>3. IsBus(b) /\ ToldOn(q[i], b, c[i], i, p, Wire(s, p))
    BY <2>1 DEF Told
  <2>4. CASE i = "vpn"
    <3>1. IsBus(v) /\ ToldOn(NoKeys, v, c[i], i, p, Wire(s, p))
      BY <2>3, <2>4, ToldFlush
    <3>2. "typed" # i
      BY <2>4
    <3>3. IsBus(u) /\ ToldOn(NoKeys, u, c[i], i, p, Wire(s, p))
      BY <3>1, <3>2, ToldOther
    <3> QED
      BY <2>1, <3>3
  <2>5. CASE i = "typed"
    <3>1. "vpn" # i
      BY <2>5
    <3>2. IsBus(v) /\ ToldOn(q[i], v, c[i], i, p, Wire(s, p))
      BY <2>3, <3>1, ToldOther
    <3>3. IsBus(u) /\ ToldOn(NoKeys, u, c[i], i, p, Wire(s, p))
      BY <2>5, <3>2, ToldFlush
    <3> QED
      BY <2>1, <3>3
  <2> QED
    BY <2>2, <2>4, <2>5
<1>3. "id" \in AllProperties
  BY DEF AllProperties, VpnProperties
<1>4. IsBus(u)
  BY <1>2, <1>3
<1>5. \A p : InterfaceOf(p) \in Interfaces
  BY DEF InterfaceOf, Interfaces
<1> QED
  BY <1>1, <1>2, <1>4, <1>5 DEF Told

(* propertiesChanged() of the client keeps it told.                        *)
LEMMA ToldReceived ==
    ASSUME NEW s, NEW q, NEW b, NEW c, Told(s, q, b, c), b # <<>>
    PROVE  Told(s, q, Tail(b),
                [c EXCEPT ![Head(b).interface] = Over(Head(b).changed, @)])
<1>1. PICK h, e : h = Head(b).interface /\ e = Head(b).changed
  OBVIOUS
<1>2. PICK d : d = [c EXCEPT ![h] = Over(e, @)]
  OBVIOUS
<1>3. /\ DOMAIN d = DOMAIN c
      /\ \A i \in DOMAIN c : d[i] = IF h = i THEN Over(e, c[i]) ELSE c[i]
  BY <1>2
<1>4. IsBus(Tail(b))
  BY BusTail DEF Told
<1>5. ASSUME NEW p \in AllProperties
      PROVE  /\ p \in DOMAIN d[InterfaceOf(p)]
             /\ ToldOn(q[InterfaceOf(p)], Tail(b), d[InterfaceOf(p)], InterfaceOf(p), p,
                       Wire(s, p))
  <2>1. PICK i, w : i = InterfaceOf(p) /\ w = Wire(s, p)
    OBVIOUS
  <2>2. i \in DOMAIN c
    BY <2>1 DEF Told, InterfaceOf, Interfaces
  <2>3. IsBus(b) /\ p \in DOMAIN c[i] /\ ToldOn(q[i], b, c[i], i, p, w)
    BY <2>1 DEF Told
  <2>4. PICK x, y, r : x = c[i] /\ y = d[i] /\ r = q[i]
    OBVIOUS
  <2>5. y = IF Head(b).interface = i THEN Over(Head(b).changed, x) ELSE x
    BY <1>1, <1>3, <2>2, <2>4
  <2>6. ToldOn(r, Tail(b), y, i, p, w) /\ p \in DOMAIN y
    BY <2>3, <2>4, <2>5, ToldHeard
  <2> QED
    BY <2>1, <2>4, <2>6
<1>6. Told(s, q, Tail(b), d)
  BY <1>3, <1>4, <1>5 DEF Told
<1> QED
  BY <1>1, <1>2, <1>6

-----------------------------------------------------------------------------
(* The inductive invariant that ties the client to the service.            *)
ToldInv == Told(svc, queue, bus, cache)

(* The type of a connection never changes.                                 *)
LEMMA KindKept ==
    ASSUME [Next]_vars
    PROVE  kind' = kind
BY DEF Next, vars, UserSet, UserUpdateSecrets, HandleSet, HandleUpdateSecrets,
       DispatchPendingSettings, SettingsUpdated, FlushPropertyChanges, PropertiesChanged,
       ForeignEdit, Remove

(* The signals of one interface are none or one.                           *)
LEMMA Concat ==
    ASSUME NEW b, IsBus(b), NEW i
    PROVE  IF DOMAIN queue[i] = {} THEN b \o SignalsOf(i) = b
           ELSE b \o SignalsOf(i) = Append(b, [interface |-> i, changed |-> queue[i]])
<1>1. CASE DOMAIN queue[i] = {}
  BY <1>1, BusConcat DEF SignalsOf
<1>2. CASE DOMAIN queue[i] # {}
  <2>1. PICK e : e = [interface |-> i, changed |-> queue[i]]
    OBVIOUS
  <2>2. SignalsOf(i) = <<e>>
    BY <1>2, <2>1 DEF SignalsOf
  <2>3. b \o SignalsOf(i) = Append(b, e)
    BY <2>2, BusConcat
  <2> QED
    BY <1>2, <2>1, <2>3
<1> QED
  BY <1>1, <1>2

(* flushPropertyChanges() keeps the client told.                           *)
LEMMA FlushTold ==
    ASSUME ToldInv
    PROVE  Told(svc, EmptyQueue, bus \o SignalsOf("vpn") \o SignalsOf("typed"), cache)
<1>1. PICK v : v = bus \o SignalsOf("vpn")
  OBVIOUS
<1>2. PICK u : u = v \o SignalsOf("typed")
  OBVIOUS
<1>3. IsBus(bus)
  BY DEF ToldInv, Told
<1>4. IF DOMAIN queue["vpn"] = {} THEN v = bus
      ELSE v = Append(bus, [interface |-> "vpn", changed |-> queue["vpn"]])
  BY <1>1, <1>3, Concat
<1>5. IsBus(v)
  <2>1. PICK e : e = [interface |-> "vpn", changed |-> queue["vpn"]]
    OBVIOUS
  <2>2. v = bus \/ v = Append(bus, e)
    BY <1>4, <2>1
  <2>3. IsBus(Append(bus, e))
    BY <1>3, BusAppend
  <2> QED
    BY <1>3, <2>2, <2>3
<1>6. IF DOMAIN queue["typed"] = {} THEN u = v
      ELSE u = Append(v, [interface |-> "typed", changed |-> queue["typed"]])
  BY <1>2, <1>5, Concat
<1>7. Told(svc, queue, bus, cache)
  BY DEF ToldInv
<1>8. Told(svc, EmptyQueue, u, cache)
  BY <1>4, <1>6, <1>7, ToldFlushed
<1> QED
  BY <1>1, <1>2, <1>8

(* The client starts with the values of the service.                       *)
LEMMA InitTold ==
    ASSUME Init
    PROVE  ToldInv
<1>1. bus = <<>> /\ queue = EmptyQueue
      /\ cache = [i \in Interfaces |-> [p \in {q \in AllProperties : InterfaceOf(q) = i} |->
                                           Wire(svc, p)]]
  BY DEF Init, Wire
<1>2. IsBus(bus) /\ Len(bus) = 0
  <2>1. bus \in Seq({}) /\ Len(bus) = 0
    BY <1>1
  <2> QED
    BY <2>1 DEF IsBus
<1>3. DOMAIN queue = Interfaces /\ \A i \in Interfaces : queue[i] = NoKeys
  BY <1>1 DEF EmptyQueue
<1>4. DOMAIN NoKeys = {}
  BY DEF NoKeys
<1>5. ASSUME NEW p \in AllProperties
      PROVE  /\ p \in DOMAIN cache[InterfaceOf(p)]
             /\ ToldOn(queue[InterfaceOf(p)], bus, cache[InterfaceOf(p)], InterfaceOf(p), p,
                       Wire(svc, p))
  <2>1. InterfaceOf(p) \in Interfaces
    BY DEF InterfaceOf, Interfaces
  <2>2. p \in DOMAIN cache[InterfaceOf(p)] /\ cache[InterfaceOf(p)][p] = Wire(svc, p)
    BY <1>1, <2>1
  <2> QED
    BY <1>2, <1>3, <1>4, <2>1, <2>2 DEF ToldOn
<1> QED
  BY <1>1, <1>2, <1>3, <1>5 DEF ToldInv, Told

(* Every step keeps the client told.                                       *)
LEMMA ToldStep ==
    ASSUME SvcInv, ToldInv, [Next]_vars
    PROVE  ToldInv'
<1> DEFINE Becomes(s, q, b, c) == svc' = s /\ queue' = q /\ bus' = b /\ cache' = c
<1>0. ASSUME NEW s, NEW q, NEW b, NEW c, Told(s, q, b, c), Becomes(s, q, b, c)
      PROVE  ToldInv'
  BY <1>0, KindKept
  DEF ToldInv, Told, AllProperties, Wire, ToldOn, IsBus, Mentions
<1> HIDE DEF Becomes
<1>1. ASSUME svc' = svc, queue' = queue, bus' = bus, cache' = cache
      PROVE  ToldInv'
  BY <1>0, <1>1 DEF ToldInv, Becomes
<1>2. CASE UNCHANGED vars
  BY <1>1, <1>2 DEF vars
<1>3. ASSUME NEW e \in Edits[kind], UserSet(e[1], e[2])
      PROVE  ToldInv'
  BY <1>1, <1>3 DEF UserSet
<1>4. CASE UserUpdateSecrets
  BY <1>1, <1>4 DEF UserUpdateSecrets
<1>5. CASE HandleSet
  <2>1. PICK p, v : /\ p = Head(calls).property
                    /\ v = Enumerator(EnumOf, p, Head(calls).value)
    OBVIOUS
  <2>2. /\ svc' = IF p \in Writable THEN setProperty(svc, p, v) ELSE svc
        /\ UNCHANGED <<queue, bus, cache>>
    BY <1>5, <2>1 DEF HandleSet
  <2>3. CASE p \notin Writable
    BY <1>1, <2>2, <2>3
  <2>4. CASE p \in Writable
    <3>1. PICK t : t = setProperty(svc, p, v)
      OBVIOUS
    <3>2. t.id = svc.id /\ t.neverDefault = svc.neverDefault /\ t.data = svc.data
      BY <2>4, <3>1, SetterEffect, Tables DEF SvcInv
    <3>3. Told(t, queue, bus, cache)
      BY <3>2, ToldSame DEF ToldInv
    <3> QED
      BY <1>0, <2>2, <2>4, <3>1, <3>3 DEF Becomes
  <2> QED
    BY <2>3, <2>4
<1>6. ASSUME NEW ok \in BOOLEAN, HandleUpdateSecrets(ok)
      PROVE  ToldInv'
  <2>1. PICK t : t = IF ok THEN [svc EXCEPT !.data = UpdateSecrets(kind, svc.data, nm.secrets)]
                     ELSE svc
    OBVIOUS
  <2>2. svc' = t /\ queue' = Notify(queue, svc, svc') /\ bus' = bus /\ cache' = cache
    BY <1>6, <2>1 DEF HandleUpdateSecrets
  <2>3. queue' = Notify(queue, svc, t)
    BY <2>2
  <2>4. Told(t, Notify(queue, svc, t), bus, cache)
    BY ToldNotify DEF ToldInv
  <2> QED
    BY <1>0, <2>2, <2>3, <2>4 DEF Becomes
<1>7. ASSUME NEW ok \in BOOLEAN, DispatchPendingSettings(ok)
      PROVE  ToldInv'
  <2>1. PICK t : t = [svc EXCEPT !.timer = FALSE, !.dirty = FALSE, !.typedDirty = FALSE]
    OBVIOUS
  <2>2. svc' = t /\ UNCHANGED <<queue, bus, cache>>
    BY <1>7, <2>1 DEF DispatchPendingSettings
  <2>3. t.id = svc.id /\ t.neverDefault = svc.neverDefault /\ t.data = svc.data
    BY <2>1 DEF SvcInv, IsShape, IsSvc, SvcFields
  <2>4. Told(t, queue, bus, cache)
    BY <2>3, ToldSame DEF ToldInv
  <2> QED
    BY <1>0, <2>2, <2>4 DEF Becomes
<1>8. CASE SettingsUpdated
  <2>1. PICK t : t = IF ~nm.exists THEN svc
                     ELSE [svc EXCEPT !.settings = SettingsOf(nm), !.id = nm.id,
                                      !.neverDefault = nm.ipv4,
                                      !.data = UpdateData(kind, svc.data, nm.data)]
    OBVIOUS
  <2>2. svc' = t /\ queue' = Notify(queue, svc, svc') /\ bus' = bus /\ cache' = cache
    BY <1>8, <2>1 DEF SettingsUpdated
  <2>3. queue' = Notify(queue, svc, t)
    BY <2>2
  <2>4. Told(t, Notify(queue, svc, t), bus, cache)
    BY ToldNotify DEF ToldInv
  <2> QED
    BY <1>0, <2>2, <2>3, <2>4 DEF Becomes
<1>9. CASE FlushPropertyChanges
  <2>1. PICK u : u = bus \o SignalsOf("vpn") \o SignalsOf("typed")
    OBVIOUS
  <2>2. bus' = u /\ queue' = EmptyQueue /\ svc' = svc /\ cache' = cache
    BY <1>9, <2>1 DEF FlushPropertyChanges
  <2>3. Told(svc, EmptyQueue, u, cache)
    BY <2>1, FlushTold
  <2> QED
    BY <1>0, <2>2, <2>3 DEF Becomes
<1>10. CASE PropertiesChanged
  <2>1. PICK d : d = [cache EXCEPT ![Head(bus).interface] = Over(Head(bus).changed, @)]
    OBVIOUS
  <2>2. bus # <<>> /\ cache' = d /\ bus' = Tail(bus) /\ svc' = svc /\ queue' = queue
    BY <1>10, <2>1 DEF PropertiesChanged
  <2>3. Told(svc, queue, Tail(bus), d)
    BY <2>1, <2>2, ToldReceived DEF ToldInv
  <2> QED
    BY <1>0, <2>2, <2>3 DEF Becomes
<1>11. ASSUME NEW e \in Foreign[kind], ForeignEdit(e[1], e[2])
       PROVE  ToldInv'
  BY <1>1, <1>11 DEF ForeignEdit
<1>12. CASE Remove
  BY <1>1, <1>12 DEF Remove
<1> QED
  BY <1>2, <1>3, <1>4, <1>5, <1>6, <1>7, <1>8, <1>9, <1>10, <1>11, <1>12 DEF Next

-----------------------------------------------------------------------------
(* NetworkManager's copy has just these fields.  Agrees: the members of    *)
(* the service are what reading this copy gives.  ReadBack: they agree     *)
(* when no Updated signal is on its way and the connection exists.         *)
NmFields == {"exists", "id", "ipv4", "ipv6", "data", "secrets"}
IsNm(n) == n = [f \in NmFields |-> n[f]]
Agrees(s, n) == /\ s.id = n.id /\ s.neverDefault = n.ipv4
                /\ s.settings = SettingsOf(n)
                /\ s.data = UpdateData(kind, s.data, n.data)
ReadBack(s, n, u) == /\ IsNm(n) /\ u \in Nat /\ EnumsTyped(s.data)
                     /\ n.exists /\ u = 0 => Agrees(s, n)

(* The inductive invariant that ties the service to NetworkManager.        *)
StoreInv == ReadBack(svc, nm, updates)

(* Reading secrets touches no enumeration.                                 *)
LEMMA SecretsTyped ==
    ASSUME NEW x, IsStruct(x), EnumsTyped(x), NEW m
    PROVE  EnumsTyped(UpdateSecrets(kind, x, m))
<1>1. PICK y : y = UpdateSecrets(kind, x, m)
  OBVIOUS
<1>2. \A p \in Properties(kind) \ SecretProperties(kind) : y[p] = x[p]
  <2>1. CASE kind = "pptp"
    BY <2>1, <1>1
    DEF UpdateSecrets, PptpUpdateSecrets, SecretProperties, PptpSecretProperties, IsStruct
  <2>2. CASE kind # "pptp"
    <3>1. PICK v : v = OvReadProxyPassword(x.proxyType, m, x.proxyPassword)
      OBVIOUS
    <3>2. y = [x EXCEPT !.certPass = Value(m, "cert-pass"),
                        !.password = Value(m, "password"), !.proxyPassword = v]
      BY <1>1, <2>2, <3>1 DEF OvUpdateSecrets, UpdateSecrets
    <3> QED
      BY <2>2, <3>2 DEF SecretProperties, OvSecretProperties, IsStruct
  <2> QED
    BY <2>1, <2>2
<1>3. SecretProperties(kind) \cap EnumProperties = {}
  BY EnumDomains, SMT
  DEF SecretProperties, OvSecretProperties, PptpSecretProperties, EnumProperties
<1> QED
  BY <1>1, <1>2, <1>3 DEF EnumsTyped

(* ReadBack is about four members of the service.                          *)
LEMMA ReadBackSame ==
    ASSUME NEW s, NEW n, NEW u, ReadBack(s, n, u),
           NEW t, t.id = s.id, t.neverDefault = s.neverDefault, t.settings = s.settings,
           t.data = s.data
    PROVE  ReadBack(t, n, u)
BY DEF ReadBack, Agrees, EnumsTyped

(* The constructor has read the settings.                                  *)
LEMMA InitStore ==
    ASSUME Init
    PROVE  StoreInv
<1>1. PICK x : x = UpdateData(kind, Default(kind), nm.data)
  OBVIOUS
<1>2. PICK g : g = SettingsOf(nm)
  OBVIOUS
<1>3. PICK y : y = Default(kind)
  OBVIOUS
<1>4. svc = [settings |-> g, pending |-> g, dirty |-> FALSE, timer |-> FALSE, id |-> nm.id,
             neverDefault |-> nm.ipv4, data |-> x, pendingData |-> y, typedDirty |-> FALSE]
  BY <1>1, <1>2, <1>3 DEF Init
<1>5. Agrees(svc, nm)
  <2>1. UpdateData(kind, x, nm.data) = x
    BY <1>1, UpdateTwice, DefaultStruct
  <2> QED
    BY <1>2, <1>4, <2>1 DEF Agrees
<1>6. EnumsTyped(svc.data)
  BY <1>1, <1>4, EnumsRead, DefaultEnums, DefaultStruct
<1>7. IsNm(nm)
  <2>1. PICK d, e : d = BuildData(kind, Stored[kind]) /\ e = BuildSecrets(kind, Stored[kind])
    OBVIOUS
  <2>2. nm = [exists |-> TRUE, id |-> "vpn", ipv4 |-> FALSE, ipv6 |-> FALSE, data |-> d,
              secrets |-> e]
    BY <2>1 DEF Init
  <2> QED
    BY <2>2 DEF IsNm, NmFields
<1>8. updates \in Nat
  BY DEF Init
<1> QED
  BY <1>5, <1>6, <1>7, <1>8 DEF StoreInv, ReadBack

(* Every step keeps ReadBack: what changes NetworkManager's copy sends a   *)
(* signal, and handling a signal reads the copy there is.                  *)
LEMMA StoreStep ==
    ASSUME SvcInv, StoreInv, [Next]_vars
    PROVE  StoreInv'
<1> DEFINE Becomes(s, n, u) == svc' = s /\ nm' = n /\ updates' = u
<1>0. ASSUME NEW s, NEW n, NEW u, ReadBack(s, n, u), Becomes(s, n, u)
      PROVE  StoreInv'
  BY <1>0, KindKept DEF StoreInv, ReadBack, Agrees, IsNm, EnumsTyped, Members
<1> HIDE DEF Becomes
<1>1. ASSUME svc' = svc, nm' = nm, updates' = updates
      PROVE  StoreInv'
  BY <1>0, <1>1 DEF StoreInv, Becomes
<1>2. CASE UNCHANGED vars
  BY <1>1, <1>2 DEF vars
<1>3. ASSUME NEW e \in Edits[kind], UserSet(e[1], e[2])
      PROVE  StoreInv'
  BY <1>1, <1>3 DEF UserSet
<1>4. CASE UserUpdateSecrets
  BY <1>1, <1>4 DEF UserUpdateSecrets
<1>5. CASE HandleSet
  <2>1. PICK p, v : /\ p = Head(calls).property
                    /\ v = Enumerator(EnumOf, p, Head(calls).value)
    OBVIOUS
  <2>2. /\ svc' = IF p \in Writable THEN setProperty(svc, p, v) ELSE svc
        /\ UNCHANGED <<nm, updates>>
    BY <1>5, <2>1 DEF HandleSet
  <2>3. CASE p \notin Writable
    BY <1>1, <2>2, <2>3
  <2>4. CASE p \in Writable
    <3>1. PICK t : t = setProperty(svc, p, v)
      OBVIOUS
    <3>2. /\ t.id = svc.id /\ t.neverDefault = svc.neverDefault /\ t.data = svc.data
          /\ t.settings = svc.settings
      BY <2>4, <3>1, SetterEffect, Tables DEF SvcInv
    <3>3. ReadBack(t, nm, updates)
      BY <3>2, ReadBackSame DEF StoreInv
    <3> QED
      BY <1>0, <2>2, <2>4, <3>1, <3>3 DEF Becomes
  <2> QED
    BY <2>3, <2>4
<1>6. ASSUME NEW ok \in BOOLEAN, HandleUpdateSecrets(ok)
      PROVE  StoreInv'
  <2>1. UNCHANGED <<nm, updates>>
    BY <1>6 DEF HandleUpdateSecrets
  <2>2. CASE ~ok
    BY <1>1, <1>6, <2>1, <2>2 DEF HandleUpdateSecrets
  <2>3. CASE ok
    <3>1. PICK x : x = UpdateSecrets(kind, svc.data, nm.secrets)
      OBVIOUS
    <3>2. PICK t : t = [svc EXCEPT !.data = x]
      OBVIOUS
    <3>3. svc' = t
      BY <1>6, <2>3, <3>1, <3>2 DEF HandleUpdateSecrets
    <3>4. /\ t.data = x /\ t.id = svc.id /\ t.neverDefault = svc.neverDefault
          /\ t.settings = svc.settings
      BY <3>2 DEF SvcInv, IsShape, IsSvc, SvcFields
    <3>5. IsStruct(svc.data)
      BY DEF SvcInv, IsShape
    <3>6. EnumsTyped(x)
      BY <3>1, <3>5, SecretsTyped DEF StoreInv, ReadBack
    <3>7. ASSUME Agrees(svc, nm)
          PROVE  Agrees(t, nm)
      <4>1. svc.data = UpdateData(kind, svc.data, nm.data)
        BY <3>7 DEF Agrees
      <4>2. x = UpdateData(kind, x, nm.data)
        BY <3>1, <3>5, <4>1, SecretsKeepData
      <4> QED
        BY <3>4, <3>7, <4>2 DEF Agrees
    <3>8. ReadBack(t, nm, updates)
      BY <3>4, <3>6, <3>7 DEF StoreInv, ReadBack
    <3> QED
      BY <1>0, <2>1, <3>3, <3>8 DEF Becomes
  <2> QED
    BY <2>2, <2>3
<1>7. ASSUME NEW ok \in BOOLEAN, DispatchPendingSettings(ok)
      PROVE  StoreInv'
  <2>1. PICK t : t = [svc EXCEPT !.timer = FALSE, !.dirty = FALSE, !.typedDirty = FALSE]
    OBVIOUS
  <2>2. svc' = t
    BY <1>7, <2>1 DEF DispatchPendingSettings
  <2>3. /\ t.id = svc.id /\ t.neverDefault = svc.neverDefault /\ t.data = svc.data
        /\ t.settings = svc.settings
    BY <2>1 DEF SvcInv, IsShape, IsSvc, SvcFields
  <2>4. CASE ~ok
    <3>1. ReadBack(t, nm, updates)
      BY <2>3, ReadBackSame DEF StoreInv
    <3>2. nm' = nm /\ updates' = updates
      BY <1>7, <2>4 DEF DispatchPendingSettings
    <3> QED
      BY <1>0, <2>2, <3>1, <3>2 DEF Becomes
  <2>5. CASE ok
    <3>1. PICK a, b, c, d, e : /\ a = svc.pending.id /\ b = svc.pending.ipv4
                               /\ c = svc.pending.ipv6 /\ d = svc.pending.data
                               /\ e = Over(svc.pending.secrets, nm.secrets)
      OBVIOUS
    <3>2. PICK n : n = [nm EXCEPT !.id = a, !.ipv4 = b, !.ipv6 = c, !.data = d, !.secrets = e]
      OBVIOUS
    <3>3. nm' = n /\ updates' = updates + 1
      BY <1>7, <2>5, <3>1, <3>2 DEF DispatchPendingSettings
    <3>4. IsNm(n)
      BY <3>2 DEF StoreInv, ReadBack, IsNm, NmFields
    <3>5. updates + 1 \in Nat /\ updates + 1 # 0
      BY DEF StoreInv, ReadBack
    <3>6. EnumsTyped(t.data)
      BY <2>3 DEF StoreInv, ReadBack
    <3>7. ReadBack(t, n, updates + 1)
      BY <3>4, <3>5, <3>6 DEF ReadBack
    <3> QED
      BY <1>0, <2>2, <3>3, <3>7 DEF Becomes
  <2> QED
    BY <2>4, <2>5
<1>8. CASE SettingsUpdated
  <2>0. updates - 1 \in Nat /\ updates' = updates - 1 /\ nm' = nm
    BY <1>8 DEF SettingsUpdated, StoreInv, ReadBack
  <2>1. CASE ~nm.exists
    <3>1. ReadBack(svc, nm, updates - 1)
      BY <2>0, <2>1 DEF StoreInv, ReadBack
    <3>2. svc' = svc
      BY <1>8, <2>1 DEF SettingsUpdated
    <3> QED
      BY <1>0, <2>0, <3>1, <3>2 DEF Becomes
  <2>2. CASE nm.exists
    <3>1. PICK x : x = UpdateData(kind, svc.data, nm.data)
      OBVIOUS
    <3>2. PICK g : g = SettingsOf(nm)
      OBVIOUS
    <3>3. PICK t : t = [svc EXCEPT !.settings = g, !.id = nm.id, !.neverDefault = nm.ipv4,
                                   !.data = x]
      OBVIOUS
    <3>4. svc' = t
      BY <1>8, <2>2, <3>1, <3>2, <3>3 DEF SettingsUpdated
    <3>5. t.settings = g /\ t.id = nm.id /\ t.neverDefault = nm.ipv4 /\ t.data = x
      BY <3>3 DEF SvcInv, IsShape, IsSvc, SvcFields
    <3>6. IsStruct(svc.data)
      BY DEF SvcInv, IsShape
    <3>7. x = UpdateData(kind, x, nm.data)
      BY <3>1, <3>6, UpdateTwice
    <3>8. EnumsTyped(x)
      BY <3>1, <3>6, EnumsRead DEF StoreInv, ReadBack
    <3>9. Agrees(t, nm)
      BY <3>2, <3>5, <3>7 DEF Agrees
    <3>10. ReadBack(t, nm, updates - 1)
      BY <2>0, <3>5, <3>8, <3>9 DEF StoreInv, ReadBack
    <3> QED
      BY <1>0, <2>0, <3>4, <3>10 DEF Becomes
  <2> QED
    BY <2>1, <2>2
<1>9. CASE FlushPropertyChanges
  BY <1>1, <1>9 DEF FlushPropertyChanges
<1>10. CASE PropertiesChanged
  BY <1>1, <1>10 DEF PropertiesChanged
<1>11. ASSUME NEW e \in Foreign[kind], ForeignEdit(e[1], e[2])
       PROVE  StoreInv'
  <2>1. PICK p, v : p = e[1] /\ v = e[2]
    OBVIOUS
  <2>2. PICK d : d = BuildData(kind, [UpdateData(kind, Default(kind), nm.data)
                                         EXCEPT ![p] = v])
    OBVIOUS
  <2>3. PICK n : n = IF p = "id" THEN [nm EXCEPT !.id = v]
                     ELSE IF p = "neverDefault" THEN [nm EXCEPT !.ipv4 = v]
                     ELSE [nm EXCEPT !.data = d]
    OBVIOUS
  <2>4. nm' = n /\ updates' = updates + 1 /\ svc' = svc
    BY <1>11, <2>1, <2>2, <2>3 DEF ForeignEdit
  <2>5. IsNm(n)
    BY <2>3 DEF StoreInv, ReadBack, IsNm, NmFields
  <2>6. updates + 1 \in Nat /\ updates + 1 # 0
    BY DEF StoreInv, ReadBack
  <2>7. ReadBack(svc, n, updates + 1)
    BY <2>5, <2>6 DEF StoreInv, ReadBack
  <2> QED
    BY <1>0, <2>4, <2>7 DEF Becomes
<1>12. CASE Remove
  <2>1. PICK n : n = [nm EXCEPT !.exists = FALSE]
    OBVIOUS
  <2>2. nm' = n /\ updates' = updates /\ svc' = svc
    BY <1>12, <2>1 DEF Remove
  <2>3. IsNm(n) /\ ~n.exists
    BY <2>1 DEF StoreInv, ReadBack, IsNm, NmFields
  <2>4. ReadBack(svc, n, updates)
    BY <2>3 DEF StoreInv, ReadBack
  <2> QED
    BY <1>0, <2>2, <2>4 DEF Becomes
<1> QED
  BY <1>2, <1>3, <1>4, <1>5, <1>6, <1>7, <1>8, <1>9, <1>10, <1>11, <1>12 DEF Next

(* At rest the client's cache has the value of the service.                *)
LEMMA RestTold ==
    ASSUME ToldInv, AtRest, NEW p \in AllProperties
    PROVE  cache[InterfaceOf(p)][p] = Wire(svc, p)
<1>1. PICK i, c : i = InterfaceOf(p) /\ c = cache[i]
  OBVIOUS
<1>2. i \in Interfaces
  BY <1>1 DEF InterfaceOf, Interfaces
<1>3. queue[i] = NoKeys /\ Len(bus) = 0
  BY <1>2 DEF AtRest, EmptyQueue
<1>4. ToldOn(NoKeys, bus, c, i, p, Wire(svc, p))
  BY <1>1, <1>3 DEF ToldInv, Told
<1>5. DOMAIN NoKeys = {}
  BY DEF NoKeys
<1>6. c[p] = Wire(svc, p)
  BY <1>3, <1>4, <1>5 DEF ToldOn
<1> QED
  BY <1>1, <1>6

(* At rest all copies agree.                                               *)
LEMMA RestAgrees ==
    ASSUME SvcInv, ToldInv, StoreInv
    PROVE  AtRestAgree
<1> SUFFICES ASSUME AtRest
             PROVE  AtRestAgree
  BY DEF AtRestAgree
<1>1. ASSUME NEW p \in AllProperties
      PROVE  Shown(p) = Current(svc, p)
  <2>7. Shown(p) = Enumerator(EnumOf, p, Wire(svc, p))
    BY RestTold, SameEnums DEF Shown
  <2>8. CASE p \in EnumProperties
    <3>1. p # "id" /\ p # "neverDefault"
      BY <2>8, EnumDomains DEF EnumProperties
    <3>2. Current(svc, p) = svc.data[p]
      BY <3>1, Zenon DEF Current
    <3>3. p \in Properties(kind)
      BY <3>1, Tables DEF VpnProperties
    <3>4. Current(svc, p) \in Members(p)
      BY <2>8, <3>2, <3>3 DEF StoreInv, ReadBack, EnumsTyped
    <3> QED
      BY <2>7, <2>8, <3>4, OrdinalBack DEF Wire
  <2>9. CASE p \notin EnumProperties
    BY <2>7, <2>9 DEF Wire, Ordinal, Enumerator, EnumProperties
  <2> QED
    BY <2>8, <2>9
<1>2. nm.exists => Agrees(svc, nm)
  BY DEF AtRest, StoreInv, ReadBack
<1> QED
  BY <1>1, <1>2 DEF AtRestAgree, Agrees

(* Whenever nothing is on its way, the client shows what the service has   *)
(* and the service has what NetworkManager stores (AtRestAgree): for any   *)
(* edits, foreign edits and stored settings, and any number of them on     *)
(* their way at once.                                                      *)
THEOREM CopiesAgree == Spec => []AtRestAgree
<1>1. Init => SvcInv /\ ToldInv /\ StoreInv
  BY InitSvc, InitTold, InitStore
<1>2. SvcInv /\ ToldInv /\ StoreInv /\ [Next]_vars => SvcInv' /\ ToldInv' /\ StoreInv'
  BY SvcStep, ToldStep, StoreStep
<1>3. SvcInv /\ ToldInv /\ StoreInv => AtRestAgree
  BY RestAgrees
<1> QED
  BY <1>1, <1>2, <1>3, PTL DEF Spec

-----------------------------------------------------------------------------
(* The struct d with value v for property p.                               *)
Put(d, p, v) == [d EXCEPT ![p] = v]
(* No text.                                                                *)
Blank == ""
(* The pending settings x ask for value v of p and for nothing else that p *)
(* depends on; d is the struct the edit was made in.                       *)
Asks(x, p, v, d) ==
    /\ p = "id" => x.id = v
    /\ p = "neverDefault" => x.ipv4 = v /\ x.ipv6 = v
    /\ p \in Properties(kind) \ SecretProperties(kind) =>
          x.data = BuildData(kind, Put(d, p, v))
    /\ p \in SecretProperties(kind) =>
          UpdateData(kind, d, x.data) = d /\ x.secrets = BuildSecrets(kind, Put(d, p, v))

(* The first setter after a dispatch leaves the pending settings asking    *)
(* for its value.                                                          *)
LEMMA SetterAsks ==
    ASSUME NEW s, IsShape(s), ~s.dirty, NEW p \in AllProperties, NEW v, Current(s, p) # v,
           UpdateData(kind, s.data, s.settings.data) = s.data,
           NEW t, t = setProperty(s, p, v)
    PROVE  t.timer /\ Asks(t.pending, p, v, s.data)
<1>0. /\ p \in Properties(kind) => p # "id" /\ p # "neverDefault"
      /\ p \in {"id", "neverDefault"} => p \notin Properties(kind)
      /\ SecretProperties(kind) \subseteq Properties(kind)
  BY Tables DEF VpnProperties
<1>1. CASE p = "id"
  <2>1. p # "neverDefault" /\ p \notin SecretProperties(kind) /\ p \notin Properties(kind)
    BY <1>0, <1>1
  <2>2. t = setId(s, v)
    BY <1>1, <2>1, Zenon DEF setProperty
  <2>3. s.id # v
    BY <1>1, <2>1, Zenon DEF Current
  <2>4. IsShape(t) /\ t.dirty /\ t.pending.id = v
    BY <2>2, <2>3, SetIdEffect
  <2>5. t.timer = t.dirty
    BY <2>4 DEF IsShape
  <2> QED
    BY <1>1, <2>1, <2>4, <2>5 DEF Asks
<1>2. CASE p = "neverDefault"
  <2>1. p # "id" /\ p \notin SecretProperties(kind) /\ p \notin Properties(kind)
    BY <1>0, <1>2
  <2>2. t = setNeverDefault(s, v)
    BY <1>2, <2>1, Zenon DEF setProperty
  <2>3. s.neverDefault # v
    BY <1>2, <2>1, Zenon DEF Current
  <2>4. IsShape(t) /\ t.dirty /\ t.pending.ipv4 = v /\ t.pending.ipv6 = v
    BY <2>2, <2>3, SetNeverDefaultEffect
  <2>5. t.timer = t.dirty
    BY <2>4 DEF IsShape
  <2> QED
    BY <1>2, <2>1, <2>4, <2>5 DEF Asks
<1>3. CASE p \in Properties(kind)
  <2>1. p # "id" /\ p # "neverDefault"
    BY <1>0, <1>3
  <2>2. s.data[p] # v
    BY <2>1, Zenon DEF Current
  <2>3. ~s.typedDirty
    BY DEF IsShape
  <2>4. Edited(s, p, v) = Put(s.data, p, v)
    <3>1. Base(s) = s.data
      BY <2>3, CopySame DEF Base, IsShape
    <3> QED
      BY <3>1 DEF Edited, Put
  <2>5. CASE p \in SecretProperties(kind)
    <3>1. t = setSecret(s, p, v)
      BY <2>1, <2>5, Zenon DEF setProperty
    <3>2. /\ IsShape(t) /\ t.dirty
          /\ t.pendingData = Edited(s, p, v)
          /\ t.pending.secrets = BuildSecrets(kind, t.pendingData)
          /\ t.pending["data"] = s.settings["data"]
      BY <1>3, <2>2, <3>1, SetSecretEffect, SMT DEF PendFields
    <3>3. t.timer = t.dirty
      BY <3>2 DEF IsShape
    <3> QED
      BY <2>1, <2>4, <2>5, <3>2, <3>3 DEF Asks
  <2>6. CASE p \notin SecretProperties(kind)
    <3>1. t = setData(s, p, v)
      BY <2>1, <2>6, Zenon DEF setProperty
    <3>2. /\ IsShape(t) /\ t.dirty
          /\ t.pendingData = Edited(s, p, v)
          /\ t.pending.data = BuildData(kind, t.pendingData)
      BY <1>3, <2>2, <3>1, SetDataEffect
    <3>3. t.timer = t.dirty
      BY <3>2 DEF IsShape
    <3> QED
      BY <2>1, <2>4, <2>6, <3>2, <3>3 DEF Asks
  <2> QED
    BY <2>5, <2>6
<1> QED
  BY <1>1, <1>2, <1>3, Tables DEF VpnProperties

(* A struct with one value put in has this value and the others.           *)
LEMMA PutFacts ==
    ASSUME NEW d, IsStruct(d), NEW p \in Properties(kind), NEW v
    PROVE  /\ IsStruct(Put(d, p, v)) /\ Put(d, p, v)[p] = v
           /\ \A q \in Properties(kind) : q # p => Put(d, p, v)[q] = d[q]
BY DEF IsStruct, Put

(* The keys of a map are those of its entries.                             *)
LEMMA Keys ==
    ASSUME NEW S
    PROVE  DOMAIN MapOf(S) = {x[1] : x \in S}
BY DEF MapOf

\* The key a secret is read from.
SecretKey(type, p) == IF kind = "pptp" \/ p = "password" THEN "password"
                      ELSE IF p = "certPass" THEN "cert-pass"
                      ELSE OvProxyPasswordKey[type]

(* updateSecrets() reads a secret from its key.                            *)
LEMMA SecretRead ==
    ASSUME NEW x, IsStruct(x), NEW p \in SecretProperties(kind), NEW m,
           p = "proxyPassword" => x.proxyType \in DOMAIN OvProxyPasswordKey
    PROVE  UpdateSecrets(kind, x, m)[p] = Value(m, SecretKey(x.proxyType, p))
<1>0. DOMAIN x = Properties(kind) /\ p \in Properties(kind)
  BY Tables DEF IsStruct
<1>1. CASE kind = "pptp"
  BY <1>0, <1>1
  DEF UpdateSecrets, PptpUpdateSecrets, SecretKey, SecretProperties, PptpSecretProperties
<1>2. CASE kind # "pptp"
  <2>1. PICK v : v = OvReadProxyPassword(x.proxyType, m, x.proxyPassword)
    OBVIOUS
  <2>2. PICK y : y = [x EXCEPT !.certPass = Value(m, "cert-pass"),
                               !.password = Value(m, "password"), !.proxyPassword = v]
    OBVIOUS
  <2>3. UpdateSecrets(kind, x, m) = y
    BY <1>2, <2>1, <2>2 DEF OvUpdateSecrets, UpdateSecrets
  <2>4. /\ p = "certPass" => y[p] = Value(m, "cert-pass")
        /\ p = "password" => y[p] = Value(m, "password")
        /\ p = "proxyPassword" => y[p] = v
    BY <1>0, <2>2
  <2>5. p = "proxyPassword" => v = Value(m, OvProxyPasswordKey[x.proxyType])
    BY <2>1 DEF OvReadProxyPassword
  <2> QED
    BY <1>2, <2>3, <2>4, <2>5 DEF SecretKey, SecretProperties, OvSecretProperties
<1> QED
  BY <1>1, <1>2

(* A secret is written: the connection or the proxy type uses it.          *)
Uses(d, p) == IF p = "certPass" THEN d.connectionType \in {"TLS", "PASSWORD_TLS"}
              ELSE IF p = "password" THEN d.connectionType \in {"PASSWORD", "PASSWORD_TLS"}
              ELSE d.proxyPassword # Blank /\ d.proxyType # "NOT_REQUIRED"

(* The entry it is written as.                                             *)
Entry(d, p) == <<SecretKey(d.proxyType, p), d[p]>>

(* buildSecrets() secret by secret, for OpenVPN                            *)
LEMMA OvSecretsBuilt ==
    ASSUME NEW d, kind # "pptp"
    PROVE  BuildSecrets(kind, d) =
              MapOf(When(Uses(d, "certPass"), {Entry(d, "certPass")})
                    \cup When(Uses(d, "password"), {Entry(d, "password")})
                    \cup When(Uses(d, "proxyPassword"), {Entry(d, "proxyPassword")}))
<1>1. Entry(d, "certPass") = <<"cert-pass", d.certPass>>
  BY DEF Entry, SecretKey
<1>2. Entry(d, "password") = <<"password", d.password>>
  BY DEF Entry, SecretKey
<1>3. Entry(d, "proxyPassword") = <<OvProxyPasswordKey[d.proxyType], d.proxyPassword>>
  BY DEF Entry, SecretKey
<1>4. BuildSecrets(kind, d) =
        MapOf(When(d.connectionType \in {"TLS", "PASSWORD_TLS"}, {<<"cert-pass", d.certPass>>})
          \cup When(d.connectionType \in {"PASSWORD", "PASSWORD_TLS"},
                    {<<"password", d.password>>})
          \cup When(d.proxyPassword # Blank /\ d.proxyType # "NOT_REQUIRED",
                    {<<OvProxyPasswordKey[d.proxyType], d.proxyPassword>>}))
  BY Zenon DEF BuildSecrets, OvBuildSecrets, Blank
<1>5. /\ Uses(d, "certPass") <=> d.connectionType \in {"TLS", "PASSWORD_TLS"}
      /\ Uses(d, "password") <=> d.connectionType \in {"PASSWORD", "PASSWORD_TLS"}
      /\ Uses(d, "proxyPassword") <=>
            d.proxyPassword # Blank /\ d.proxyType # "NOT_REQUIRED"
  BY DEF Uses
<1> QED
  BY <1>1, <1>2, <1>3, <1>4, <1>5 DEF When

(* and for PPTP.                                                           *)
LEMMA PptpSecretsBuilt ==
    ASSUME NEW d, kind = "pptp"
    PROVE  BuildSecrets(kind, d) =
              MapOf(When(d["password"] # Blank, {Entry(d, "password")}))
<1>1. Entry(d, "password") = <<"password", d.password>>
  BY DEF Entry, SecretKey
<1> QED
  BY <1>1, Zenon DEF BuildSecrets, PptpBuildSecrets, Blank

(* A secret whose value makes a difference to the stored secrets is among  *)
(* them, under the key it is read from.                                    *)
LEMMA SecretUsed ==
    ASSUME NEW d, IsStruct(d), EnumsTyped(d), NEW p \in SecretProperties(kind), NEW v,
           BuildSecrets(kind, Put(d, p, v)) # BuildSecrets(kind, Put(d, p, Blank))
    PROVE  /\ SecretKey(d.proxyType, p) \in DOMAIN BuildSecrets(kind, Put(d, p, v))
           /\ p = "proxyPassword" => d.proxyType \in DOMAIN OvProxyPasswordKey
<1>1. PICK e, z : e = Put(d, p, v) /\ z = Put(d, p, Blank)
  OBVIOUS
<1>2. p \in Properties(kind)
  BY Tables
<1>3. /\ e[p] = v /\ z[p] = Blank
      /\ \A q \in Properties(kind) : q # p => e[q] = d[q] /\ z[q] = d[q]
  BY <1>1, <1>2, PutFacts
<1>4. v # Blank
  BY <1>1
<1>5. CASE kind = "pptp"
  <2>1. p = "password"
    BY <1>5 DEF SecretProperties, PptpSecretProperties
  <2>2. BuildSecrets(kind, e) = MapOf({Entry(e, "password")})
    BY <1>3, <1>4, <1>5, <2>1, PptpSecretsBuilt DEF When
  <2>3. Entry(e, "password")[1] = "password"
    BY DEF Entry, SecretKey
  <2>4. "password" \in DOMAIN BuildSecrets(kind, e)
    BY <2>2, <2>3, Keys
  <2> QED
    BY <1>1, <2>1, <2>4 DEF SecretKey
<1>6. CASE kind # "pptp"
  <2>1. /\ p \in {"certPass", "password", "proxyPassword"}
        /\ {"certPass", "password", "proxyPassword", "connectionType", "proxyType"}
              \subseteq Properties(kind)
    BY <1>6, OvDomains, SMT
    DEF SecretProperties, OvSecretProperties, Properties, Default
  <2>2. /\ e["connectionType"] = d["connectionType"] /\ z["connectionType"] = d["connectionType"]
        /\ e["proxyType"] = d["proxyType"] /\ z["proxyType"] = d["proxyType"]
    BY <1>3, <2>1
  <2>3. \A q \in {"certPass", "password", "proxyPassword"} : q # p =>
           Entry(e, q) = Entry(z, q) /\ (Uses(e, q) <=> Uses(z, q))
    BY <1>3, <2>1, <2>2 DEF Entry, Uses
  <2>4. SUFFICES ASSUME ~Uses(e, p)
                 PROVE  FALSE
    <3>1. CASE Uses(e, p)
      <4>1. p = "proxyPassword" => d["proxyType"] # "NOT_REQUIRED"
        BY <2>2, <3>1 DEF Uses
      <4>2. d["proxyType"] \in Members("proxyType")
        BY <2>1, EnumDomains DEF EnumsTyped, EnumProperties
      <4>3. Members("proxyType") = {"NOT_REQUIRED", "HTTP", "SOCKS"}
        <5>1. EnumOf["proxyType"] = <<"NOT_REQUIRED", "HTTP", "SOCKS">>
          BY DEF EnumOf, ProxyTypes
        <5> QED
          BY <5>1 DEF Members
      <4>4. DOMAIN OvProxyPasswordKey = {"HTTP", "SOCKS"}
        BY DEF OvProxyPasswordKey
      <4>5. Entry(e, p)[1] = SecretKey(d.proxyType, p)
        BY <2>2 DEF Entry
      <4>6. \E S : BuildSecrets(kind, e) = MapOf(S) /\ Entry(e, p) \in S
        <5>1. PICK S : S = When(Uses(e, "certPass"), {Entry(e, "certPass")})
                    \cup When(Uses(e, "password"), {Entry(e, "password")})
                    \cup When(Uses(e, "proxyPassword"), {Entry(e, "proxyPassword")})
          OBVIOUS
        <5>2. BuildSecrets(kind, e) = MapOf(S)
          BY <1>6, <5>1, OvSecretsBuilt
        <5>3. Entry(e, p) \in S
          BY <2>1, <3>1, <5>1 DEF When
        <5> QED
          BY <5>2, <5>3
      <4>7. SecretKey(d.proxyType, p) \in DOMAIN BuildSecrets(kind, e)
        <5>1. PICK S : BuildSecrets(kind, e) = MapOf(S) /\ Entry(e, p) \in S
          BY <4>6
        <5>2. DOMAIN MapOf(S) = {x[1] : x \in S}
          BY Keys
        <5>3. Entry(e, p)[1] \in DOMAIN MapOf(S)
          BY <5>1, <5>2
        <5> QED
          BY <4>5, <5>1, <5>3
      <4>8. p = "proxyPassword" => d.proxyType \in DOMAIN OvProxyPasswordKey
        BY <4>1, <4>2, <4>3, <4>4
      <4> QED
        BY <1>1, <4>7, <4>8
    <3>2. CASE ~Uses(e, p)
      BY <3>2
    <3> QED
      BY <3>1, <3>2
  <2>5. ~Uses(z, p)
    BY <1>3, <2>1, <2>2, <2>4 DEF Uses
  <2>6. \A q \in {"certPass", "password", "proxyPassword"} :
           When(Uses(e, q), {Entry(e, q)}) = When(Uses(z, q), {Entry(z, q)})
    BY <2>3, <2>4, <2>5 DEF When
  <2>7. BuildSecrets(kind, e) = BuildSecrets(kind, z)
    BY <1>6, <2>6, OvSecretsBuilt
  <2> QED
    BY <1>1, <2>7
<1> QED
  BY <1>5, <1>6

(* A secret the conversion keeps is read back from the stored secrets,     *)
(* whatever else they hold.                                                *)
LEMMA SecretWritten ==
    ASSUME NEW d, IsStruct(d), EnumsTyped(d), NEW p \in SecretProperties(kind), NEW v,
           Keeps(d, p, v), NEW o
    PROVE  UpdateSecrets(kind, d, Over(BuildSecrets(kind, Put(d, p, v)), o))[p] = v
<1>1. PICK e, b : e = Put(d, p, v) /\ b = BuildSecrets(kind, e)
  OBVIOUS
<1>2. p \in Properties(kind) /\ p \notin VpnProperties
  BY Tables
<1>3. /\ UpdateSecrets(kind, Put(d, p, v), BuildSecrets(kind, Put(d, p, v)))[p] = v
      /\ BuildSecrets(kind, Put(d, p, v)) # BuildSecrets(kind, Put(d, p, Blank))
  BY <1>2, Zenon DEF Keeps, Put, Blank
<1>4. IsStruct(e) /\ e["proxyType"] = d["proxyType"]
  <2>1. IsStruct(e) /\ \A q \in Properties(kind) : q # p => e[q] = d[q]
    BY <1>1, <1>2, PutFacts
  <2>2. p # "proxyType"
    BY DEF SecretProperties, OvSecretProperties, PptpSecretProperties
  <2>3. CASE "proxyType" \in Properties(kind)
    BY <2>1, <2>2, <2>3
  <2>4. CASE "proxyType" \notin Properties(kind)
    BY <1>1, <2>4 DEF Put, IsStruct
  <2> QED
    BY <2>1, <2>3, <2>4
<1>5. PICK k : k = SecretKey(d.proxyType, p)
  OBVIOUS
<1>6. /\ k \in DOMAIN b
      /\ p = "proxyPassword" => d.proxyType \in DOMAIN OvProxyPasswordKey
  BY <1>1, <1>3, <1>5, SecretUsed
<1>7. Value(b, k) = v
  BY <1>1, <1>3, <1>4, <1>5, <1>6, SecretRead
<1>8. Value(Over(b, o), k) = b[k] /\ Value(b, k) = b[k]
  BY <1>6 DEF Value, Over
<1>9. UpdateSecrets(kind, d, Over(b, o))[p] = Value(Over(b, o), k)
  BY <1>5, <1>6, SecretRead
<1> QED
  BY <1>1, <1>7, <1>8, <1>9

-----------------------------------------------------------------------------
(* No announcement waits or is on its way to the client.                   *)
Quiet == bus = <<>> /\ queue = EmptyQueue
\* The settings n of NetworkManager hold what was asked for.
Holds(n, p, v, d) ==
    /\ p = "id" => n.id = v
    /\ p = "neverDefault" => n.ipv4 = v /\ n.ipv6 = v
    /\ p \in Properties(kind) \ SecretProperties(kind) =>
          n.data = BuildData(kind, Put(d, p, v))
    /\ p \in SecretProperties(kind) =>
          /\ UpdateData(kind, d, n.data) = d
          /\ \E o : n.secrets = Over(BuildSecrets(kind, Put(d, p, v)), o)
\* ... and so do the members of the service that were read from them.
Final(x, n, p, v, d) ==
    /\ p = "id" => n.id = v
    /\ p = "neverDefault" => n.ipv4 = v /\ n.ipv6 = v
    /\ p \in Properties(kind) \ SecretProperties(kind) /\ Keeps(d, p, v) => x[p] = v
    /\ p \in SecretProperties(kind) /\ Keeps(d, p, v) =>
          UpdateSecrets(kind, x, n.secrets)[p] = v

(* The four stages of an edit that nothing disturbs: the call is on its    *)
(* way, the timer runs, NetworkManager has it and its signal is on its     *)
(* way, and the service has read it back.                                  *)
Called(p, v, d) ==
    /\ Quiet /\ updates = 0 /\ ~svc.timer /\ nm.exists /\ svc.data = d
    /\ calls = <<[method |-> "Set", property |-> p, value |-> Ordinal(EnumOf, p, v)]>>
    /\ Current(svc, p) # v
Waits(p, v, d) ==
    /\ Quiet /\ updates = 0 /\ svc.timer /\ svc.data = d /\ calls = <<>>
    /\ Asks(svc.pending, p, v, d)
Written(p, v, d) ==
    /\ Quiet /\ updates = 1 /\ ~svc.timer /\ svc.data = d /\ calls = <<>>
    /\ nm.exists /\ Holds(nm, p, v, d)
Landed(p, v, d) ==
    /\ updates = 0 /\ ~svc.timer /\ calls = <<>>
    /\ nm.exists /\ Final(svc.data, nm, p, v, d)

(* What a user may ask for.                                                *)
Edit(p, v) == p \in AllProperties /\ (p \in EnumProperties => v \in Members(p))
(* The inductive invariant of LoneEditLands: an undisturbed edit is at one *)
(* of these stages.                                                        *)
LoneInv ==
    /\ kind \in Kinds
    /\ lone # None =>
          \E p, v, d : /\ lone = <<p, v, d>> /\ Edit(p, v)
                       /\ \/ Called(p, v, d) \/ Waits(p, v, d)
                          \/ Written(p, v, d) \/ Landed(p, v, d)

(* What a dispatch writes holds what was asked for.                        *)
LEMMA DispatchHolds ==
    ASSUME NEW n, IsNm(n), NEW x, NEW p, NEW v, NEW d, Asks(x, p, v, d),
           NEW m, m = [n EXCEPT !.id = x.id, !.ipv4 = x.ipv4, !.ipv6 = x.ipv6,
                                !.data = x.data, !.secrets = Over(x.secrets, n.secrets)]
    PROVE  Holds(m, p, v, d) /\ m.exists = n.exists
<1>1. PICK e, f, g, h, i : /\ e = x.id /\ f = x.ipv4 /\ g = x.ipv6 /\ h = x.data
                           /\ i = Over(x.secrets, n.secrets)
  OBVIOUS
<1>2. m = [n EXCEPT !.id = e, !.ipv4 = f, !.ipv6 = g, !.data = h, !.secrets = i]
  BY <1>1
<1>3. /\ m.id = e /\ m.ipv4 = f /\ m.ipv6 = g /\ m.data = h /\ m.secrets = i
      /\ m.exists = n.exists
  BY <1>2 DEF IsNm, NmFields
<1> QED
  BY <1>1, <1>3 DEF Asks, Holds

(* Reading it back gives what was asked for, where the conversion keeps    *)
(* it.                                                                     *)
LEMMA ReadFinal ==
    ASSUME NEW n, NEW p, NEW v, NEW d, IsStruct(d), EnumsTyped(d), Holds(n, p, v, d)
    PROVE  Final(UpdateData(kind, d, n.data), n, p, v, d)
<1>1. PICK x : x = UpdateData(kind, d, n.data)
  OBVIOUS
<1>2. ASSUME p \in Properties(kind) \ SecretProperties(kind), Keeps(d, p, v)
      PROVE  x[p] = v
  <2>1. p \notin VpnProperties
    BY <1>2, Tables
  <2>2. UpdateData(kind, d, BuildData(kind, Put(d, p, v)))[p] = v
    BY <1>2, <2>1, Zenon DEF Keeps, Put
  <2> QED
    BY <1>1, <1>2, <2>2 DEF Holds
<1>3. ASSUME p \in SecretProperties(kind), Keeps(d, p, v)
      PROVE  UpdateSecrets(kind, x, n.secrets)[p] = v
  <2>1. x = d
    BY <1>1, <1>3 DEF Holds
  <2>2. PICK o : n.secrets = Over(BuildSecrets(kind, Put(d, p, v)), o)
    BY <1>3 DEF Holds
  <2> QED
    BY <1>3, <2>1, <2>2, SecretWritten
<1> QED
  BY <1>1, <1>2, <1>3 DEF Holds, Final

(* An edit asked for at rest is called,                                    *)
LEMMA SetLone ==
    ASSUME SvcInv, ToldInv, LoneInv, [Next]_vars, NEW e \in Edits[kind],
           UserSet(e[1], e[2]), lone' # None, NEW p, NEW v, p = e[1], v = e[2]
    PROVE  /\ lone' = <<p, v, svc.data>> /\ Edit(p, v)
           /\ Called(p, v, svc.data)'
<1>0. kind' = kind
  BY KindKept
<1>1. PICK w : w = Ordinal(EnumOf, p, v)
  OBVIOUS
<1>2. /\ AtRest /\ nm.exists /\ cache[InterfaceOf(p)][p] # w
      /\ lone' = <<p, v, svc.data>>
      /\ calls' = Append(calls, [method |-> "Set", property |-> p, value |-> w])
      /\ p \in ClientSettable
      /\ UNCHANGED <<nm, updates, svc, queue, bus>>
  BY <1>1, SameEnums DEF UserSet
<1>3. Edit(p, v)
  <2>1. p \in EnumProperties => \E i \in DOMAIN EnumOf[p] : EnumOf[p][i] = v
    BY EditsAssumption DEF LoneInv
  <2> QED
    BY <1>2, <2>1, Tables DEF Edit, Members
<1>4. Current(svc, p) # v
  <2>1. cache[InterfaceOf(p)][p] = Wire(svc, p)
    BY <1>2, RestTold, Tables
  <2> QED
    BY <1>1, <1>2, <2>1 DEF Wire
<1>5. calls' = <<[method |-> "Set", property |-> p, value |-> w]>>
  BY <1>2 DEF AtRest
<1> QED
  BY <1>1, <1>2, <1>3, <1>4, <1>5 DEF Called, Quiet, AtRest, EmptyQueue

(* the call is handled by a setter that does not refuse it,                *)
LEMMA HandleLone ==
    ASSUME SvcInv, StoreInv, [Next]_vars, HandleSet,
           NEW p, NEW v, NEW d, Edit(p, v), Called(p, v, d)
    PROVE  Waits(p, v, d)'
<1>0. kind' = kind
  BY KindKept
<1>1. PICK w : w = Ordinal(EnumOf, p, v)
  OBVIOUS
<1>2. Head(calls).property = p /\ Head(calls).value = w /\ Tail(calls) = <<>>
  BY <1>1 DEF Called
<1>3. Enumerator(EnumOf, p, w) = v
  BY <1>1, OrdinalBack DEF Edit
<1>4. PICK t : t = setProperty(svc, p, v)
  OBVIOUS
<1>5. svc' = t /\ calls' = <<>> /\ UNCHANGED <<nm, updates, queue, bus>>
  BY <1>2, <1>3, <1>4, Tables DEF HandleSet, Edit
<1>6. IsShape(svc) /\ ~svc.dirty
  BY DEF SvcInv, IsShape, Called
<1>7. UpdateData(kind, svc.data, svc.settings.data) = svc.data
  <2>1. svc.settings.data = nm.data
    BY DEF StoreInv, ReadBack, Agrees, Called, SettingsOf
  <2> QED
    BY <2>1 DEF StoreInv, ReadBack, Agrees, Called
<1>8. p \in AllProperties /\ Current(svc, p) # v /\ svc.data = d
  BY DEF Edit, Called
<1>9. t.timer /\ Asks(t.pending, p, v, svc.data)
  BY <1>4, <1>6, <1>7, <1>8, SetterAsks
<1>10. t.data = svc.data
  BY <1>4, <1>8, SetterEffect DEF SvcInv
<1> QED
  BY <1>0, <1>5, <1>8, <1>9, <1>10 DEF Waits, Asks, Quiet, EmptyQueue, Called

(* the timer writes it,                                                    *)
LEMMA DispatchLone ==
    ASSUME SvcInv, StoreInv, [Next]_vars, DispatchPendingSettings(TRUE),
           NEW p, NEW v, NEW d, Waits(p, v, d)
    PROVE  Written(p, v, d)'
<1>0. kind' = kind
  BY KindKept
<1>1. PICK x : x = svc.pending
  OBVIOUS
<1>2. PICK m : m = [nm EXCEPT !.id = x.id, !.ipv4 = x.ipv4, !.ipv6 = x.ipv6,
                              !.data = x.data, !.secrets = Over(x.secrets, nm.secrets)]
  OBVIOUS
<1>3. PICK t : t = [svc EXCEPT !.timer = FALSE, !.dirty = FALSE, !.typedDirty = FALSE]
  OBVIOUS
<1>4. /\ nm.exists /\ nm' = m /\ svc' = t /\ updates' = updates + 1
      /\ UNCHANGED <<calls, queue, bus>>
  BY <1>1, <1>2, <1>3 DEF DispatchPendingSettings
<1>5. ~t.timer /\ t.data = svc.data
  BY <1>3 DEF SvcInv, IsShape, IsSvc, SvcFields
<1>6. IsNm(nm) /\ Asks(x, p, v, d)
  BY <1>1 DEF StoreInv, ReadBack, Waits
<1>7. Holds(m, p, v, d) /\ m.exists = nm.exists
  BY <1>2, <1>6, DispatchHolds
<1>8. updates + 1 = 1
  BY DEF Waits
<1> QED
  BY <1>0, <1>4, <1>5, <1>7, <1>8 DEF Written, Waits, Quiet, EmptyQueue, Holds

(* (what the conversion keeps does not change in a step)                   *)
LEMMA KeepsStays ==
    ASSUME kind' = kind, NEW p, NEW v, NEW d
    PROVE  Keeps(d, p, v)' <=> Keeps(d, p, v)
BY Zenon DEF Keeps

(* and the signal makes the service read it.                               *)
LEMMA ReadLone ==
    ASSUME SvcInv, StoreInv, [Next]_vars, SettingsUpdated,
           NEW p, NEW v, NEW d, Written(p, v, d)
    PROVE  Landed(p, v, d)'
<1>0. kind' = kind
  BY KindKept
<1>1. PICK x : x = UpdateData(kind, svc.data, nm.data)
  OBVIOUS
<1>2. PICK g : g = SettingsOf(nm)
  OBVIOUS
<1>3. PICK t : t = [svc EXCEPT !.settings = g, !.id = nm.id, !.neverDefault = nm.ipv4,
                               !.data = x]
  OBVIOUS
<1>4. /\ nm.exists /\ svc' = t /\ nm' = nm /\ updates' = updates - 1
      /\ UNCHANGED <<calls, bus>>
  BY <1>1, <1>2, <1>3 DEF SettingsUpdated, Written
<1>5. t.data = x /\ t.timer = svc.timer
  BY <1>3 DEF SvcInv, IsShape, IsSvc, SvcFields
<1>6. IsStruct(d) /\ EnumsTyped(d) /\ svc.data = d /\ Holds(nm, p, v, d)
  BY DEF SvcInv, IsShape, StoreInv, ReadBack, Written
<1>7. Final(x, nm, p, v, d)
  BY <1>1, <1>6, ReadFinal
<1>8. updates - 1 = 0 /\ ~svc.timer /\ calls = <<>>
  BY DEF Written
<1> QED
  BY <1>0, <1>4, <1>5, <1>7, <1>8, KeepsStays DEF Landed, Final

(* Every step keeps LoneInv: it takes an undisturbed edit to the next      *)
(* stage, leaves it where it is, or disturbs it.                           *)
LEMMA LoneStep ==
    ASSUME SvcInv, ToldInv, StoreInv, LoneInv, [Next]_vars
    PROVE  LoneInv'
<1>0. kind' = kind
  BY KindKept
<1> DEFINE Somewhere == \E p, v, d : /\ lone' = <<p, v, d>> /\ Edit(p, v)
                                     /\ \/ Called(p, v, d)' \/ Waits(p, v, d)'
                                        \/ Written(p, v, d)' \/ Landed(p, v, d)'
<1>1. ASSUME lone' = None
      PROVE  LoneInv'
  BY <1>0, <1>1 DEF LoneInv
<1>2. ASSUME Somewhere
      PROVE  LoneInv'
  <2>1. PICK p, v, d : /\ lone' = <<p, v, d>> /\ Edit(p, v)
                       /\ \/ Called(p, v, d)' \/ Waits(p, v, d)'
                          \/ Written(p, v, d)' \/ Landed(p, v, d)'
    BY <1>2
  <2>2. Edit(p, v)'
    BY <1>0, <2>1 DEF Edit, AllProperties, Members
  <2> QED
    BY <1>0, <2>1, <2>2 DEF LoneInv
<1>3. ASSUME lone # None, lone' = lone,
             ASSUME NEW p, NEW v, NEW d, lone = <<p, v, d>>, Edit(p, v),
                    \/ Called(p, v, d) \/ Waits(p, v, d)
                    \/ Written(p, v, d) \/ Landed(p, v, d)
             PROVE  \/ Called(p, v, d)' \/ Waits(p, v, d)'
                    \/ Written(p, v, d)' \/ Landed(p, v, d)'
      PROVE  LoneInv'
  <2>1. PICK p, v, d : /\ lone = <<p, v, d>> /\ Edit(p, v)
                       /\ \/ Called(p, v, d) \/ Waits(p, v, d)
                          \/ Written(p, v, d) \/ Landed(p, v, d)
    BY <1>3 DEF LoneInv
  <2>2. \/ Called(p, v, d)' \/ Waits(p, v, d)'
        \/ Written(p, v, d)' \/ Landed(p, v, d)'
    BY <1>3, <2>1
  <2>3. Somewhere
    BY <1>3, <2>1, <2>2
  <2> QED
    BY <1>2, <2>3
<1> HIDE DEF Somewhere
<1>4. CASE UNCHANGED vars
  <2>1. ASSUME NEW p, NEW v, NEW d
        PROVE  /\ Called(p, v, d) => Called(p, v, d)'
               /\ Waits(p, v, d) => Waits(p, v, d)'
               /\ Written(p, v, d) => Written(p, v, d)'
               /\ Landed(p, v, d) => Landed(p, v, d)'
    BY <1>4, KeepsStays
    DEF vars, Called, Waits, Written, Landed, Quiet, EmptyQueue, Asks, Holds, Final
  <2> QED
    BY <1>1, <1>3, <1>4, <2>1 DEF vars
<1>5. ASSUME NEW e \in Edits[kind], UserSet(e[1], e[2])
      PROVE  LoneInv'
  <2>1. CASE lone' = None
    BY <1>1, <2>1
  <2>2. CASE lone' # None
    <3>1. PICK p, v : p = e[1] /\ v = e[2]
      OBVIOUS
    <3>2. PICK d : d = svc.data
      OBVIOUS
    <3>3. lone' = <<p, v, d>> /\ Edit(p, v) /\ Called(p, v, svc.data)' /\ svc' = svc
      <4>1. /\ lone' = <<p, v, svc.data>> /\ Edit(p, v)
            /\ Called(p, v, svc.data)'
        BY <1>5, <2>2, <3>1, SetLone
      <4>2. svc' = svc
        BY <1>5 DEF UserSet
      <4> QED
        BY <3>2, <4>1, <4>2
    <3>4. Called(p, v, d)'
      BY <3>2, <3>3 DEF Called
    <3>5. Somewhere
      BY <3>3, <3>4 DEF Somewhere
    <3> QED
      BY <1>2, <3>5
  <2> QED
    BY <2>1, <2>2
<1>6. CASE UserUpdateSecrets
  BY <1>1, <1>6 DEF UserUpdateSecrets
<1>7. CASE HandleSet
  <2>1. calls # <<>> /\ lone' = lone
    BY <1>7 DEF HandleSet
  <2>2. ASSUME NEW p, NEW v, NEW d, Edit(p, v), Called(p, v, d)
        PROVE  Waits(p, v, d)'
    BY <1>7, <2>2, HandleLone
  <2>3. ASSUME NEW p, NEW v, NEW d
        PROVE  ~Waits(p, v, d) /\ ~Written(p, v, d) /\ ~Landed(p, v, d)
    BY <2>1 DEF Waits, Written, Landed
  <2> QED
    BY <1>1, <1>3, <2>1, <2>2, <2>3
<1>8. ASSUME NEW ok \in BOOLEAN, HandleUpdateSecrets(ok)
      PROVE  LoneInv'
  <2>1. calls # <<>> /\ lone' = lone /\ Head(calls).method = "UpdateSecrets"
    BY <1>8 DEF HandleUpdateSecrets
  <2>2. ASSUME NEW p, NEW v, NEW d
        PROVE  ~Called(p, v, d)
    BY <2>1 DEF Called
  <2>3. ASSUME NEW p, NEW v, NEW d
        PROVE  ~Waits(p, v, d) /\ ~Written(p, v, d) /\ ~Landed(p, v, d)
    BY <2>1 DEF Waits, Written, Landed
  <2> QED
    BY <1>1, <1>3, <2>1, <2>2, <2>3
<1>9. ASSUME NEW ok \in BOOLEAN, DispatchPendingSettings(ok)
      PROVE  LoneInv'
  <2>1. CASE ~ok
    BY <1>1, <1>9, <2>1 DEF DispatchPendingSettings
  <2>2. CASE ok
    <3>1. svc.timer /\ lone' = lone /\ DispatchPendingSettings(TRUE)
      BY <1>9, <2>2 DEF DispatchPendingSettings
    <3>2. ASSUME NEW p, NEW v, NEW d, Waits(p, v, d)
          PROVE  Written(p, v, d)'
      BY <3>1, <3>2, DispatchLone
    <3>3. ASSUME NEW p, NEW v, NEW d
          PROVE  ~Called(p, v, d) /\ ~Written(p, v, d) /\ ~Landed(p, v, d)
      BY <3>1 DEF Called, Written, Landed
    <3> QED
      BY <1>1, <1>3, <3>1, <3>2, <3>3
  <2> QED
    BY <2>1, <2>2
<1>10. CASE SettingsUpdated
  <2>1. updates > 0 /\ lone' = lone
    BY <1>10 DEF SettingsUpdated
  <2>2. ASSUME NEW p, NEW v, NEW d, Written(p, v, d)
        PROVE  Landed(p, v, d)'
    BY <1>10, <2>2, ReadLone
  <2>3. ASSUME NEW p, NEW v, NEW d
        PROVE  ~Called(p, v, d) /\ ~Waits(p, v, d) /\ ~Landed(p, v, d)
    BY <2>1 DEF Called, Waits, Landed
  <2> QED
    BY <1>1, <1>3, <2>1, <2>2, <2>3
<1>11. ASSUME ~Quiet, UNCHANGED <<nm, updates, svc, calls, lone>>
       PROVE  LoneInv'
  <2>1. ASSUME NEW p, NEW v, NEW d
        PROVE  ~Called(p, v, d) /\ ~Waits(p, v, d) /\ ~Written(p, v, d)
    BY <1>11 DEF Called, Waits, Written
  <2>2. ASSUME NEW p, NEW v, NEW d, Landed(p, v, d)
        PROVE  Landed(p, v, d)'
    BY <1>0, <1>11, <2>2, KeepsStays DEF Landed, Final
  <2> QED
    BY <1>1, <1>3, <1>11, <2>1, <2>2
<1>12. CASE FlushPropertyChanges
  BY <1>11, <1>12 DEF FlushPropertyChanges, Quiet
<1>13. CASE PropertiesChanged
  BY <1>11, <1>13 DEF PropertiesChanged, Quiet
<1>14. ASSUME NEW e \in Foreign[kind], ForeignEdit(e[1], e[2])
       PROVE  LoneInv'
  BY <1>1, <1>14 DEF ForeignEdit
<1>15. CASE Remove
  BY <1>1, <1>15 DEF Remove
<1> QED
  BY <1>4, <1>5, <1>6, <1>7, <1>8, <1>9, <1>10, <1>12, <1>13, <1>14, <1>15 DEF Next

(* At rest an undisturbed edit is at the last stage.                       *)
LEMMA LoneHolds ==
    ASSUME SvcInv, ToldInv, StoreInv, LoneInv
    PROVE  LoneEditLands
<1> SUFFICES ASSUME AtRest, lone # None
             PROVE  LoneEditLands
  BY DEF LoneEditLands
<1>1. PICK p, v, d : /\ lone = <<p, v, d>> /\ Edit(p, v)
                     /\ \/ Called(p, v, d) \/ Waits(p, v, d)
                        \/ Written(p, v, d) \/ Landed(p, v, d)
  BY DEF LoneInv
<1>2. ~Called(p, v, d) /\ ~Waits(p, v, d) /\ ~Written(p, v, d)
  BY DEF AtRest, Called, Waits, Written
<1>3. nm.exists /\ updates = 0 /\ Final(svc.data, nm, p, v, d)
  BY <1>1, <1>2 DEF Landed
<1>4. p \in AllProperties /\ Shown(p) = Current(svc, p)
  BY <1>1, RestAgrees DEF AtRestAgree, Edit
<1>5. svc.id = nm.id /\ svc.neverDefault = nm.ipv4
  BY RestAgrees, <1>3 DEF AtRestAgree
<1>6. lone[1] = p /\ lone[2] = v /\ lone[3] = d
  BY <1>1
<1>7. CASE p = "id"
  <2>1. p # "neverDefault" /\ p \notin SecretProperties(kind)
    BY <1>7, Tables DEF VpnProperties
  <2>2. Current(svc, p) = svc.id
    BY <1>7, <2>1, Zenon DEF Current
  <2>3. nm.id = v /\ Shown(p) = v
    BY <1>3, <1>4, <1>5, <1>7, <2>2 DEF Final
  <2> QED
    BY <1>6, <1>7, <2>1, <2>3, Zenon DEF LoneEditLands
<1>8. CASE p = "neverDefault"
  <2>1. p # "id" /\ p \notin SecretProperties(kind)
    BY <1>8, Tables DEF VpnProperties
  <2>2. Current(svc, p) = svc.neverDefault
    BY <1>8, <2>1, Zenon DEF Current
  <2>3. nm.ipv4 = v /\ nm.ipv6 = v /\ Shown(p) = v
    BY <1>3, <1>4, <1>5, <1>8, <2>2 DEF Final
  <2> QED
    BY <1>6, <1>8, <2>1, <2>3, Zenon DEF LoneEditLands
<1>9. CASE p \in SecretProperties(kind)
  <2>1. p # "id" /\ p # "neverDefault"
    BY <1>9, Tables DEF VpnProperties
  <2>2. Keeps(d, p, v) => UpdateSecrets(kind, svc.data, nm.secrets)[p] = v
    BY <1>3, <1>9 DEF Final
  <2> QED
    BY <1>6, <1>9, <2>1, <2>2, Zenon DEF LoneEditLands
<1>10. CASE p \notin SecretProperties(kind) /\ p # "id" /\ p # "neverDefault"
  <2>1. p \in Properties(kind)
    BY <1>4, <1>10, Tables DEF VpnProperties
  <2>2. Current(svc, p) = svc.data[p]
    BY <1>10, Zenon DEF Current
  <2>3. Keeps(d, p, v) => Shown(p) = v
    BY <1>3, <1>4, <1>10, <2>1, <2>2 DEF Final
  <2> QED
    BY <1>6, <1>10, <2>3, Zenon DEF LoneEditLands
<1> QED
  BY <1>7, <1>8, <1>9, <1>10

(* There is no edit at the start.                                          *)
LEMMA InitLone ==
    ASSUME Init
    PROVE  LoneInv
BY DEF Init, LoneInv

(* An edit asked for at rest and undisturbed is in NetworkManager's        *)
(* settings, and the user sees it, once all is quiet again                 *)
(* (LoneEditLands): for any edits and stored settings.                     *)
THEOREM AnEditLands == Spec => []LoneEditLands
<1> DEFINE IInv == SvcInv /\ ToldInv /\ StoreInv /\ LoneInv
<1>1. Init => IInv
  BY InitSvc, InitTold, InitStore, InitLone
<1>2. IInv /\ [Next]_vars => IInv'
  BY SvcStep, ToldStep, StoreStep, LoneStep
<1>3. IInv => LoneEditLands
  BY LoneHolds
<1> QED
  BY <1>1, <1>2, <1>3, PTL DEF Spec
=============================================================================
