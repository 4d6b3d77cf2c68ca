---------------------------- MODULE VpnSettings ----------------------------
(***************************************************************************)
(* The settings of one VPN connection on their way through the program:    *)
(*                                                                         *)
(*   client library        connectivity service         NetworkManager     *)
(*   DBusPropertyCache --> DBus*Connection, *Connection,                   *)
(*     (cache)      Set    VpnConnection (svc)   Update  -->  (nm)         *)
(*              <-- PropertiesChanged <--    GetSettings <-- Updated       *)
(*                  (queue, bus)                              (updates)    *)
(*                                                                         *)
(* A user's edit changes no copy on its way down.  It is collected in      *)
(* pending settings, written to NetworkManager 200 ms later, and comes     *)
(* back up through NetworkManager's Updated signal.  Calls of the client   *)
(* (session bus), signals of NetworkManager (system bus) and the timers    *)
(* interleave freely; each slot runs to its end.                           *)
(***************************************************************************)
EXTENDS VpnData, FiniteSets

CONSTANTS
    Edits,        \* per kind, the <<property, value>> pairs a user may ask for
    Foreign,      \* per kind, the pairs another program may write
    Stored,       \* per kind, the settings in NetworkManager at the start
    MaxEdits,     \* bound: edits asked for
    MaxForeign    \* bound: edits of other programs

VARIABLES
    kind,         \* m_type: which object holds the typed properties
    nm,           \* NetworkManager's copy of the connection
    updates,      \* Updated signals that have not been handled
    svc,          \* the service's objects for this connection
    queue,        \* propertyChangeQueue: interface -> property -> value
    bus,          \* PropertiesChanged signals on their way to the client
    calls,        \* calls of the client on their way to the service
    cache,        \* the client's two property caches
    window,       \* history: edits accepted since the last dispatch
    lone,         \* history: an edit asked for at rest and undisturbed since, and
                  \* the typed properties it was made in
    asked, foreign  \* counters for the bounds

vars == <<kind, nm, updates, svc, queue, bus, calls, cache, window, lone, asked, foreign>>

None == <<>>

-----------------------------------------------------------------------------
(* The tables every layer keeps: which properties it passes on.            *)

Interfaces == {"vpn", "typed"}
VpnProperties == {"id", "neverDefault"}
InterfaceOf(p) == IF p \in VpnProperties THEN "vpn" ELSE "typed"
EnumProperties == DOMAIN EnumOf

\* What the typed objects can be asked for, and what they can be told.
OvReadable == DOMAIN OvDefault
OvSettable == DOMAIN OvDefault
PptpReadable == DOMAIN PptpDefault
PptpSettable == DOMAIN PptpDefault
\* The properties of the D-Bus objects: Q_PROPERTY ... READ ... WRITE.
OvExported == DOMAIN OvDefault
PptpExported == DOMAIN PptpDefault
\* A written property that is no enumeration goes through a forwarding signal,
\* an enumeration through a setter that casts the number.
OvForward == OvExported \ EnumProperties
OvEnumSetters == {"connectionType", "staticKeyDirection", "devType", "cipher", "auth",
                  "remoteCertTls", "taDir", "proxyType"}
PptpForward == PptpExported \ EnumProperties
PptpEnumSetters == {"mppeType"}
VpnForward == {"id", "neverDefault"}
\* Change signals of the typed objects that reach an updater slot, and the
\* properties these slots announce.
OvReverse_NoCa == DOMAIN OvDefault \ {"ca"}
OvReverse == DOMAIN OvBasic \cup DOMAIN OvGeneral \cup DOMAIN OvSecurity \cup
             DOMAIN OvTls \cup DOMAIN OvProxy
OvAnnounced == OvExported
PptpReverse == DOMAIN PptpDefault
PptpAnnounced == PptpExported
VpnReverse == {"id", "neverDefault"}
\* What the client library can set and what it hands on to its user.
OvClientSet == DOMAIN OvDefault
OvClientUpdate == DOMAIN OvDefault
PptpClientSet == DOMAIN PptpDefault
PptpClientUpdate == DOMAIN PptpDefault
VpnClientSet == {"id", "neverDefault"}

Writable == VpnForward \cup
    IF kind = "pptp" THEN (PptpForward \cup PptpEnumSetters) \cap PptpSettable
                     ELSE (OvForward \cup OvEnumSetters) \cap OvSettable
Announced == VpnReverse \cup IF kind = "pptp" THEN PptpReverse \cap PptpAnnounced
                                              ELSE OvReverse \cap OvAnnounced
ClientSettable == VpnClientSet \cup IF kind = "pptp" THEN PptpClientSet ELSE OvClientSet

\* The client's own declarations of the enumerations.
ClientEnumOf ==
    [connectionType |-> <<"TLS", "PASSWORD", "PASSWORD_TLS", "STATIC_KEY">>,
     devType |-> <<"TUN", "TAP">>,
     cipher |-> <<"DEFAULT_CIPHER", "DES_CBC", "RC2_CBC", "DES_EDE_CBC", "DES_EDE3_CBC",
                  "DESX_CBC", "RC2_40_CBC", "CAST5_CBC", "AES_128_CBC", "AES_192_CBC",
                  "AES_256_CBC", "CAMELLIA_128_CBC", "CAMELLIA_192_CBC",
                  "CAMELLIA_256_CBC", "SEED_CBC", "AES_128_CBC_HMAC_SHA1",
                  "AES_256_CBC_HMAC_SHA1">>,
     auth |-> <<"DEFAULT_AUTH", "NONE", "RSA_MD4", "MD5", "SHA1", "SHA224", "SHA256",
                "SHA384", "SHA512", "RIPEMD160">>,
     remoteCertTls |-> <<"SERVER", "CLIENT">>,
     staticKeyDirection |-> <<"KEY_NONE", "ZERO", "ONE">>,
     taDir |-> <<"KEY_NONE", "ZERO", "ONE">>,
     proxyType |-> <<"NOT_REQUIRED", "HTTP", "SOCKS">>,
     mppeType |-> <<"MPPE_ALL", "MPPE_128", "MPPE_40">>]

\* The setters take the type of the property: a user asks for an enumerator.
ASSUME EditsAssumption ==
    \A k \in Kinds : \A e \in Edits[k] :
        e[1] \in EnumProperties => \E i \in DOMAIN EnumOf[e[1]] : EnumOf[e[1]][i] = e[2]

\* An enumerator travels as its position in the sender's declaration and is
\* read by the receiver's.
Ordinal(enums, p, v) ==
    IF p \in DOMAIN enums THEN (CHOOSE i \in DOMAIN enums[p] : enums[p][i] = v) - 1 ELSE v
Enumerator(enums, p, w) == IF p \in DOMAIN enums THEN enums[p][w + 1] ELSE w

\* The getters of the client: what its user sees for the cached value.
Shown(p) == Enumerator(ClientEnumOf, p, cache[InterfaceOf(p)][p])

-----------------------------------------------------------------------------
(* The service.  svc holds VpnConnection's members (settings, pending,     *)
(* dirty, timer, id, neverDefault) and the typed object's (data,           *)
(* pendingData, typedDirty).                                               *)

\* GetSettings() leaves the secrets out.
SettingsOf(n) == [id |-> n.id, ipv4 |-> n.ipv4, ipv6 |-> n.ipv6, data |-> n.data,
                  secrets |-> NoKeys]

setDirty_Resets(s) ==
    [s EXCEPT !.dirty = TRUE, !.pending = s.settings, !.timer = TRUE]

setDirty(s) ==
    IF s.dirty THEN s
    ELSE [s EXCEPT !.dirty = TRUE, !.pending = s.settings, !.timer = TRUE]

setId(s, v) == IF s.id = v THEN s ELSE [setDirty(s) EXCEPT !.pending.id = v]

setNeverDefault_Ipv4(s, v) ==
    IF s.neverDefault = v THEN s
    ELSE [setDirty(s) EXCEPT !.pending.ipv4 = v]

setNeverDefault(s, v) ==
    IF s.neverDefault = v THEN s
    ELSE [setDirty(s) EXCEPT !.pending.ipv4 = v, !.pending.ipv6 = v]

\* The common part of the setters of the typed object: the first edit of a
\* window starts from the current values.
Pend(s, p, v) ==
    [s EXCEPT !.pendingData = [(IF s.typedDirty THEN s.pendingData
                                ELSE Copy(kind, s.data)) EXCEPT ![p] = v],
              !.typedDirty = TRUE]

\* DEFINE_PROPERTY_SETTER and updateVpnData().
setData(s, p, v) ==
    LET t == setDirty(Pend(s, p, v))
    IN  IF s.data[p] = v THEN s
        ELSE [t EXCEPT !.pending.data = BuildData(kind, t.pendingData)]

\* DEFINE_SECRET_PROPERTY_SETTER and updateVpnSecrets().
setSecret(s, p, v) ==
    LET t == setDirty(Pend(s, p, v))
    IN  IF s.data[p] = v THEN s
        ELSE [t EXCEPT !.pending.secrets = BuildSecrets(kind, t.pendingData)]

setProperty(s, p, v) ==
    CASE p = "id" -> setId(s, v)
      [] p = "neverDefault" -> setNeverDefault(s, v)
      [] p \in SecretProperties(kind) -> setSecret(s, p, v)
      [] OTHER -> setData(s, p, v)

Current(s, p) == CASE p = "id" -> s.id
                   [] p = "neverDefault" -> s.neverDefault
                   [] OTHER -> s.data[p]

AllProperties == VpnProperties \cup IF kind = "pptp" THEN PptpReadable ELSE OvReadable

\* notifyPropertyChanged() for every property whose value differs between s and
\* t: the queue keeps the last value of a property.
Notify(q, s, t) ==
    LET changed(i) == {p \in AllProperties \cap Announced :
                          InterfaceOf(p) = i /\ Current(s, p) # Current(t, p)}
    IN  [i \in Interfaces |->
            Over([p \in changed(i) |-> Ordinal(EnumOf, p, Current(t, p))], q[i])]

EmptyQueue == [i \in Interfaces |-> NoKeys]

-----------------------------------------------------------------------------
AtRest == /\ calls = <<>> /\ bus = <<>> /\ updates = 0
          /\ ~svc.timer
          /\ queue = EmptyQueue

(* The user sets a property: DBusPropertyCache::set() sends a call unless  *)
(* the cache already holds the value.                                      *)
UserSet(p, v) ==
    /\ asked < MaxEdits
    /\ p \in ClientSettable
    /\ LET w == Ordinal(ClientEnumOf, p, v)
       IN  /\ calls' = IF cache[InterfaceOf(p)][p] = w THEN calls
                       ELSE Append(calls, [method |-> "Set", property |-> p, value |-> w])
           /\ lone' = IF AtRest /\ nm.exists /\ cache[InterfaceOf(p)][p] # w
                      THEN <<p, v, svc.data>> ELSE None
    /\ asked' = asked + 1
    /\ UNCHANGED <<kind, nm, updates, svc, queue, bus, cache, window, foreign>>

\* The editor asks for the secrets: UpdateSecrets() of the client object.
UserUpdateSecrets ==
    /\ asked < MaxEdits
    /\ calls' = Append(calls, [method |-> "UpdateSecrets"])
    /\ lone' = None
    /\ asked' = asked + 1
    /\ UNCHANGED <<kind, nm, updates, svc, queue, bus, cache, window, foreign>>

\* The history with one edit more.  updateVpnData() does not build the secrets
\* again: when one of the properties changes that decide which secrets are
\* written and under which key, those set before it count no more.
SecretPlaces == {"connectionType", "proxyType"}
WithEdit(w, p, v) ==
    LET lost == IF p \in SecretPlaces THEN SecretProperties(kind) ELSE {}
    IN  [q \in (DOMAIN w \ lost) \cup {p} |-> IF q = p THEN v ELSE w[q]]

(* The service handles a Set call of the client.                           *)
HandleSet ==
    /\ calls # <<>> /\ Head(calls).method = "Set"
    /\ LET p == Head(calls).property
           v == Enumerator(EnumOf, p, Head(calls).value)
       IN  /\ svc' = IF p \in Writable THEN setProperty(svc, p, v) ELSE svc
           /\ window' = IF svc' # svc THEN WithEdit(window, p, v) ELSE window
    /\ calls' = Tail(calls)
    /\ UNCHANGED <<kind, nm, updates, queue, bus, cache, lone, asked, foreign>>

(* secretsUpdated(): reads the secrets and announces them; GetSecrets()    *)
(* fails when the connection is gone or no agent answers.                  *)
HandleUpdateSecrets(ok) ==
    /\ calls # <<>> /\ Head(calls).method = "UpdateSecrets"
    /\ ok => nm.exists
    /\ svc' = IF ok THEN [svc EXCEPT !.data = UpdateSecrets(kind, svc.data, nm.secrets)]
              ELSE svc
    /\ queue' = Notify(queue, svc, svc')
    /\ calls' = Tail(calls)
    /\ UNCHANGED <<kind, nm, updates, bus, cache, window, lone, asked, foreign>>

DispatchPendingSettings_Retries(ok) ==
    /\ svc.timer
    /\ ok => nm.exists
    /\ svc' = IF ok THEN [svc EXCEPT !.timer = FALSE, !.dirty = FALSE,
                                     !.typedDirty = FALSE] ELSE svc
    /\ UNCHANGED <<kind, nm, updates, lone, window, queue, bus, calls, cache, asked, foreign>>

(* dispatchPendingSettings(): the timer fires.  The flags are cleared      *)
(* whether or not NetworkManager took the settings.                        *)
DispatchPendingSettings(ok) ==
    /\ svc.timer
    /\ ok => nm.exists
    /\ svc' = [svc EXCEPT !.timer = FALSE, !.dirty = FALSE, !.typedDirty = FALSE]
    /\ nm' = IF ok THEN [nm EXCEPT !.id = svc.pending.id, !.ipv4 = svc.pending.ipv4,
                                   !.ipv6 = svc.pending.ipv6, !.data = svc.pending.data,
                                   !.secrets = Over(svc.pending.secrets, nm.secrets)]
             ELSE nm
    /\ updates' = IF ok THEN updates + 1 ELSE updates
    /\ lone' = IF ok THEN lone ELSE None
    /\ window' = NoKeys
    /\ UNCHANGED <<kind, queue, bus, calls, cache, asked, foreign>>

(* settingsUpdated(): reads the settings back, updates the members and     *)
(* announces what changed; nothing when GetSettings() fails.               *)
SettingsUpdated ==
    /\ updates > 0
    /\ updates' = updates - 1
    /\ svc' = IF ~nm.exists THEN svc
              ELSE [svc EXCEPT !.settings = SettingsOf(nm), !.id = nm.id,
                               !.neverDefault = nm.ipv4,
                               !.data = UpdateData(kind, svc.data, nm.data)]
    /\ queue' = Notify(queue, svc, svc')
    /\ UNCHANGED <<kind, nm, bus, calls, cache, window, lone, asked, foreign>>

\* The signal of one interface, if it has changes.
SignalsOf(i) == IF DOMAIN queue[i] = {} THEN <<>>
                ELSE <<[interface |-> i, changed |-> queue[i]]>>

(* flushPropertyChanges(): one signal per interface with changes, in the   *)
(* order of the interface names.                                           *)
FlushPropertyChanges ==
    /\ queue # EmptyQueue
    /\ bus' = bus \o SignalsOf("vpn") \o SignalsOf("typed")
    /\ queue' = EmptyQueue
    /\ UNCHANGED <<kind, nm, updates, svc, calls, cache, window, lone, asked, foreign>>

(* The client's propertiesChanged() slot.                                  *)
PropertiesChanged ==
    /\ bus # <<>>
    /\ cache' = [cache EXCEPT ![Head(bus).interface] = Over(Head(bus).changed, @)]
    /\ bus' = Tail(bus)
    /\ UNCHANGED <<kind, nm, updates, svc, queue, calls, window, lone, asked, foreign>>

(* Another program edits the connection in NetworkManager.                 *)
ForeignEdit(p, v) ==
    /\ nm.exists /\ foreign < MaxForeign
    /\ nm' = IF p = "id" THEN [nm EXCEPT !.id = v]
             ELSE IF p = "neverDefault" THEN [nm EXCEPT !.ipv4 = v]
             ELSE [nm EXCEPT !.data =
                      BuildData(kind, [UpdateData(kind, Default(kind), nm.data)
                                          EXCEPT ![p] = v])]
    /\ updates' = updates + 1
    /\ foreign' = foreign + 1
    /\ lone' = None
    /\ UNCHANGED <<kind, svc, queue, bus, calls, cache, window, asked>>

(* VpnConnection::remove(), or another program deletes the connection.     *)
Remove ==
    /\ nm.exists
    /\ nm' = [nm EXCEPT !.exists = FALSE]
    /\ lone' = None
    /\ UNCHANGED <<kind, updates, svc, queue, bus, calls, cache, window, asked, foreign>>

-----------------------------------------------------------------------------
(* The constructors: the service has read the settings, the client has     *)
(* read the properties of the service.                                     *)
Init ==
    /\ kind \in Kinds
    /\ nm = [exists |-> TRUE, id |-> "vpn", ipv4 |-> FALSE, ipv6 |-> FALSE,
             data |-> BuildData(kind, Stored[kind]),
             secrets |-> BuildSecrets(kind, Stored[kind])]
    /\ updates = 0
    /\ svc = [settings |-> SettingsOf(nm), pending |-> SettingsOf(nm), dirty |-> FALSE,
              timer |-> FALSE, id |-> nm.id, neverDefault |-> nm.ipv4,
              data |-> UpdateData(kind, Default(kind), nm.data),
              pendingData |-> Default(kind), typedDirty |-> FALSE]
    /\ queue = EmptyQueue
    /\ bus = <<>> /\ calls = <<>>
    /\ cache = [i \in Interfaces |->
                   [p \in {q \in AllProperties : InterfaceOf(q) = i} |->
                       Ordinal(EnumOf, p, Current(svc, p))]]
    /\ window = NoKeys /\ lone = None
    /\ asked = 0 /\ foreign = 0

Next ==
    \/ \E e \in Edits[kind] : UserSet(e[1], e[2])
    \/ UserUpdateSecrets
    \/ HandleSet
    \/ \E ok \in BOOLEAN : HandleUpdateSecrets(ok)
    \/ \E ok \in BOOLEAN : DispatchPendingSettings(ok)
    \/ SettingsUpdated
    \/ FlushPropertyChanges
    \/ PropertiesChanged
    \/ \E e \in Foreign[kind] : ForeignEdit(e[1], e[2])
    \/ Remove

(* Both event loops keep running: a call or a signal that has arrived is   *)
(* handled and an active timer fires.  Nothing forces the user.            *)
Fairness ==
    /\ WF_vars(HandleSet)
    /\ WF_vars(\E ok \in BOOLEAN : HandleUpdateSecrets(ok))
    /\ WF_vars(\E ok \in BOOLEAN : DispatchPendingSettings(ok))
    /\ WF_vars(SettingsUpdated)
    /\ WF_vars(FlushPropertyChanges)
    /\ WF_vars(PropertiesChanged)

Spec == Init /\ [][Next]_vars /\ Fairness

-----------------------------------------------------------------------------
\* What the store would hold for property p if the pending settings were
\* written now.
WouldStore(p) ==
    CASE p = "id" -> svc.pending.id
      [] p = "neverDefault" -> svc.pending.ipv4
      [] p \in SecretProperties(kind) ->
           UpdateSecrets(kind, svc.pendingData, svc.pending.secrets)[p]
      [] OTHER -> UpdateData(kind, svc.pendingData, svc.pending.data)[p]

\* The conversion keeps value v of p in the struct d.
Keeps(d, p, v) ==
    LET e == [d EXCEPT ![p] = v]
    IN  CASE p \in VpnProperties -> TRUE
          [] p \in SecretProperties(kind) ->
               UpdateSecrets(kind, e, BuildSecrets(kind, e))[p] = v
               /\ BuildSecrets(kind, e) # BuildSecrets(kind, [d EXCEPT ![p] = ""])
          [] OTHER -> UpdateData(kind, d, BuildData(kind, e))[p] = v

(* Every edit the service accepted since the last dispatch is in what the  *)
(* next dispatch writes: neither a later edit of another property, be it   *)
(* data, secret, name or route, nor settings that arrive from              *)
(* NetworkManager in between, takes it out of the pending settings again.  *)
(* (A secret is promised only until the connection or the proxy type is    *)
(* edited in the same window: WithEdit.)                                   *)
WindowKept ==
    \A p \in DOMAIN window :
        (p \in VpnProperties \/ Keeps(svc.pendingData, p, window[p]))
            => WouldStore(p) = window[p]

(* Whenever nothing is on its way, all copies agree: the client shows what *)
(* the service has and the service has what NetworkManager stores, however *)
(* edits, foreign edits, refused updates and signals were interleaved.     *)
AtRestAgree ==
    AtRest =>
        /\ \A p \in AllProperties : Shown(p) = Current(svc, p)
        /\ nm.exists =>
              /\ svc.id = nm.id /\ svc.neverDefault = nm.ipv4
              /\ svc.settings = SettingsOf(nm)
              /\ svc.data = UpdateData(kind, svc.data, nm.data)

(* An edit made while nothing is on its way, and undisturbed by another    *)
(* edit, is in NetworkManager's settings once all is quiet again, in both  *)
(* address families for neverDefault, and the user sees it (a secret is    *)
(* shown only after UpdateSecrets).                                        *)
LoneEditLands ==
    (AtRest /\ lone # None) =>
        LET p == lone[1]  v == lone[2]  d == lone[3]
        IN  CASE p = "id" -> nm.id = v /\ Shown(p) = v
              [] p = "neverDefault" -> nm.ipv4 = v /\ nm.ipv6 = v /\ Shown(p) = v
              [] p \in SecretProperties(kind) ->
                   Keeps(d, p, v) => UpdateSecrets(kind, svc.data, nm.secrets)[p] = v
              [] OTHER -> Keeps(d, p, v) => Shown(p) = v

(* All the timers, calls and signals an edit sets off come to an end: when *)
(* the user stops, the copies agree for good.                              *)
Settles == <>[]AtRest
=============================================================================
