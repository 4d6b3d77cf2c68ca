----------------------------- MODULE MCVpnData -----------------------------
(***************************************************************************)
(* The conversions of VpnData on their own: an editor sets properties of   *)
(* one connection and saves, which writes the stored map and reads it back.*)
(* The properties are checked in every state for every further edit.       *)
(***************************************************************************)
EXTENDS VpnData

CONSTANTS MaxEdits,     \* edits of one behaviour
          Texts0        \* the texts a user may type

VARIABLES kind,         \* which of the two structs
          data,         \* m_data of the connection's object
          edits         \* edits made so far

vars == <<kind, data, edits>>

NumberProperties == DOMAIN OvPairKey \cup {"proxyPort"}
TextProperties == DOMAIN OvTextKey \cup OvSecretProperties \cup
                  {"dev", "ta", "proxyServer", "proxyUsername", "gateway", "user", "domain"}

\* The values a property may be given.
Values(p) ==
    CASE p \in DOMAIN EnumOf -> {EnumOf[p][i] : i \in DOMAIN EnumOf[p]}
      [] p \in NumberProperties -> Numbers
      [] p \in TextProperties -> Texts0 \cup {""}
      [] OTHER -> BOOLEAN

\* Saving d: the store gets d's maps, and the object reads them back.
Save(d) == UpdateSecrets(kind, UpdateData(kind, data, BuildData(kind, d)),
                         BuildSecrets(kind, d))

Edit(p, v) ==
    /\ edits < MaxEdits
    /\ v # data[p]
    /\ data' = Save([Copy(kind, data) EXCEPT ![p] = v])
    /\ edits' = edits + 1
    /\ UNCHANGED kind

Init == /\ kind \in Kinds
        /\ data = Default(kind)
        /\ edits = 0

Next == \E p \in Properties(kind) : \E v \in Values(p) : Edit(p, v)

Spec == Init /\ [][Next]_vars

-----------------------------------------------------------------------------
(* Which properties the settings d have a use for, stated property by      *)
(* property and not from the conversions.                                  *)

UsedBasic == [TLS |-> {"ca", "cert", "key", "remote", "certPass"},
              PASSWORD |-> {"ca", "username", "remote", "password"},
              PASSWORD_TLS |-> {"ca", "cert", "key", "username", "remote", "certPass",
                                "password"},
              STATIC_KEY |-> {"ca", "localIp", "remote", "remoteIp", "staticKey",
                              "staticKeyDirection"}]

OvUses(d, p) ==
    CASE p = "connectionType" -> TRUE
      [] p \in DOMAIN OvBasic -> p \in UsedBasic[d.connectionType]
      [] p \in DOMAIN OvSwitchOf -> d[OvSwitchOf[p]]
      [] p \in {"dev", "devType"} -> d.devTypeSet
      [] p = "remoteCertTls" -> d.connectionType # "STATIC_KEY" /\ d.remoteCertTlsSet
      [] p \in {"ta", "taDir"} -> d.connectionType # "STATIC_KEY" /\ d.taSet
      [] p \in DOMAIN OvTls -> d.connectionType # "STATIC_KEY"
      [] p \in DOMAIN OvProxy \ {"proxyType"} -> d.proxyType # "NOT_REQUIRED"
      [] OTHER -> TRUE

\* MPPE needs one of the MSCHAP methods; with MPPE the other methods are moot.
PptpUses(d, p) ==
    CASE p \in {"allowPap", "allowChap", "allowEap"} -> ~d.requireMppe
      [] p = "requireMppe" -> d.allowMschap \/ d.allowMschapv2 \/ ~d.requireMppe
      [] p \in {"mppeType", "mppeStateful"} ->
           d.requireMppe /\ (d.allowMschap \/ d.allowMschapv2)
      [] OTHER -> TRUE

Uses(d, p) == IF kind = "pptp" THEN PptpUses(d, p) ELSE OvUses(d, p)

\* The properties that decide whether another one is used.
Deciding == {"connectionType", "devTypeSet", "remoteCertTlsSet", "taSet", "proxyType",
             "requireMppe", "allowMschap", "allowMschapv2"} \cup
            {OvSwitchOf[p] : p \in DOMAIN OvSwitchOf}

\* An empty ta file comes back as "/".
Normal(p, v) == IF p = "ta" /\ v = "" THEN "/" ELSE v

(* A property that the settings use survives a save and the reload that    *)
(* follows it, whatever was edited before: buildData() and updateData()    *)
(* agree on its key and on its text in both directions.                    *)
EditLands ==
    \A p \in Properties(kind) : \A v \in Values(p) :
        LET d == [data EXCEPT ![p] = v]
        IN  Uses(d, p) => Save(d)[p] = Normal(p, v)

(* Saving an edit of one property disturbs no other property that is in    *)
(* use: no two properties share a key of the stored maps.                  *)
EditIsolated ==
    \A p \in Properties(kind) \ Deciding : \A v \in Values(p) :
        LET d == [data EXCEPT ![p] = v]
            after == Save(d)
        IN  \A q \in Properties(kind) \ {p} : Uses(d, q) => after[q] = Normal(q, data[q])

(* What is stored is a fixed point: an object with any history that reads  *)
(* the stored map and writes it back leaves it as it is, so opening and    *)
(* saving a connection without an edit changes nothing.                    *)
StoreStable ==
    \A p \in Deciding \cap Properties(kind) : \A v \in Values(p) :
        LET stored == BuildData(kind, [data EXCEPT ![p] = v])
        IN  \A x \in {data, Default(kind)} :
               BuildData(kind, UpdateData(kind, x, stored)) = stored
=============================================================================
