---------------------------- MODULE SecretAgent ----------------------------
(* The NetworkManager secret agent: the D-Bus object NetworkManager asks   *)
(* for secrets (SecretAgent), the dialog it shows for a WiFi password      *)
(* (SecretRequest, PasswordMenu, Notification) and the keyring             *)
(* (KeyringCredentialStore).                                               *)
(*                                                                         *)
(* Three connections reach the agent's one thread, each in order and none  *)
(* ordered with another: NetworkManager's calls on the system bus, the     *)
(* notification server's signals on Qt's session connection, and the text  *)
(* field's state changes on GDBus's session connection.                    *)

EXTENDS Naturals, Sequences, FiniteSets, TLC

CONSTANTS
    Wifis, Vpns,    \* the saved connections, by their uuid and path
    KeyMgmt,        \* the key managements a WiFi connection may have
    Flags,          \* the flags NetworkManager calls with
    Passwords,      \* what a user can type and a network can have
    MaxCalls,       \* bound on the GetSecrets calls
    MaxQueue,       \* bound on NetworkManager's calls on their way
    MaxEvents       \* bound on saves, deletions, edits and restarts

ASSUME DisjointAssumption == Wifis \cap Vpns = {}     \* one type each
ASSUME FlagsAssumption ==
    Flags \subseteq
        SUBSET {"ALLOW_INTERACTION", "REQUEST_NEW", "USER_REQUESTED"}
ASSUME MgmtAssumption ==
    KeyMgmt \in [Wifis -> SUBSET {"wpa-psk", "wpa-none", "none", "ieee8021x"}]
ASSUME BoundsAssumption == {MaxCalls, MaxQueue, MaxEvents} \subseteq Nat

VARIABLES
    nm,         \* NetworkManager: its calls, and whether it knows the agent
    inbox,      \* its calls and signals on their way to the agent
    request,    \* m_request: the requests alive, none or one
    replies,    \* what the agent sent to each call
    keyring,    \* the items of the keyring, by connection
    shown,      \* the dialogs on the screen, by notification id
    pw,         \* state changes of the text field on their way
    sig,        \* signals of the notification server on their way
    typed,      \* what the user last typed in each call's dialog
    saved,      \* what NetworkManager last saved, while it can count on it
    runs,       \* how often the agent was restarted
    steps       \* the bounded events so far

vars == <<nm, inbox, request, replies, keyring, shown, pw, sig, typed, saved,
          runs, steps>>

Conns == Wifis \cup Vpns
Calls == 1 .. MaxCalls
NoText == ""
NoKeys == [k \in {} |-> NoText]
Nowhere == 0        \* the menu of an agent that is gone

WifiSecurity == "802-11-wireless-security"
SettingOf(conn) == IF conn \in Wifis THEN WifiSecurity ELSE "vpn"

(* The keys of a setting that hold secrets. *)
KnownSecrets(setting) ==
    CASE setting = "802-1x" -> {"password", "private-key-password",
                                "phase2-private-key-password", "pin"}
      [] setting \in {"adsl", "cdma", "pppoe"} -> {"password"}
      [] setting = "gsm" -> {"password", "pin"}
      [] setting = WifiSecurity -> {"wep-key0", "wep-key1", "wep-key2",
                                    "wep-key3", "psk", "leap-password"}
      [] OTHER -> {}

isSecret_NoWep(setting, key) == setting = WifiSecurity /\ key = "psk"

isSecret(setting, key) == key \in KnownSecrets(setting)

-----------------------------------------------------------------------------
(* The password dialog *)

(* The key under which the password of a network goes into its setting; a  *)
(* key management the dialog does not know gets none.                      *)
PasswordKeys_Swapped(mgmt) ==
    CASE mgmt = "wpa-psk" -> {"wep-key0"}
      [] mgmt \in {"wpa-none", "none"} -> {"psk"}
      [] OTHER -> {}

PasswordKeys(mgmt) ==
    CASE mgmt \in {"wpa-none", "wpa-psk"} -> {"psk"}
      [] mgmt = "none" -> {"wep-key0"}
      [] OTHER -> {}

(* PasswordMenu takes the first path that no living menu is exported at;   *)
(* while a request is replaced, old and new are alive together.            *)
FreePath(alive) == CHOOSE p \in 1 .. 128 :
    /\ \A r \in alive : r.path # p
    /\ \A q \in 1 .. (p - 1) : \E r \in alive : r.path = q

(* Constructing the request exports its menu and shows its notification;   *)
(* a notification server that does not answer leaves the id at 0.          *)
NewRequest(c, alive, notified) ==
    [call |-> c, path |-> FreePath(alive), password |-> NoText,
     id |-> IF notified THEN c ELSE 0]

(* Notification::show(): the dialog on the screen and its menu. *)
show(dialogs, r) ==
    IF r.id = 0 THEN dialogs
    ELSE [i \in DOMAIN dialogs \cup {r.id} |->
             IF i = r.id THEN r.path ELSE dialogs[i]]

(* Destroying a request closes its notification if that is still open. *)
Closed(dialogs, gone) ==
    [i \in DOMAIN dialogs \ {r.id : r \in gone} |-> dialogs[i]]

Reply(c, kind, secrets) ==
    replies' = [replies EXCEPT ![c] =
                   Append(@, [kind |-> kind, secrets |-> secrets])]

FinishGetSecrets(r, error, secrets) ==
    /\ Reply(r.call, IF error THEN "NoSecrets" ELSE "ok", secrets)
    /\ request' = {}

(* The notification server's signals, filtered by the notification's id. *)
actionInvoked(r, key) ==
    /\ shown' = Closed(shown, {r})
    /\ FinishGetSecrets(r, key # "connect_id",
           [k \in PasswordKeys(nm.call[r.call].mgmt) |-> r.password])

notificationClosed(r) ==
    /\ FinishGetSecrets(r, TRUE, NoKeys)
    /\ UNCHANGED shown

HandleNotification ==
    /\ sig # <<>>
    /\ sig' = Tail(sig)
    /\ \/ \E r \in request :
            /\ r.id = Head(sig).id
            /\ \/ Head(sig).key # "closed" /\ actionInvoked(r, Head(sig).key)
               \/ Head(sig).key = "closed" /\ notificationClosed(r)
       \/ /\ \A r \in request : r.id # Head(sig).id
          /\ UNCHANGED <<request, replies, shown>>
    /\ UNCHANGED <<nm, inbox, keyring, pw, typed, saved, runs, steps>>

(* change-state of the exported action: whichever menu has the path. *)
passwordChanged ==
    /\ pw # <<>>
    /\ pw' = Tail(pw)
    /\ request' = {IF r.path = Head(pw).path
                   THEN [r EXCEPT !.password = Head(pw).text] ELSE r :
                   r \in request}
    /\ UNCHANGED <<nm, inbox, replies, keyring, shown, sig, typed, saved,
                   runs, steps>>

-----------------------------------------------------------------------------
(* The keyring: items are written one by one, and an error in writing or   *)
(* clearing is logged only.                                                *)

get(conn) == keyring[conn]

save(conn, secrets, written) ==
    keyring' = [keyring EXCEPT ![conn] =
                   [k \in DOMAIN @ \cup written |->
                       IF k \in written THEN secrets[k] ELSE @[k]]]

clear(conn, fails) ==
    keyring' = [keyring EXCEPT ![conn] = IF fails THEN @ ELSE NoKeys]

-----------------------------------------------------------------------------
(* NetworkManager's calls *)

RequestsUser(m) ==
    /\ SettingOf(m.conn) = WifiSecurity
    /\ "ALLOW_INTERACTION" \in m.flags
    /\ {"REQUEST_NEW", "USER_REQUESTED"} \cap m.flags # {}

RequestsKeyring(m) ==
    ~RequestsUser(m) /\ m.flags \in {{}, {"USER_REQUESTED"}}

(* The new request is built and shown before the old one is destroyed. *)
GetFromUser(c, notified) ==
    /\ RequestsUser(nm.call[c])
    /\ LET r == NewRequest(c, request, notified)
       IN /\ request' = {r}
          /\ shown' = show(Closed(shown, request), r)
    /\ UNCHANGED replies

GetFromKeyring(c, fails) ==
    /\ RequestsKeyring(nm.call[c])
    /\ LET found == get(nm.call[c].conn)
       IN IF fails THEN Reply(c, "InternalError", NoKeys)
          ELSE IF DOMAIN found = {} THEN Reply(c, "NoSecrets", NoKeys)
          ELSE Reply(c, "ok", found)
    /\ UNCHANGED <<request, shown>>

GetRefused(c) ==
    /\ ~RequestsUser(nm.call[c]) /\ ~RequestsKeyring(nm.call[c])
    /\ Reply(c, "NoSecrets", NoKeys)
    /\ UNCHANGED <<request, shown>>

Take == /\ inbox # <<>>
        /\ inbox' = Tail(inbox)

GetSecrets ==
    /\ Take /\ Head(inbox).method = "GetSecrets"
    /\ \E works \in BOOLEAN : \/ GetFromUser(Head(inbox).call, works)
                              \/ GetFromKeyring(Head(inbox).call, ~works)
                              \/ GetRefused(Head(inbox).call)
    /\ UNCHANGED <<nm, keyring, pw, sig, typed, saved, runs, steps>>

(* The request goes without an answer when the path is its connection's. *)
CancelGetSecrets_Any(conn) == request' = {} /\ shown' = Closed(shown, request)

CancelGetSecrets(conn) ==
    LET gone == {r \in request : nm.call[r.call].conn = conn}
    IN /\ request' = request \ gone
       /\ shown' = Closed(shown, gone)

HandleCancel ==
    /\ Take /\ Head(inbox).method = "CancelGetSecrets"
    /\ CancelGetSecrets(Head(inbox).conn)
    /\ UNCHANGED <<nm, replies, keyring, pw, sig, typed, saved, runs, steps>>

(* What is saved of a connection: the secret keys of its setting. *)
Secrets(conn, setting) ==
    IF SettingOf(conn) = "vpn" THEN setting.secrets
    ELSE [k \in {x \in DOMAIN setting : isSecret(SettingOf(conn), x)} |->
             setting[k]]

SaveSecrets ==
    /\ Take /\ Head(inbox).method = "SaveSecrets"
    /\ LET m == Head(inbox)
           secrets == Secrets(m.conn, m.setting)
       IN \E written \in SUBSET DOMAIN secrets :
            /\ save(m.conn, secrets, written)
            /\ saved' = [saved EXCEPT ![m.conn] =
                   IF written = DOMAIN secrets THEN m.meant ELSE NoKeys]
    /\ UNCHANGED <<nm, request, replies, shown, pw, sig, typed, runs, steps>>

DeleteSecrets ==
    /\ Take /\ Head(inbox).method = "DeleteSecrets"
    /\ \E fails \in BOOLEAN : clear(Head(inbox).conn, fails)
    /\ saved' = [saved EXCEPT ![Head(inbox).conn] = NoKeys]
    /\ UNCHANGED <<nm, request, replies, shown, pw, sig, typed, runs, steps>>

(* NetworkManager is back on the bus: register again. *)
serviceOwnerChanged ==
    /\ Take /\ Head(inbox).method = "serviceOwnerChanged"
    /\ \E ok \in BOOLEAN : nm' = [nm EXCEPT !.registered = ok]
    /\ UNCHANGED <<request, replies, keyring, shown, pw, sig, typed, saved,
                   runs, steps>>

-----------------------------------------------------------------------------
(* NetworkManager, the user and the restarts *)

Happens == /\ steps < MaxEvents
           /\ steps' = steps + 1

Send(m) == /\ Len(inbox) < MaxQueue
           /\ inbox' = Append(inbox, m)

Waits(c) == nm.call[c].state = "waiting" /\ replies[c] = <<>>

(* NetworkManager asks for one secret of a connection at a time. *)
NMAsks(c, conn, mgmt, flags) ==
    /\ nm.registered
    /\ nm.call[c].state = "idle" /\ \A d \in 1 .. (c - 1) : nm.call[d].state # "idle"
    /\ \A d \in Calls : nm.call[d].conn = conn => ~Waits(d)
    /\ nm' = [nm EXCEPT !.call[c] = [state |-> "waiting", conn |-> conn,
                                     mgmt |-> mgmt, flags |-> flags]]
    /\ Send([method |-> "GetSecrets", call |-> c])
    /\ UNCHANGED <<request, replies, keyring, shown, pw, sig, typed, saved,
                   runs, steps>>

(* It cancels a call whose answer it has not seen: the answer may be on    *)
(* its way.                                                                *)
NMCancels(c) ==
    /\ nm.call[c].state = "waiting"
    /\ \A d \in (c + 1) .. MaxCalls : nm.call[d].conn # nm.call[c].conn
    /\ nm' = [nm EXCEPT !.call[c].state = "withdrawn"]
    /\ Send([method |-> "CancelGetSecrets",
             conn |-> nm.call[c].conn])
    /\ UNCHANGED <<request, replies, keyring, shown, pw, sig, typed, saved,
                   runs, steps>>

(* A whole connection is sent; the secrets of a VPN are a map of their     *)
(* own, those of WiFi lie among the other keys.                            *)
Saving(conn, key, text) ==
    [method |-> "SaveSecrets", conn |-> conn, meant |-> [k \in {key} |-> text],
     setting |-> IF conn \in Vpns
                 THEN [secrets |-> [k \in {key} |-> text]]
                 ELSE [k \in {"key-mgmt", key} |->
                          IF k = key THEN text ELSE "any"]]

NMSaves(conn, key, text) ==
    /\ nm.registered
    /\ Happens
    /\ Send(Saving(conn, key, text))
    /\ UNCHANGED <<nm, request, replies, keyring, shown, pw, sig, typed,
                   saved, runs>>

NMDeletes(conn) ==
    /\ nm.registered
    /\ Happens
    /\ Send([method |-> "DeleteSecrets", conn |-> conn])
    /\ UNCHANGED <<nm, request, replies, keyring, shown, pw, sig, typed,
                   saved, runs>>

(* A new NetworkManager knows of no call and no agent. *)
NMRestarts ==
    /\ Happens
    /\ nm' = [registered |-> FALSE,
              call |-> [c \in Calls |-> IF nm.call[c].state = "waiting"
                            THEN [nm.call[c] EXCEPT !.state = "withdrawn"]
                            ELSE nm.call[c]]]
    /\ Send([method |-> "serviceOwnerChanged"])
    /\ UNCHANGED <<request, replies, keyring, shown, pw, sig, typed, saved,
                   runs>>

(* A restarted agent registers itself; what was sent to the old one is     *)
(* lost, the keyring stays as it is, and its dialog stays on the screen:   *)
(* that names a menu on the old one's bus connection, so that what is      *)
(* typed there reaches nobody.                                             *)
AgentRestarts ==
    /\ Happens
    /\ nm' = [nm EXCEPT !.registered = TRUE]
    /\ request' = {} /\ inbox' = <<>> /\ pw' = <<>> /\ sig' = <<>>
    /\ saved' = [conn \in Conns |->
                    IF \E i \in DOMAIN inbox :
                          /\ inbox[i].method \in {"SaveSecrets", "DeleteSecrets"}
                          /\ inbox[i].conn = conn
                    THEN NoKeys ELSE saved[conn]]
    /\ shown' = [i \in DOMAIN shown |-> Nowhere]
    /\ runs' = runs + 1
    /\ UNCHANGED <<replies, keyring, typed>>

UserTypes(i, text) ==
    /\ i \in DOMAIN shown
    /\ Happens
    /\ pw' = Append(pw, [path |-> shown[i], text |-> text])
    /\ typed' = [typed EXCEPT ![i] = text]
    /\ UNCHANGED <<nm, inbox, request, replies, keyring, shown, sig, saved,
                   runs>>

(* A button closes the dialog too, and the server reports both. *)
UserChooses(i, keys) ==
    /\ i \in DOMAIN shown
    /\ sig' = sig \o [n \in DOMAIN keys |-> [id |-> i, key |-> keys[n]]]
    /\ shown' = [j \in DOMAIN shown \ {i} |-> shown[j]]
    /\ UNCHANGED <<nm, inbox, request, replies, keyring, pw, typed, saved,
                   runs, steps>>

-----------------------------------------------------------------------------

Init ==
    /\ nm = [registered |-> TRUE,
             call |-> [c \in Calls |-> [state |-> "idle", conn |-> "none",
                                        mgmt |-> "none", flags |-> {}]]]
    /\ inbox = <<>> /\ request = {} /\ pw = <<>> /\ sig = <<>>
    /\ replies = [c \in Calls |-> <<>>]
    /\ keyring = [conn \in Conns |-> NoKeys]
    /\ saved = [conn \in Conns |-> NoKeys]
    /\ shown = NoKeys
    /\ typed = [c \in Calls |-> NoText]
    /\ runs = 0 /\ steps = 0

Handles ==
    \/ GetSecrets \/ HandleCancel \/ SaveSecrets \/ DeleteSecrets
    \/ serviceOwnerChanged \/ HandleNotification \/ passwordChanged

NetworkManager ==
    \/ \E c \in Calls, conn \in Wifis, flags \in Flags :
         \E mgmt \in KeyMgmt[conn] : NMAsks(c, conn, mgmt, flags)
    \/ \E c \in Calls, conn \in Vpns, flags \in Flags :
         NMAsks(c, conn, "none", flags)
    \/ \E c \in Calls : NMCancels(c)
    \/ \E conn \in Wifis, key \in {"psk", "wep-key0"}, text \in Passwords :
         NMSaves(conn, key, text)
    \/ \E conn \in Vpns, text \in Passwords : NMSaves(conn, "password", text)
    \/ \E conn \in Conns : NMDeletes(conn)
    \/ NMRestarts

User ==
    \E i \in Calls :
        \/ \E text \in Passwords : UserTypes(i, text)
        \/ UserChooses(i, <<"connect_id", "closed">>)
        \/ UserChooses(i, <<"cancel_id", "closed">>)
        \/ UserChooses(i, <<"closed">>)

Next == Handles \/ NetworkManager \/ User \/ AgentRestarts

Spec == Init /\ [][Next]_vars

-----------------------------------------------------------------------------
(* Properties *)

(* The call is still on its way to the agent; it is the dialog's call. *)
Pending(c) ==
    \E i \in DOMAIN inbox : inbox[i].method = "GetSecrets" /\ inbox[i].call = c
OfDialog(c) == \E r \in request : r.call = c

(* The calls as the abstract specification sees them: a call that has      *)
(* left the inbox without an answer and is not the dialog's was dropped.   *)
EndOf(c) ==
    CASE Len(replies[c]) > 1 -> "answered twice"
      [] Len(replies[c]) = 1 -> "answered"
      [] OfDialog(c) -> "open"
      [] nm.call[c].state = "idle" \/ Pending(c) -> "none"
      [] OTHER -> "dropped"

Abstract == INSTANCE SecretCalls
    WITH asked <- [c \in Calls |-> nm.call[c].state],
         end <- [c \in Calls |-> EndOf(c)]

(* GetSecrets, CancelGetSecrets, FinishGetSecrets and the dialog together  *)
(* implement the calls of SecretCalls: one answer at most, one dialog at   *)
(* most, and a shown call is dropped only when it was withdrawn, replaced  *)
(* by a newer one, or lost with the agent.                                 *)
CallsKept == Abstract!Spec

(* When "Connect" is handled with no text on its way, the answer carries   *)
(* what the user last typed into the dialog of this very call, under the   *)
(* key its key management asks for: never the text of an older dialog      *)
(* whose menu had the same path.                                           *)
TypedIsSent == [][
    \A c \in Calls :
        LET mgmt == nm.call[c].mgmt
        IN (/\ replies'[c] # replies[c]
            /\ request # request'
            /\ Head(sig).key = "connect_id"
            /\ pw = <<>> /\ typed[c] # NoText
            /\ mgmt # "ieee8021x") =>
           \E k \in DOMAIN replies'[c][1].secrets :
               /\ replies'[c][1].secrets[k] = typed[c]
               /\ k = IF mgmt = "none" THEN "wep-key0" ELSE "psk"
    ]_vars

(* An answer taken from the keyring carries what NetworkManager saved last *)
(* for the connection, across restarts of the agent, unless it deleted it  *)
(* since or the keyring lost a write.                                      *)
KeyringHonest == [][
    \A c \in Calls :
        LET conn == nm.call[c].conn
        IN (/\ replies'[c] # replies[c]
            /\ request = request' /\ RequestsKeyring(nm.call[c])
            /\ replies'[c][1].kind # "InternalError") =>
           \A k \in DOMAIN saved[conn] :
               /\ k \in DOMAIN replies'[c][1].secrets
               /\ replies'[c][1].secrets[k] = saved[conn][k]
    ]_vars

=============================================================================
