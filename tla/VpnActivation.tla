--------------------------- MODULE VpnActivation ---------------------------
(***************************************************************************)
(* Activating and deactivating VPN connections: VpnManager and its         *)
(* VpnConnection objects, ActiveConnectionManager with its ActiveConnection*)
(* and ActiveVpnConnection objects, the notifier of failed connections and *)
(* the switches of the menu.                                               *)
(*                                                                         *)
(* The program asks NetworkManager to (de)activate a connection and learns *)
(* what became of it only from signals about "active connection" objects,  *)
(* which come and go.  An object is read when its path first turns up in   *)
(* the list of active connections: at that time it may already be further  *)
(* than the signals still on their way, or gone.                           *)
(***************************************************************************)
EXTENDS Integers, Sequences, FiniteSets

CONSTANTS
    Vpns,          \* VPN settings connections, numbered as their paths sort
    Actives,       \* paths of active connections, never used twice
    Other,         \* the path of an active connection that is no VPN
    MaxRequests,   \* bound: switches the user throws
    MaxChanges     \* bound: connections created, removed, and networks that change

ASSUME VpnsAssumption == Vpns \subseteq Nat \ {0} /\ Actives \subseteq Nat \ {0}
ASSUME OtherAssumption == Other \notin Actives \cup {0}

VARIABLES
    nmVpns,        \* NetworkManager: which VPN connections its settings hold
    nmActive,      \* NetworkManager: path -> [conn, state] of active connections
    owner,         \* history: the connection each path was made for
    sig,           \* signals of NetworkManager on their way
    req,           \* calls on their way to NetworkManager
    conns,         \* VpnManager::m_connections
    mgr,           \* VpnManager: busy and activeConnectionPath
    acts,          \* ActiveConnectionManager::m_connections
    links,         \* vpn -> active connections whose signals it listens to
    hooks,         \* path -> connections of its signal to the notifier
    notified,      \* path -> failure messages shown
    switch,        \* VpnSection::m_items: the switch of each connection
    refused,       \* history: activations refused since the last list
    requests, changes  \* counters for the bounds

nmVars == <<nmVpns, nmActive, owner>>
vars == <<nmVpns, nmActive, owner, sig, req, conns, mgr, acts, links, hooks, notified,
          switch, refused, requests, changes>>

NoPath == 0       \* QDBusObjectPath() and "/": no connection
Paths == Actives \cup {Other}
Empty == [x \in {} |-> x]
With(f, x, y) == [z \in DOMAIN f \cup {x} |-> IF z = x THEN y ELSE f[z]]
Present == {v \in Vpns : nmVpns[v] = "present"}

-----------------------------------------------------------------------------
(* VpnConnection                                                           *)

STATE_ACTIVE_MAP(state) == state \in {"activating", "activated"}
STATE_BUSY_MAP(state) == state \in {"activating", "deactivating", "deactivated"}

updateActivatable(v, c) ==
    [c EXCEPT !.activatable = ~c.otherBusy /\ c.otherPath \in {NoPath, v}]

setOtherConnectionIsBusy(v, c, b) == updateActivatable(v, [c EXCEPT !.otherBusy = b])
setActiveConnectionPath(v, c, p) == updateActivatable(v, [c EXCEPT !.otherPath = p])

\* _connectionUpdated(): an active connection that is a VPN and this one.
ConnectionUpdated(v, c, as, a) ==
    IF as[a].type # "vpn" \/ as[a].conn # v THEN c
    ELSE [c EXCEPT !.path = a, !.active = STATE_ACTIVE_MAP(as[a].state),
                   !.busy = STATE_BUSY_MAP(as[a].state)]

\* The active connections of as that are made for v.
Matches(v, as) == {a \in DOMAIN as : as[a].conn = v}

ActiveConnectionsUpdated_Keeps(v, c, as, a) ==
    IF Matches(v, as) # {} THEN ConnectionUpdated(v, c, as, a) ELSE [c EXCEPT !.busy = FALSE]

ActiveConnectionsUpdated_Busy(v, c, as, a) ==
    IF Matches(v, as) # {} THEN ConnectionUpdated(v, c, as, a)
    ELSE [c EXCEPT !.active = FALSE, !.path = NoPath]

\* activeConnectionsUpdated(), where a is the match that is found first.
ActiveConnectionsUpdated(v, c, as, a) ==
    IF Matches(v, as) # {} THEN ConnectionUpdated(v, c, as, a)
    ELSE [c EXCEPT !.active = FALSE, !.busy = FALSE, !.path = NoPath]

NewVpn == [active |-> FALSE, busy |-> FALSE, activatable |-> FALSE, path |-> NoPath,
           otherBusy |-> FALSE, otherPath |-> NoPath]

-----------------------------------------------------------------------------
(* VpnManager                                                              *)

AnyBusy(cs) == \E v \in DOMAIN cs : cs[v].busy

FirstActive(cs) ==
    LET on == {v \in DOMAIN cs : cs[v].active}
    IN  IF on = {} THEN NoPath ELSE CHOOSE v \in on : \A w \in on : v <= w

\* updateActiveAndBusy(): the manager's two values, and their copies in every
\* connection when they change.
ManagerOf(cs) == [busy |-> AnyBusy(cs), path |-> FirstActive(cs)]
UpdateActiveAndBusy_Path(m, cs) ==
    [v \in DOMAIN cs |-> setActiveConnectionPath(v, cs[v], ManagerOf(cs).path)]
UpdateActiveAndBusy(m, cs) ==
    LET now == ManagerOf(cs)
        bs == IF now.busy = m.busy THEN cs
              ELSE [v \in DOMAIN cs |-> setOtherConnectionIsBusy(v, cs[v], now.busy)]
    IN  IF now.path = m.path THEN bs
        ELSE [v \in DOMAIN bs |-> setActiveConnectionPath(v, bs[v], now.path)]

\* The slots connected to activeChanged and activatableChanged: the manager's,
\* and the connection's switch.  cs are the connections after the change.
Settle(cs) ==
    LET final == UpdateActiveAndBusy(mgr, cs)
    IN  /\ mgr' = ManagerOf(cs)
        /\ conns' = final
        /\ switch' = [v \in DOMAIN cs |->
               IF v \notin DOMAIN switch
               THEN [state |-> cs[v].active, enabled |-> final[v].activatable]
               ELSE [state |-> IF conns[v].active # cs[v].active THEN cs[v].active
                               ELSE switch[v].state,
                     enabled |-> final[v].activatable]]

-----------------------------------------------------------------------------
(* What the user does.                                                     *)

SetActive_First(v, on) ==
    IF on = conns[v].active
    THEN UNCHANGED <<conns, mgr, switch, req>>
    ELSE /\ IF on THEN Settle([conns EXCEPT ![v].active = TRUE])
                  ELSE UNCHANGED <<conns, mgr, switch>>
         /\ req' = Append(req, [call |-> IF on THEN "Activate" ELSE "Deactivate",
                                vpn |-> v, path |-> IF on THEN NoPath
                                               ELSE conns[FirstActive(conns)].path])

\* VpnConnection::setActive(): an activation is shown before it is requested.
SetActive(v, on) ==
    IF on = conns[v].active
    THEN UNCHANGED <<conns, mgr, switch, req>>
    ELSE /\ IF on THEN Settle([conns EXCEPT ![v].active = TRUE])
                  ELSE UNCHANGED <<conns, mgr, switch>>
         /\ req' = Append(req, [call |-> IF on THEN "Activate" ELSE "Deactivate",
                                vpn |-> v,
                                path |-> IF on THEN NoPath ELSE conns[v].path])

\* Through the D-Bus property "active".
ClientSetActive(v, on) ==
    /\ requests < MaxRequests /\ v \in DOMAIN conns
    /\ SetActive(v, on)
    /\ requests' = requests + 1
    /\ UNCHANGED <<nmVpns, nmActive, owner, sig, acts, links, hooks, notified, refused, changes>>

\* Through the switch in the menu: it shows its new state at once.
ToggleSwitch(v) ==
    /\ requests < MaxRequests /\ v \in DOMAIN switch
    /\ switch[v].enabled
    /\ LET on == ~switch[v].state
       IN  IF on = conns[v].active \/ ~on
           THEN /\ switch' = [switch EXCEPT ![v].state = on]
                /\ req' = IF on = conns[v].active THEN req
                          ELSE Append(req, [call |-> "Deactivate", vpn |-> v,
                                            path |-> conns[v].path])
                /\ UNCHANGED <<conns, mgr>>
           ELSE SetActive(v, TRUE)
    /\ requests' = requests + 1
    /\ UNCHANGED <<nmVpns, nmActive, owner, sig, acts, links, hooks, notified, refused, changes>>

-----------------------------------------------------------------------------
(* Signals of NetworkManager.                                              *)

\* The ActiveConnection constructor reads the object as it is now; of an object
\* that is gone it gets empty answers.
ReadActive(a) ==
    IF a \in DOMAIN nmActive
    THEN [type |-> IF a = Other THEN "wifi" ELSE "vpn", conn |-> nmActive[a].conn,
          state |-> nmActive[a].state]
    ELSE [type |-> "", conn |-> NoPath, state |-> "unknown"]

HookOnce_Again(n) == n + 1

\* Qt::UniqueConnection
HookOnce(n) == 1

\* updateConnections() and its receivers: every VpnConnection and the notifier.
HandleList(list) ==
    LET as == [a \in list |-> IF a \in DOMAIN acts THEN acts[a] ELSE ReadActive(a)]
        Pick == [v \in DOMAIN conns |-> IF Matches(v, as) = {} THEN {NoPath} ELSE Matches(v, as)]
    IN  IF list = DOMAIN acts THEN UNCHANGED <<conns, mgr, switch, acts, links, hooks, refused>>
        ELSE \E pick \in [DOMAIN conns -> Paths \cup {NoPath}] :
            /\ \A v \in DOMAIN conns : pick[v] \in Pick[v]
            /\ acts' = as
            /\ Settle([v \in DOMAIN conns |->
                          ActiveConnectionsUpdated(v, conns[v], as, pick[v])])
            /\ links' = [v \in Vpns |->
                   IF v \in DOMAIN conns /\ pick[v] # NoPath
                   THEN (links[v] \cap list) \cup {pick[v]} ELSE links[v] \cap list]
            /\ hooks' = [a \in Paths |->
                   IF a \notin list THEN 0
                   ELSE IF as[a].type = "vpn" THEN HookOnce(hooks[a]) ELSE hooks[a]]
            /\ refused' = {}

\* ActiveConnection::setState() and the connections that listen.
HandleState(a, state) ==
    /\ IF a \notin DOMAIN acts \/ acts[a].state = state
       THEN UNCHANGED <<acts, conns, mgr, switch>>
       ELSE /\ acts' = [acts EXCEPT ![a].state = state]
            /\ Settle([v \in DOMAIN conns |-> IF a \in links[v]
                          THEN ConnectionUpdated(v, conns[v], acts', a) ELSE conns[v]])
    /\ UNCHANGED <<links, hooks, refused>>

\* vpnStateChanged() of the notifier: a failure, or a service that stopped.
Failure(state, reason) ==
    state = "FAILED" \/ (state = "DISCONNECTED" /\ reason = "SERVICE_STOPPED")

HandleVpnState(a, state, reason) ==
    /\ notified' = IF a \in DOMAIN acts /\ acts[a].type = "vpn" /\ Failure(state, reason)
                   THEN [notified EXCEPT ![a] = @ + hooks[a]] ELSE notified
    /\ UNCHANGED <<conns, mgr, switch, acts, links, hooks, refused>>

\* _newConnection(): constructed from the active connections known now.
HandleNew(v) ==
    /\ IF v \in DOMAIN conns \/ v \notin Present
       THEN UNCHANGED <<conns, mgr, switch, links>>
       ELSE \E a \in IF Matches(v, acts) = {} THEN {NoPath} ELSE Matches(v, acts) :
            LET c == ActiveConnectionsUpdated(v, NewVpn, acts, a)
                d == setActiveConnectionPath(v, setOtherConnectionIsBusy(v, c, mgr.busy),
                                             mgr.path)
            IN  /\ Settle(With(conns, v, d))
                /\ links' = [links EXCEPT ![v] = IF a = NoPath THEN {} ELSE {a}]
    /\ UNCHANGED <<acts, hooks, refused>>

HandleRemoved(v) ==
    /\ IF v \notin DOMAIN conns THEN UNCHANGED <<conns, mgr, switch, links>>
       ELSE /\ Settle([w \in DOMAIN conns \ {v} |-> conns[w]])
            /\ links' = [links EXCEPT ![v] = {}]
    /\ UNCHANGED <<acts, hooks, refused>>

HandleSignal ==
    /\ sig # <<>>
    /\ LET s == Head(sig)
       IN  /\ \/ s.kind = "list" /\ HandleList(s.list)
              \/ s.kind = "state" /\ HandleState(s.path, s.state)
              \/ s.kind = "vpn" /\ HandleVpnState(s.path, s.state, s.reason)
              \/ s.kind = "new" /\ HandleNew(s.vpn)
              \/ s.kind = "removed" /\ HandleRemoved(s.vpn)
           /\ s.kind # "vpn" => UNCHANGED notified
    /\ sig' = Tail(sig)
    /\ UNCHANGED <<nmVpns, nmActive, owner, req, requests, changes>>

-----------------------------------------------------------------------------
(* NetworkManager, as the program uses it.                                 *)

svcVars == <<conns, mgr, acts, links, hooks, notified, switch>>

StateSignal(a, s) == [kind |-> "state", path |-> a, state |-> s]
ListSignal(list) == [kind |-> "list", list |-> list]
VpnSignal(a, s, r) == [kind |-> "vpn", path |-> a, state |-> s, reason |-> r]

\* Paths are numbered in the order they are made.
NextPath(a) == owner[a] = NoPath /\ \A b \in Actives : b < a => owner[b] # NoPath

NMActivate(a) ==
    /\ req # <<>> /\ Head(req).call = "Activate" /\ Head(req).vpn \in Present
    /\ NextPath(a)
    /\ nmActive' = With(nmActive, a, [conn |-> Head(req).vpn, state |-> "activating"])
    /\ owner' = [owner EXCEPT ![a] = Head(req).vpn]
    /\ sig' = Append(sig, ListSignal(DOMAIN nmActive'))
    /\ req' = Tail(req)
    /\ UNCHANGED <<nmVpns, refused, requests, changes, svcVars>>

\* An error reply: activateConnectionFinished() only logs it.
NMRefuse ==
    /\ req # <<>> /\ Head(req).call = "Activate"
    /\ refused' = refused \cup {Head(req).vpn}
    /\ req' = Tail(req)
    /\ UNCHANGED <<nmVars, sig, requests, changes, svcVars>>

NMDeactivate ==
    /\ req # <<>> /\ Head(req).call = "Deactivate"
    /\ LET a == Head(req).path
       IN  IF a \in DOMAIN nmActive /\ nmActive[a].state \in {"activating", "activated"}
           THEN /\ nmActive' = [nmActive EXCEPT ![a].state = "deactivating"]
                /\ sig' = Append(sig, StateSignal(a, "deactivating"))
           ELSE UNCHANGED <<nmActive, sig>>
    /\ req' = Tail(req)
    /\ UNCHANGED <<nmVpns, owner, refused, requests, changes, svcVars>>

\* An active connection moves on, up or down.
NMProgress(a) ==
    /\ a \in DOMAIN nmActive \ {Other}
    /\ \/ /\ nmActive[a].state = "activating"
          /\ nmActive' = [nmActive EXCEPT ![a].state = "activated"]
          /\ sig' = sig \o <<VpnSignal(a, "ACTIVATED", "NONE"), StateSignal(a, "activated")>>
       \/ /\ nmActive[a].state = "activating"
          /\ nmActive' = [nmActive EXCEPT ![a].state = "deactivated"]
          /\ sig' = sig \o <<VpnSignal(a, "FAILED", "LOGIN_FAILED"), StateSignal(a, "deactivated")>>
       \/ /\ nmActive[a].state = "activated" /\ nmActive[a].conn \notin Present
          /\ nmActive' = [nmActive EXCEPT ![a].state = "deactivating"]
          /\ sig' = Append(sig, StateSignal(a, "deactivating"))
       \/ /\ nmActive[a].state = "deactivating"
          /\ nmActive' = [nmActive EXCEPT ![a].state = "deactivated"]
          /\ sig' = sig \o <<VpnSignal(a, "DISCONNECTED", "DISCONNECTED"),
                             StateSignal(a, "deactivated")>>
       \/ /\ nmActive[a].state = "deactivated"
          /\ nmActive' = [b \in DOMAIN nmActive \ {a} |-> nmActive[b]]
          /\ sig' = Append(sig, ListSignal(DOMAIN nmActive'))
    /\ UNCHANGED <<nmVpns, owner, req, refused, requests, changes, svcVars>>

\* The VPN service of an active connection stops by itself.
NMStopped(a) ==
    /\ changes < MaxChanges
    /\ a \in DOMAIN nmActive \ {Other} /\ nmActive[a].state = "activated"
    /\ nmActive' = [nmActive EXCEPT ![a].state = "deactivated"]
    /\ sig' = sig \o <<VpnSignal(a, "DISCONNECTED", "SERVICE_STOPPED"),
                       StateSignal(a, "deactivated")>>
    /\ changes' = changes + 1
    /\ UNCHANGED <<nmVpns, owner, req, refused, requests, svcVars>>

\* Another network comes or goes: the list of active connections changes.
NMOther ==
    /\ changes < MaxChanges
    /\ nmActive' = IF Other \in DOMAIN nmActive
                   THEN [b \in DOMAIN nmActive \ {Other} |-> nmActive[b]]
                   ELSE With(nmActive, Other, [conn |-> NoPath, state |-> "activated"])
    /\ sig' = Append(sig, ListSignal(DOMAIN nmActive'))
    /\ changes' = changes + 1
    /\ UNCHANGED <<nmVpns, owner, req, refused, requests, svcVars>>

\* VpnManager::addConnection() or another program: a connection is created.
AddConnection(v) ==
    /\ changes < MaxChanges /\ nmVpns[v] = "absent"
    /\ nmVpns' = [nmVpns EXCEPT ![v] = "present"]
    /\ sig' = Append(sig, [kind |-> "new", vpn |-> v])
    /\ changes' = changes + 1
    /\ UNCHANGED <<nmActive, owner, req, refused, requests, svcVars>>

\* VpnConnection::remove(), or another program: a connection is deleted, even
\* an active one, which NetworkManager then takes down.
RemoveConnection(v) ==
    /\ changes < MaxChanges /\ v \in Present
    /\ nmVpns' = [nmVpns EXCEPT ![v] = "deleted"]
    /\ sig' = Append(sig, [kind |-> "removed", vpn |-> v])
    /\ changes' = changes + 1
    /\ UNCHANGED <<nmActive, owner, req, refused, requests, svcVars>>

-----------------------------------------------------------------------------
(* The constructors have read what there is at the start: some of the      *)
(* connections, and perhaps one that is active.                            *)
Init ==
    /\ nmVpns \in [Vpns -> {"absent", "present"}]
    /\ \E start \in {Empty} \cup {With(Empty, a, [conn |-> v, state |-> "activated"]) :
                                     a \in {b \in Actives : \A c \in Actives : b <= c},
                                     v \in Present} :
          /\ nmActive = start
          /\ owner = [a \in Paths |-> IF a \in DOMAIN start THEN start[a].conn ELSE NoPath]
    /\ acts = [a \in DOMAIN nmActive |-> ReadActive(a)]
    /\ LET cs == [v \in Present |-> ActiveConnectionsUpdated(v, NewVpn, acts,
                      IF Matches(v, acts) = {} THEN NoPath ELSE CHOOSE a \in Matches(v, acts) : TRUE)]
           start == [v \in Present |-> updateActivatable(v, cs[v])]
       IN  /\ conns = UpdateActiveAndBusy([busy |-> FALSE, path |-> NoPath], start)
           /\ mgr = ManagerOf(cs)
    /\ links = [v \in Vpns |-> Matches(v, acts)]
    /\ hooks = [a \in Paths |-> IF a \in DOMAIN acts THEN 1 ELSE 0]
    /\ switch = [v \in Present |-> [state |-> conns[v].active, enabled |-> conns[v].activatable]]
    /\ notified = [a \in Paths |-> 0]
    /\ sig = <<>> /\ req = <<>> /\ refused = {}
    /\ requests = 0 /\ changes = 0

Next ==
    \/ \E v \in Vpns : \E on \in BOOLEAN : ClientSetActive(v, on)
    \/ \E v \in Vpns : ToggleSwitch(v)
    \/ HandleSignal
    \/ \E a \in Actives : NMActivate(a)
    \/ NMRefuse
    \/ NMDeactivate
    \/ \E a \in Actives : NMProgress(a)
    \/ \E a \in Actives : NMStopped(a)
    \/ NMOther
    \/ \E v \in Vpns : AddConnection(v) \/ RemoveConnection(v)

(* The event loop handles the signals that arrived; NetworkManager answers *)
(* calls and brings every activation and deactivation to an end.           *)
Fairness ==
    /\ WF_vars(HandleSignal)
    /\ WF_vars(NMRefuse \/ NMDeactivate \/ \E a \in Actives : NMActivate(a))
    /\ \A a \in Actives : WF_vars(NMProgress(a))

Spec == Init /\ [][Next]_vars /\ Fairness

-----------------------------------------------------------------------------
(* One VPN at a time: a connection can be switched on only while no        *)
(* connection is busy and none but itself is active, and its switch and    *)
(* its D-Bus property say so at once, whichever object changed last.       *)
OneAtATime ==
    \A v \in DOMAIN conns :
        LET free == /\ \A w \in DOMAIN conns : ~conns[w].busy
                    /\ (\E w \in DOMAIN conns : conns[w].active)
                           => v = FirstActive(conns)
        IN  conns[v].activatable = free /\ switch[v].enabled = free

(* Switching a VPN off never takes another one down: the path sent to      *)
(* DeactivateConnection was made for this connection, or is "/".           *)
RightDeactivate ==
    \A i \in DOMAIN req :
        req[i].path # NoPath => owner[req[i].path] = req[i].vpn

(* A failed VPN is reported once, however often the list of active         *)
(* connections changed while it was up.                                    *)
NotifiedOnce ==
    \A a \in Paths : notified[a] <= 1

\* Nothing is on its way and NetworkManager is done with what it was asked.
AtRest == /\ sig = <<>> /\ req = <<>>
          /\ \A a \in DOMAIN nmActive : nmActive[a].state = "activated"

(* When nothing is on its way, a VPN is shown active exactly when it is.   *)
(* The one exception is an activation NetworkManager refused: the early    *)
(* "active" of VpnConnection::setActive() stays until the next change of   *)
(* the list of active connections.                                         *)
ShownIsActive ==
    AtRest => \A v \in DOMAIN conns \cap Present :
        LET up == \E a \in DOMAIN nmActive : nmActive[a].conn = v
        IN  /\ up => conns[v].active
            /\ conns[v].active => up \/ v \in refused
            /\ ~conns[v].busy

(* No connection stays busy, and with it every switch disabled: whatever   *)
(* NetworkManager started comes to an end and is noticed.                  *)
BusyEnds == mgr.busy ~> ~mgr.busy
=============================================================================
