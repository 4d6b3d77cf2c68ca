---------------------------- MODULE Connectivity ----------------------------
(***************************************************************************)
(* The connectivity service and its client library: the D-Bus objects of   *)
(* ConnectivityService with the queue of their announcements, and in a     *)
(* client Connectivity with its property caches and the list models of     *)
(* SIMs, modems and VPN connections.                                       *)
(*                                                                         *)
(* The client copies every property and follows the service by signals.    *)
(* It reads all of an object when the service's bus name gets an owner;    *)
(* that call overtakes the signals that are already on their way.  The     *)
(* service may crash and is started again, numbering its objects anew.     *)
(***************************************************************************)
EXTENDS Integers, Sequences, FiniteSets, TLC, SequencesExt

CONSTANTS
    Iccids, NoSim,       \* SIM cards
    Known,               \* the SIMs in the settings at the start
    Serials,             \* modems
    Vpns,                \* NetworkManager connections, each created at most once
    Varied,              \* the manager's values this instance lets change
    SimVaried,           \* the properties of a SIM this instance lets change
    MaxSteps             \* bound: changes by the manager and NetworkManager, what the
                         \* client's user asks for, and crashes, all together

ASSUME SimsAssumption == IsFiniteSet(Iccids) /\ Known \subseteq Iccids /\ NoSim \notin Iccids

VARIABLES
    up,         \* the service owns its bus name
    mgr,        \* what Manager holds: flags, SIMs, chosen SIM, ready modems
    nm,         \* VPN connection -> "unused", "present", "gone"
    svc,        \* the exported objects: paths of SIMs, modems, VPNs; add queue
    pend,       \* propertyChangeQueue: object -> announced values
    bus,        \* signals and replies on their way to the client
    cl,         \* the client: caches, list models, chosen SIM, calls it made
    answered,   \* add request -> replies the client has handled
    hist,       \* history: "overtaken", a reading was newer than signals on
                \* their way; "contested", the manager chose a SIM while a choice
                \* of the client's user was not yet confirmed
    steps       \* counter for the bound

vars == <<up, mgr, nm, svc, pend, bus, cl, answered, hist, steps>>

Empty == [x \in {} |-> x]
NoPath == 0                                  \* "/"
With(f, k, v) == [x \in DOMAIN f \cup {k} |-> IF x = k THEN v ELSE f[x]]
Over(f, g) == [x \in DOMAIN f \cup DOMAIN g |-> IF x \in DOMAIN f THEN f[x] ELSE g[x]]
Only(f, S) == [x \in DOMAIN f \cap S |-> f[x]]
Paths(f) == {f[x] : x \in DOMAIN f}

-----------------------------------------------------------------------------
(* The service's objects and properties.  Every value of the manager that  *)
(* is not a SIM, a modem or a VPN is one of two.                           *)

Status == <<"NetworkingStatus", 0>>
Private == <<"Private", 0>>
ModemObject(p) == <<"modem", p>>
SimObject(p) == <<"sim", p>>

\* The D-Bus properties that are a value of the manager, and that value.
StatusReads ==
    [Limitations |-> "characteristics", Status |-> "status", WifiEnabled |-> "wifiEnabled",
     FlightMode |-> "flightMode", ModemAvailable |-> "modemAvailable",
     HotspotEnabled |-> "hotspotEnabled", HotspotSsid |-> "hotspotSsid",
     HotspotMode |-> "hotspotMode", HotspotStored |-> "hotspotStored"]
PrivateReads ==
    [HotspotPassword |-> "hotspotPassword", HotspotAuth |-> "hotspotAuth",
     MobileDataEnabled |-> "mobileDataEnabled"]
Flags == {StatusReads[p] : p \in DOMAIN StatusReads}
             \cup {PrivateReads[p] : p \in DOMAIN PrivateReads} \cup {"unstoppable"}
SwitchProperties == {"FlightModeSwitchEnabled", "WifiSwitchEnabled", "HotspotSwitchEnabled"}
StatusProperties == DOMAIN StatusReads \cup SwitchProperties
PrivateProperties ==
    DOMAIN PrivateReads \cup {"Modems", "SimForMobileData", "Sims", "VpnConnections"}
SimProperties == {"Locked", "Present", "DataRoamingEnabled", "Imsi", "PrimaryPhoneNumber",
                  "Mcc", "Mnc", "PreferredLanguages"}

ASSUME VariedAssumption == Varied \subseteq Flags /\ SimVaried \subseteq SimProperties

Announces_OwnOnly(f) ==
    IF f = "unstoppable" THEN SwitchProperties
    ELSE {p \in DOMAIN StatusReads : StatusReads[p] = f}
             \cup {p \in DOMAIN PrivateReads : PrivateReads[p] = f}

\* The slot of each manager signal: where and what it announces.
Announces(f) ==
    CASE f = "flightMode" -> {"FlightMode", "HotspotSwitchEnabled"}
      [] f = "wifiEnabled" -> {"WifiEnabled", "HotspotSwitchEnabled"}
      [] f = "unstoppable" -> SwitchProperties
      [] OTHER -> {p \in DOMAIN StatusReads : StatusReads[p] = f}
                      \cup {p \in DOMAIN PrivateReads : PrivateReads[p] = f}
AnnouncedOn(f) == IF \E p \in DOMAIN PrivateReads : PrivateReads[p] = f
                  THEN Private ELSE Status

simForMobileData(m, s) == IF m.choice \in DOMAIN s.sims THEN s.sims[m.choice] ELSE NoPath

\* The getters.
StatusValue(m, p) ==
    CASE p \in {"FlightModeSwitchEnabled", "WifiSwitchEnabled"} -> ~m.flags["unstoppable"]
      [] p = "HotspotSwitchEnabled" -> ~m.flags["unstoppable"] /\ ~m.flags["flightMode"]
      [] OTHER -> m.flags[StatusReads[p]]
PrivateValue(m, s, p) ==
    CASE p = "Modems" -> {s.modems[x].path : x \in DOMAIN s.modems}
      [] p = "Sims" -> Paths(s.sims)
      [] p = "VpnConnections" -> Paths(s.vpns)
      [] p = "SimForMobileData" -> simForMobileData(m, s)
      [] OTHER -> m.flags[PrivateReads[p]]

\* Properties.GetAll() of an object of the service.
GetAll(m, s, o) ==
    CASE o = Status -> [p \in StatusProperties |-> StatusValue(m, p)]
      [] o = Private -> [p \in PrivateProperties |-> PrivateValue(m, s, p)]
      [] o[1] = "modem" /\ (\E x \in DOMAIN s.modems : s.modems[x].path = o[2]) ->
           [p \in {"Sim"} |->
               (CHOOSE d \in {s.modems[x] : x \in DOMAIN s.modems} : d.path = o[2]).sim]
      [] o[1] = "sim" /\ o[2] \in Paths(s.sims) ->
           m.bits[CHOOSE i \in DOMAIN s.sims : s.sims[i] = o[2]]
      [] OTHER -> Empty

\* DBusUtils::notifyPropertyChanged() takes the values of that moment;
\* flushPropertyChanges() sends one signal per object, in the order of paths.
Notify(q, m, s, o, names) ==
    With(q, o, Over(Only(GetAll(m, s, o), names), IF o \in DOMAIN q THEN q[o] ELSE Empty))

\* The numbered objects of a type in q, lowest number first.
Numbered(q, type) ==
    LET ns == {o[2] : o \in {x \in DOMAIN q : x[1] = type}}
    IN  [k \in 1..Cardinality(ns) |->
            <<type, CHOOSE n \in ns : Cardinality({m \in ns : m <= n}) = k>>]
InOrder(q) ==
    LET One(o) == IF o \in DOMAIN q THEN <<o>> ELSE <<>>
    IN  One(Status) \o One(Private) \o Numbered(q, "modem") \o Numbered(q, "sim")
Signals(q) ==
    [n \in DOMAIN InOrder(q) |->
        [type |-> "changed", object |-> InOrder(q)[n], values |-> q[InOrder(q)[n]]]]

\* Announce and wait for the timer, or flush at once.
Announce(m, s, o, names) == pend' = Notify(pend, m, s, o, names) /\ UNCHANGED bus
AnnounceNow(m, s, o, names, replies) ==
    bus' = bus \o Signals(Notify(pend, m, s, o, names)) \o replies /\ pend' = Empty

-----------------------------------------------------------------------------
(* The manager's signals and the slots of the service.                     *)

Contested == IF cl.mine THEN hist \cup {"contested"} ELSE hist
Counts == steps < MaxSteps /\ steps' = steps + 1
Happens == up /\ Counts

SetFlag(f, v) ==
    /\ mgr' = [mgr EXCEPT !.flags[f] = v]
    /\ IF f = "unstoppable" THEN AnnounceNow(mgr', svc, Status, Announces(f), <<>>)
       ELSE Announce(mgr', svc, AnnouncedOn(f), Announces(f))
    /\ UNCHANGED svc

\* One of the manager's values changes.
ManagerChanges(f) ==
    /\ Happens
    /\ SetFlag(f, ~mgr.flags[f])
    /\ UNCHANGED <<up, nm, cl, answered, hist>>

\* A property of a SIM changes: the slots of DBusSim.
SetBit(i, p, v) ==
    /\ mgr' = [mgr EXCEPT !.bits[i][p] = v]
    /\ Announce(mgr', svc, SimObject(svc.sims[i]), {p})
    /\ UNCHANGED svc
SimChanges(i, p) ==
    /\ Happens /\ i \in mgr.sims
    /\ SetBit(i, p, ~mgr.bits[i][p])
    /\ UNCHANGED <<up, nm, cl, answered, hist>>

SimAdded_Queues(i, chosen) ==
    /\ Happens /\ i \notin mgr.sims
    /\ mgr' = [mgr EXCEPT !.sims = @ \cup {i}, !.choice = IF chosen THEN i ELSE @]
    /\ svc' = [svc EXCEPT !.sims = With(@, i, Cardinality(DOMAIN svc.sims) + 1)]
    /\ Announce(mgr', svc', Private,
                IF chosen THEN {"Sims", "SimForMobileData"} ELSE {"Sims"})
    /\ hist' = IF chosen THEN Contested ELSE hist
    /\ UNCHANGED <<up, nm, cl, answered>>

\* ManagerImpl::simAdded(): simsChanged, answered by updateSims(), and then
\* the choice of this SIM if the settings name it.
SimAdded(i, chosen) ==
    /\ Happens /\ i \notin mgr.sims
    /\ LET m1 == [mgr EXCEPT !.sims = @ \cup {i}]
           m2 == IF chosen THEN [m1 EXCEPT !.choice = i] ELSE m1
           s == [svc EXCEPT !.sims = With(@, i, Cardinality(DOMAIN svc.sims) + 1)]
       IN  /\ mgr' = m2 /\ svc' = s
           /\ bus' = bus \o Signals(Notify(pend, m1, s, Private, {"Sims"}))
           /\ pend' = IF chosen THEN Notify(Empty, m2, s, Private, {"SimForMobileData"})
                      ELSE Empty
    /\ hist' = IF chosen THEN Contested ELSE hist
    /\ UNCHANGED <<up, nm, cl, answered>>

SetSimForMobileData(i) ==
    IF mgr.choice = i THEN UNCHANGED <<mgr, pend, bus>>
    ELSE /\ mgr' = [mgr EXCEPT !.choice = i]
         /\ Announce(mgr', svc, Private, {"SimForMobileData"})
ManagerChooses(i) ==
    /\ Happens /\ i # mgr.choice
    /\ SetSimForMobileData(i)
    /\ hist' = Contested
    /\ UNCHANGED <<up, nm, svc, cl, answered>>

\* updateModemSimPath(): the path a modem object shows for the SIM it holds.
SimPath(i, old) == IF i = NoSim THEN NoPath
                   ELSE IF i \in DOMAIN svc.sims THEN svc.sims[i] ELSE old

\* ManagerImpl::modemReady() and modems_changed(), answered by updateModems().
ModemReady(x, i) ==
    /\ Happens /\ x \notin DOMAIN mgr.modems
    /\ mgr' = [mgr EXCEPT !.modems = With(@, x, i)]
    /\ svc' = [svc EXCEPT !.modems = With(@, x, [path |-> svc.nextModem,
                                                 sim |-> SimPath(i, NoPath)]),
                          !.nextModem = @ + 1]
    /\ AnnounceNow(mgr', svc', Private, {"Modems"}, <<>>)
    /\ UNCHANGED <<up, nm, cl, answered, hist>>
ModemRemoved(x) ==
    /\ Happens /\ x \in DOMAIN mgr.modems
    /\ mgr' = [mgr EXCEPT !.modems = Only(@, Serials \ {x})]
    /\ svc' = [svc EXCEPT !.modems = Only(@, Serials \ {x})]
    /\ AnnounceNow(mgr', svc', Private, {"Modems"}, <<>>)
    /\ UNCHANGED <<up, nm, cl, answered, hist>>

\* modemSimUpdated(), DBusModem::setSim()
ModemSimUpdated(x, i) ==
    /\ Happens /\ x \in DOMAIN mgr.modems /\ mgr.modems[x] # i
    /\ mgr' = [mgr EXCEPT !.modems[x] = i]
    /\ LET d == svc.modems[x]
           p == SimPath(i, d.sim)
       IN  /\ svc' = [svc EXCEPT !.modems[x].sim = p]
           /\ IF d.sim = p THEN UNCHANGED <<pend, bus>>
              ELSE Announce(mgr', svc', ModemObject(d.path), {"Sim"})
    /\ UNCHANGED <<up, nm, cl, answered, hist>>

(* A VPN connection is created or deleted in NetworkManager.               *)
ConnectionCreated(v) ==
    /\ Happens /\ nm[v] = "unused"
    /\ nm' = [nm EXCEPT ![v] = "present"]
    /\ UNCHANGED <<up, mgr, svc, pend, bus, cl, answered, hist>>
ConnectionDeleted(v) ==
    /\ Happens /\ nm[v] = "present"
    /\ nm' = [nm EXCEPT ![v] = "gone"]
    /\ UNCHANGED <<up, mgr, svc, pend, bus, cl, answered, hist>>

Reply(id, p) == [type |-> "reply", id |-> id, path |-> p]

NewConnection_ReplyFirst(v) ==
    /\ up /\ nm[v] = "present" /\ v \notin DOMAIN svc.vpns
    /\ LET p == svc.nextVpn
           waiting == {q \in svc.addQueue : q.vpn = v}
       IN  /\ svc' = [svc EXCEPT !.vpns = With(@, v, p), !.nextVpn = @ + 1,
                                 !.addQueue = @ \ waiting]
           /\ bus' = bus \o SetToSeq({Reply(q.id, p) : q \in waiting})
           /\ pend' = Notify(pend, mgr, svc', Private, {"VpnConnections"})
    /\ UNCHANGED <<up, mgr, nm, cl, answered, hist, steps>>

NewConnection_NoReply(v) ==
    /\ up /\ nm[v] = "present" /\ v \notin DOMAIN svc.vpns
    /\ svc' = [svc EXCEPT !.vpns = With(@, v, svc.nextVpn), !.nextVpn = @ + 1]
    /\ AnnounceNow(mgr, svc', Private, {"VpnConnections"}, <<>>)
    /\ UNCHANGED <<up, mgr, nm, cl, answered, hist, steps>>

\* NetworkManager's NewConnection and ConnectionRemoved, answered by
\* updateVpnList(): the list first, then the replies that waited for it.
NewConnection(v) ==
    /\ up /\ nm[v] = "present" /\ v \notin DOMAIN svc.vpns
    /\ LET p == svc.nextVpn
           waiting == {q \in svc.addQueue : q.vpn = v}
       IN  /\ svc' = [svc EXCEPT !.vpns = With(@, v, p), !.nextVpn = @ + 1,
                                 !.addQueue = @ \ waiting]
           /\ AnnounceNow(mgr, svc', Private, {"VpnConnections"},
                          SetToSeq({Reply(q.id, p) : q \in waiting}))
    /\ UNCHANGED <<up, mgr, nm, cl, answered, hist, steps>>
ConnectionRemoved(v) ==
    /\ up /\ nm[v] = "gone" /\ v \in DOMAIN svc.vpns
    /\ svc' = [svc EXCEPT !.vpns = Only(@, Vpns \ {v})]
    /\ AnnounceNow(mgr, svc', Private, {"VpnConnections"}, <<>>)
    /\ UNCHANGED <<up, mgr, nm, cl, answered, hist, steps>>

\* The timer of the announcements.
FlushPropertyChanges ==
    /\ up /\ pend # Empty
    /\ bus' = bus \o Signals(pend) /\ pend' = Empty
    /\ UNCHANGED <<up, mgr, nm, svc, cl, answered, hist, steps>>

-----------------------------------------------------------------------------
(* The client's copies.                                                    *)

Read(o) == IF up THEN GetAll(mgr, svc, o) ELSE Empty
Cached(c, o, p, none) ==
    IF o \in DOMAIN c.cache THEN IF p \in DOMAIN c.cache[o] THEN c.cache[o][p] ELSE none
    ELSE none

\* A method call: the bus answers it with an error when nobody owns the name.
Call(c, call) == IF up THEN [c EXCEPT !.calls = Append(@, call)] ELSE c

getSimByPath(sims, p) == IF p \in sims THEN p ELSE NoPath

\* Connectivity::setSimForMobileData(): keeps the SIM and, when the cached
\* property differs, tells the service.
ChooseSim(c, p, by) ==
    IF c.choice = p THEN c
    ELSE LET d == [c EXCEPT !.choice = p]
         IN  IF Cached(c, Private, "SimForMobileData", -1) = p THEN d
             ELSE Call(d, [method |-> "setSimForMobileData", path |-> p, by |-> by])

\* The service's choice is taken over by the same operation.
Follow(c, p) == [ChooseSim(c, p, "echo") EXCEPT !.mine = FALSE]

\* The caches of the objects in a list model: kept, or read for a new one.
Caches(c, type, old, new) ==
    LET Of(ps) == {<<type, p>> : p \in ps}
    IN  [o \in (DOMAIN c.cache \ Of(old \ new)) \cup Of(new \ old) |->
            IF o \in DOMAIN c.cache THEN c.cache[o] ELSE Read(o)]

updateModemDBusPaths(c, ps) ==
    LET cs == Caches(c, "modem", DOMAIN c.modems, ps)
    IN  [c EXCEPT !.cache = cs,
                  !.modems = [p \in ps |->
                      IF p \in DOMAIN c.modems THEN c.modems[p]
                      ELSE getSimByPath(c.sims, Cached([cache |-> cs], ModemObject(p), "Sim",
                                                       NoPath))]]

\* The list of SIMs, and the slots of its simsUpdated signal.
updateSimDBusPaths(c, ps) ==
    LET d == [c EXCEPT !.sims = ps, !.cache = Caches(c, "sim", c.sims, ps),
                       !.modems = [p \in DOMAIN c.modems |->
                           getSimByPath(ps, Cached(c, ModemObject(p), "Sim", NoPath))]]
    IN  Follow(d, getSimByPath(ps, Cached(d, Private, "SimForMobileData", NoPath)))

\* The slots of DBusPropertyCache::propertyChanged.
PropertyChanged(c, o, p, v) ==
    CASE p = "Modems" -> updateModemDBusPaths(c, v)
      [] p = "Sims" -> updateSimDBusPaths(c, v)
      [] p = "SimForMobileData" -> Follow(c, getSimByPath(c.sims, v))
      [] p = "VpnConnections" -> [c EXCEPT !.vpns = v]
      [] p = "Sim" -> [c EXCEPT !.modems[o[2]] = getSimByPath(c.sims, v)]
      [] OTHER -> c

\* One of the properties vs is stored and announced: always, or if it differs.
Slots == {"Modems", "Sim", "SimForMobileData", "Sims", "VpnConnections"}
OneChanged(c, o, vs, p, always) ==
    IF p \notin DOMAIN vs \/ (~always /\ p \in DOMAIN c.cache[o] /\ vs[p] = c.cache[o][p])
    THEN c
    ELSE PropertyChanged([c EXCEPT !.cache[o] = With(@, p, vs[p])], o, p, vs[p])

\* Those with slots, in the order of a QMap.
InTurn(c, o, vs, always) ==
    LET c1 == OneChanged(c, o, vs, "Modems", always)
        c2 == OneChanged(c1, o, vs, "Sim", always)
        c3 == OneChanged(c2, o, vs, "SimForMobileData", always)
        c4 == OneChanged(c3, o, vs, "Sims", always)
    IN  OneChanged(c4, o, vs, "VpnConnections", always)

\* propertiesChanged(): entry by entry.
PropertiesChanged(c, o, vs) ==
    InTurn([c EXCEPT !.cache[o] = Over(Only(vs, DOMAIN vs \ Slots), @)], o, vs, FALSE)

\* serviceOwnerChanged(): everything is read, stored, and announced in turn.
Refreshed(c, o) == InTurn([c EXCEPT !.cache[o] = Read(o)], o, Read(o), TRUE)

\* The same for the objects of the SIMs and modems that are listed by then.
Listed == <<"listed", 0>>
ListedRefreshed_Kept(c) == c
ListedRefreshed(c) ==
    LET cs == [o \in DOMAIN c.cache |-> IF o \in {Private, Status} THEN c.cache[o] ELSE Read(o)]
    IN  [c EXCEPT !.cache = cs,
                  !.modems = [p \in DOMAIN c.modems |->
                      IF cs[ModemObject(p)] = Empty THEN c.modems[p]
                      ELSE getSimByPath(c.sims, cs[ModemObject(p)]["Sim"])]]

NoneCached(c) == [c EXCEPT !.cache = [o \in DOMAIN c.cache |-> Empty]]

\* The client takes the next message from the bus.
Receives == bus # <<>> /\ bus' = Tail(bus)
Receive(type) == Receives /\ Head(bus).type = type
ClientKeeps == UNCHANGED <<up, mgr, nm, svc, pend, steps>>

ClientPropertiesChanged ==
    /\ Receive("changed")
    /\ cl' = IF Head(bus).object \in DOMAIN cl.cache
             THEN PropertiesChanged(cl, Head(bus).object, Head(bus).values) ELSE cl
    /\ ClientKeeps /\ UNCHANGED <<answered, hist>>
ServiceLost ==
    /\ Receive("lost")
    /\ cl' = NoneCached(cl)
    /\ ClientKeeps /\ UNCHANGED <<answered, hist>>
ServiceOwnerChanged ==
    /\ Receive("owner")
    /\ cl' = IF Head(bus).object = Listed THEN ListedRefreshed(cl)
             ELSE Refreshed(cl, Head(bus).object)
    /\ hist' = IF \E n \in 2..Len(bus) :
                     bus[n].type = "changed" /\ bus[n].object = Head(bus).object
               THEN hist \cup {"overtaken"} ELSE hist
    /\ ClientKeeps /\ UNCHANGED answered

\* addConnectionFinished(): the new connection is looked up in the list.
AddConnectionFinished ==
    /\ Receive("reply")
    /\ answered' = [answered EXCEPT ![Head(bus).id] = @ + 1]
    /\ ClientKeeps /\ UNCHANGED <<cl, hist>>

-----------------------------------------------------------------------------
(* What the user does with the client's objects.                           *)

UserKeeps == UNCHANGED <<up, mgr, nm, svc, pend, hist>>

UserSetsSim(p) ==
    /\ Counts /\ cl' = [ChooseSim(cl, p, "user") EXCEPT !.mine = @ \/ p # cl.choice]
    /\ UserKeeps /\ UNCHANGED <<bus, answered>>

\* setFlightMode(), setwifiEnabled(), setHotspot...(), setMobileDataEnabled()
UserSetsFlag(f, v) ==
    /\ Counts /\ cl' = Call(cl, [method |-> "Set", flag |-> f, value |-> v])
    /\ UserKeeps /\ UNCHANGED <<bus, answered>>

\* Sim::setDataRoamingEnabled(), through DBusPropertyCache::set(); without
\* the service there is no interface to call.
UserSetsRoaming(p, v) ==
    /\ Counts /\ cl.cache[SimObject(p)] # Empty
    /\ cl' = IF Cached(cl, SimObject(p), "DataRoamingEnabled", ~v) = v THEN cl
             ELSE Call(cl, [method |-> "SetRoaming", path |-> p, value |-> v])
    /\ UserKeeps /\ UNCHANGED <<bus, answered>>

UserAddsVpn ==
    /\ Counts /\ cl' = Call(cl, [method |-> "AddVpnConnection", id |-> steps'])
    /\ bus' = IF up THEN bus ELSE Append(bus, Reply(steps', NoPath))
    /\ UserKeeps /\ UNCHANGED answered

UserRemovesVpn(p) ==
    /\ Counts /\ cl' = Call(cl, [method |-> "RemoveVpnConnection", path |-> p])
    /\ UserKeeps /\ UNCHANGED <<bus, answered>>

(* The service handles the client's next call.                             *)
Handles(method) == /\ up /\ cl.calls # <<>> /\ Head(cl.calls).method = method
                   /\ cl' = [cl EXCEPT !.calls = Tail(@)]
                   /\ UNCHANGED <<up, answered, hist, steps>>

HandleSetSim ==
    /\ Handles("setSimForMobileData")
    /\ LET p == Head(cl.calls).path
       IN  IF p = NoPath THEN SetSimForMobileData(NoSim)
           ELSE IF p \in Paths(svc.sims)
           THEN SetSimForMobileData(CHOOSE i \in DOMAIN svc.sims : svc.sims[i] = p)
           ELSE UNCHANGED <<mgr, pend, bus>>
    /\ UNCHANGED <<nm, svc>>

\* The manager may refuse the change, or make it later: ManagerChanges.
HandleSet(taken) ==
    /\ Handles("Set")
    /\ LET c == Head(cl.calls)
       IN  IF taken /\ mgr.flags[c.flag] # c.value THEN SetFlag(c.flag, c.value)
           ELSE UNCHANGED <<mgr, svc, pend, bus>>
    /\ UNCHANGED nm

HandleSetRoaming ==
    /\ Handles("SetRoaming")
    /\ LET c == Head(cl.calls)
           is == {i \in DOMAIN svc.sims : svc.sims[i] = c.path}
       IN  IF \E i \in is : mgr.bits[i]["DataRoamingEnabled"] # c.value
           THEN SetBit(CHOOSE i \in is : TRUE, "DataRoamingEnabled", c.value)
           ELSE UNCHANGED <<mgr, svc, pend, bus>>
    /\ UNCHANGED nm

\* AddVpnConnection(): NetworkManager makes the connection, or refuses.
HandleAddVpn(v) ==
    /\ Handles("AddVpnConnection")
    /\ nm[v] = "unused" /\ nm' = [nm EXCEPT ![v] = "present"]
    /\ svc' = [svc EXCEPT !.addQueue = @ \cup {[id |-> Head(cl.calls).id, vpn |-> v]}]
    /\ UNCHANGED <<mgr, pend, bus>>
HandleAddVpnRefused ==
    /\ Handles("AddVpnConnection")
    /\ bus' = Append(bus, Reply(Head(cl.calls).id, NoPath))
    /\ UNCHANGED <<mgr, nm, svc, pend>>

HandleRemoveVpn ==
    /\ Handles("RemoveVpnConnection")
    /\ LET vs == {v \in DOMAIN svc.vpns : svc.vpns[v] = Head(cl.calls).path}
       IN  nm' = [v \in Vpns |-> IF v \in vs THEN "gone" ELSE nm[v]]
    /\ UNCHANGED <<mgr, svc, pend, bus>>

-----------------------------------------------------------------------------
(* The service dies: the bus fails the calls it had not answered.          *)
Unanswered == {c.id : c \in {cl.calls[n] : n \in {k \in DOMAIN cl.calls :
                                  cl.calls[k].method = "AddVpnConnection"}}}
                  \cup {q.id : q \in svc.addQueue}
Gone == [sims |-> Empty, modems |-> Empty, vpns |-> Empty, addQueue |-> {},
         nextModem |-> 1, nextVpn |-> 1]
Crash ==
    /\ Happens
    /\ up' = FALSE
    /\ bus' = bus \o SetToSeq({Reply(id, NoPath) : id \in Unanswered})
                  \o <<[type |-> "lost"]>>
    /\ pend' = Empty /\ svc' = Gone
    /\ mgr' = [mgr EXCEPT !.flags["unstoppable"] = FALSE, !.modems = Empty]
    /\ cl' = [cl EXCEPT !.calls = <<>>]
    /\ UNCHANGED <<nm, answered, hist>>

(* It starts again: the SIMs and the choice are in its settings, the VPN   *)
(* connections in NetworkManager; both are numbered in no fixed order.     *)
Numberings(S) == {f \in [S -> 1..Cardinality(S)] : \A a, b \in S : f[a] = f[b] => a = b}
Owner(o) == [type |-> "owner", object |-> o]
Start ==
    /\ ~up /\ up' = TRUE
    /\ \E f \in Numberings(mgr.sims), g \in Numberings({v \in Vpns : nm[v] = "present"}) :
          svc' = [Gone EXCEPT !.sims = f, !.vpns = g, !.nextVpn = Cardinality(DOMAIN g) + 1]
    /\ bus' = bus \o <<Owner(Private), Owner(Status), Owner(Listed)>>
    /\ UNCHANGED <<mgr, nm, pend, cl, answered, hist, steps>>

(* The client is there before the service, or finds it running.            *)
Client0 == [cache |-> [o \in {Private, Status} |-> Empty], sims |-> {}, modems |-> Empty,
            vpns |-> {}, choice |-> NoPath, mine |-> FALSE, calls |-> <<>>]
Init ==
    /\ \E c \in Known \cup {NoSim} :
          mgr = [flags |-> [f \in Flags |-> FALSE], sims |-> Known, choice |-> c,
                 modems |-> Empty, bits |-> [i \in Iccids |-> [p \in SimProperties |-> FALSE]]]
    /\ nm = [v \in Vpns |-> "unused"]
    /\ up = FALSE /\ svc = Gone /\ pend = Empty /\ bus = <<>>
    /\ cl = Client0
    /\ answered = [id \in 1..MaxSteps |-> 0]
    /\ hist = {} /\ steps = 0

Manages ==
    \/ \E f \in Varied : ManagerChanges(f)
    \/ \E i \in Iccids, p \in SimVaried : SimChanges(i, p)
    \/ \E i \in Iccids, b \in BOOLEAN : SimAdded(i, b)
    \/ \E i \in mgr.sims \cup {NoSim} : ManagerChooses(i)
    \/ \E x \in Serials, i \in mgr.sims \cup {NoSim} : ModemReady(x, i) \/ ModemSimUpdated(x, i)
    \/ \E x \in Serials : ModemRemoved(x)
    \/ \E v \in Vpns : ConnectionCreated(v) \/ ConnectionDeleted(v)
Serves ==
    \/ \E v \in Vpns : NewConnection(v) \/ ConnectionRemoved(v) \/ HandleAddVpn(v)
    \/ FlushPropertyChanges
    \/ HandleSetSim \/ HandleSetRoaming \/ HandleAddVpnRefused \/ HandleRemoveVpn
    \/ \E b \in BOOLEAN : HandleSet(b)
Follows == \/ ClientPropertiesChanged \/ ServiceLost \/ ServiceOwnerChanged
           \/ AddConnectionFinished
Uses ==
    \/ \E p \in cl.sims \cup {NoPath} : UserSetsSim(p)
    \/ \E f \in Varied \ {"unstoppable", "status", "characteristics"}, v \in BOOLEAN :
          UserSetsFlag(f, v)
    \/ \E p \in cl.sims, v \in BOOLEAN : UserSetsRoaming(p, v)
    \/ UserAddsVpn
    \/ \E p \in cl.vpns : UserRemovesVpn(p)

Next == Manages \/ Serves \/ Follows \/ Uses \/ Crash \/ Start

(* Both event loops keep running, and a service that died is started again *)
(* by the session.                                                         *)
Fairness == WF_vars(Serves) /\ WF_bus(Receives) /\ WF_vars(Start)

Spec == Init /\ [][Next]_vars /\ Fairness

-----------------------------------------------------------------------------
AtRest == /\ up /\ pend = Empty /\ bus = <<>> /\ cl.calls = <<>>
          /\ \A v \in Vpns : (nm[v] = "present") <=> (v \in DOMAIN svc.vpns)

(* When nothing is on its way the client shows what the service has: every *)
(* cached property, the three lists, each modem's SIM and the chosen SIM.  *)
(* Changes, a reading that overtakes older signals, calls that cross       *)
(* signals and restarts of the service all end in this state.  (The chosen *)
(* SIM is left out when the manager undid the user's choice before it was  *)
(* announced: the cache sees no change and the client keeps its own.)      *)
Mirrored ==
    /\ \A o \in DOMAIN cl.cache : cl.cache[o] = GetAll(mgr, svc, o)
    /\ cl.sims = Paths(svc.sims) /\ cl.vpns = Paths(svc.vpns)
    /\ "contested" \notin hist =>
           cl.choice = (IF mgr.choice = NoSim THEN NoPath ELSE svc.sims[mgr.choice])
    /\ cl.modems = [p \in {svc.modems[x].path : x \in DOMAIN svc.modems} |->
                      LET x == CHOOSE y \in DOMAIN svc.modems : svc.modems[y].path = p
                      IN  IF mgr.modems[x] = NoSim THEN NoPath ELSE svc.sims[mgr.modems[x]]]
AtRestMirrored == AtRest => Mirrored

(* The client never answers an announcement by setting the chosen SIM, as  *)
(* it would if it knew of a choice before it knew of that SIM: the list of *)
(* SIMs is sent before a choice that needs it.  (A list that is older than *)
(* what the client has read from a service that just started does lead to  *)
(* such a call, which then clears the user's choice.)                      *)
NoEcho == "overtaken" \notin hist =>
    \A n \in DOMAIN cl.calls :
        cl.calls[n].method = "setSimForMobileData" => cl.calls[n].by = "user"

(* When the client learns the path of the connection it asked for, the     *)
(* connection is in its list, so addFinished is emitted: the service sends *)
(* the list before the reply.                                              *)
AddedIsListed ==
    (bus # <<>> /\ Head(bus).type = "reply") => Head(bus).path \in cl.vpns \cup {NoPath}

\* Where the request id to add a connection is: not yet handled, waiting for
\* its connection, answered on the bus, answered.
Places(id) ==
    Cardinality({n \in DOMAIN cl.calls : cl.calls[n].method = "AddVpnConnection"
                                            /\ cl.calls[n].id = id})
    + Cardinality({q \in svc.addQueue : q.id = id})
    + Cardinality({n \in DOMAIN bus : bus[n].type = "reply" /\ bus[n].id = id})
    + answered[id]

(* A request that waits for a connection somebody else deletes before the  *)
(* service has seen it waits for good; every other request is answered.    *)
AddAnswered ==
    \A id \in 1..MaxSteps :
        (Places(id) = 1) ~>
            \/ answered[id] = 1
            \/ \E q \in svc.addQueue : q.id = id /\ nm[q.vpn] = "gone"

(* When the changes end, the copies agree for good.                        *)
Converges == <>[](AtRest /\ Mirrored)
=============================================================================
