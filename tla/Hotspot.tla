------------------------------ MODULE Hotspot ------------------------------
(***************************************************************************)
(* The hotspot, the WiFi switch and flight mode: HotspotManager,           *)
(* KillSwitch, and the part of ManagerImpl that ties the three together,   *)
(* with NetworkManager and urfkill behind them.                            *)
(*                                                                         *)
(* Every request blocks the service until it is carried out, so a request  *)
(* is one step; what it decides on, however, are copies (the list of       *)
(* active connections, the state of the kill switch) that signals on the   *)
(* system bus bring up to date later.  reactivateConnection() is posted to *)
(* the event loop, too, and may run when what called for it is gone.       *)
(***************************************************************************)
EXTENDS Integers, Sequences, FiniteSets

CONSTANTS
    Devices,      \* WiFi devices of NetworkManager, by interface name
    Tether,       \* the interface named by wifi.tethering.interface
    Ssids,        \* names a user may give the hotspot, besides the empty one
    Passwords,    \* passwords a user may give it
    MaxEdits,     \* bound: changes of the hotspot's settings
    MaxRequests,  \* bound: uses of the three switches
    MaxEvents     \* bound: changes made by others, and restarts

ASSUME TetherAssumption == Tether \in Devices
ASSUME BoundsAssumption == {MaxEdits, MaxRequests, MaxEvents} \subseteq Nat

VARIABLES
    hs,           \* the service: HotspotManager, KillSwitch, ManagerImpl
    nm,           \* NetworkManager and urfkill
    sig,          \* events posted to the service's thread: signals and queued slots
    wish,         \* history: for each switch, the value its last request must bring, if any
    steps         \* counters for the bounds

vars == <<hs, nm, sig, wish, steps>>

Empty == [x \in {} |-> x]
None == "none"
Gone == [uuid |-> 0]      \* in the place of a connection that was deleted
NoDevice == "no device"
KillStates == {"not_available", "unblocked", "soft_blocked", "hard_blocked"}
Settings == [ssid : Ssids \cup {"", "Ubuntu"}, password : Passwords \cup {"generated"},
             mode : {"ap", "adhoc"}, auth : {"wpa-psk", None}]

World == [hs |-> hs, nm |-> nm, sig |-> sig]
Sent(w, s) == [w EXCEPT !.sig = Append(@, s)]

-----------------------------------------------------------------------------
(* NetworkManager and urfkill                                              *)

List(w) == Sent(w, [t |-> "list", act |-> w.nm.act, other |-> w.nm.other])

\* A path for an active connection: not one that anybody still knows.
Used(w) == {w.nm.act, w.hs.listed.act}
           \cup {w.sig[i].act : i \in {j \in DOMAIN w.sig : w.sig[j].t = "list"}}
Fresh(w) == CHOOSE n \in 1 .. Cardinality(Used(w)) + 1 :
                n \notin Used(w) /\ \A k \in 1 .. n - 1 : k \in Used(w)

Activated(w, c) == List([w EXCEPT !.nm.act = Fresh(w), !.nm.conn = c])
Deactivated(w) == IF w.nm.act = 0 THEN w ELSE List([w EXCEPT !.nm.act = 0, !.nm.conn = 0])

Stored(n) == {c \in DOMAIN n.conns : n.conns[c] # Gone}

\* Block() of urfkill: the soft state only.
Blocked(w, block) ==
    IF w.nm.kill = "hard_blocked" THEN w
    ELSE Sent([w EXCEPT !.nm.kill = IF block THEN "soft_blocked" ELSE "unblocked"], [t |-> "state"])

\* FlightMode() of urfkill: blocks, or unblocks, every radio.
Flown(w, on) ==
    LET kill == IF w.nm.kill \in {"not_available", "hard_blocked"} THEN w.nm.kill
                ELSE IF on THEN "soft_blocked" ELSE "unblocked"
        f == Sent([w EXCEPT !.nm.flight = on, !.nm.kill = kill], [t |-> "flight", on |-> on])
    IN  IF w.nm.flight = on THEN w ELSE IF kill = w.nm.kill THEN f ELSE Sent(f, [t |-> "state"])

-----------------------------------------------------------------------------
(* HotspotManager                                                          *)

createConnectionSettings(s, uuid) ==
    [ssid |-> s.ssid, mode |-> s.mode, uuid |-> uuid,
     security |-> IF s.auth = None THEN Empty ELSE [keyMgmt |-> s.auth, psk |-> s.password]]

\* Mutant: the password is not read back.
SettingsFromDbus_NoPsk(s, conn, secrets) ==
    [s EXCEPT !.ssid = conn.ssid, !.mode = conn.mode,
              !.auth = IF secrets /\ conn.security # Empty THEN @ ELSE None]

\* What updateSettingsFromDbus() makes of a stored connection; secrets: GetSecrets() works.
SettingsFromDbus(s, conn, secrets) ==
    LET t == [s EXCEPT !.ssid = IF conn.ssid = "" THEN @ ELSE conn.ssid, !.mode = conn.mode]
    IN  IF secrets /\ conn.security # Empty THEN [t EXCEPT !.password = conn.security.psk]
        ELSE [t EXCEPT !.auth = None]

\* The connections getHotspot() may find first.
Hotspots(n, mode) == {c \in Stored(n) : n.conns[c].mode = mode}

getActiveConnection(h) == IF h.hotspot # 0 /\ h.listed.conn = h.hotspot THEN h.listed.act ELSE 0

setDisconnectWifi(w, disconnect) ==
    [w EXCEPT !.hs.disconnectWifi = disconnect,
              !.hs.links = [d \in DOMAIN @ |-> IF w.hs.disconnectWifi = disconnect THEN @[d]
                                               ELSE disconnect]]

setEnable(w, value) == [w EXCEPT !.hs.enabled = value, !.hs.wakelock = value]

\* outcome: what NetworkManager makes of ActivateConnection() within two seconds.
Outcomes == {"activated", "late", "failed", "refused"}
activateConnection(w, outcome) ==
    LET a == Activated(w, w.hs.hotspot)
    IN  CASE outcome = "refused" -> w
          [] outcome = "failed" -> Deactivated(a)
          [] OTHER -> a

Possible(w, outcome) == w.hs.hotspot \in Stored(w.nm) \/ outcome = "refused"

\* Mutant: nothing listens for the connection being booted.
enable_NoHook(w, outcome) ==
    IF w.hs.hotspot = 0 THEN w
    ELSE setEnable(activateConnection(w, outcome), outcome = "activated")

enable(w, outcome) ==
    LET success == outcome = "activated"
        a == setEnable(activateConnection(w, outcome), success)
    IN  IF w.hs.hotspot = 0 THEN w
        ELSE IF success THEN [a EXCEPT !.hs.hook = @ + 1] ELSE a

\* Mutant: the hook outlives the hotspot.
disable_KeepsHook(w) ==
    setEnable(IF getActiveConnection(w.hs) # 0 THEN Deactivated(w) ELSE w, FALSE)

disable(w) ==
    LET a == [w EXCEPT !.hs.hook = 0]
        b == IF getActiveConnection(a.hs) # 0 /\ getActiveConnection(a.hs) = a.nm.act
             THEN Deactivated(a) ELSE a
    IN  setEnable(b, FALSE)

addConnection(w, ok) ==
    LET uuid == IF w.hs.uuid = 0 THEN Len(w.nm.conns) + 1 ELSE w.hs.uuid
        conn == createConnectionSettings(w.hs.set, uuid)
    IN  IF ok THEN [w EXCEPT !.hs.uuid = uuid, !.hs.stored = TRUE,
                             !.hs.hotspot = Len(w.nm.conns) + 1, !.nm.conns = Append(@, conn)]
        ELSE [w EXCEPT !.hs.uuid = uuid, !.hs.stored = FALSE, !.hs.hotspot = 0]

\* Update() of a connection that is gone, or that NetworkManager refuses, is only logged.
updateConnection(w, ok) ==
    LET c == w.hs.hotspot
    IN  IF ok /\ c \in Stored(w.nm) /\ w.nm.conns[c].uuid = w.hs.uuid
        THEN [w EXCEPT !.nm.conns[c] = createConnectionSettings(w.hs.set, w.hs.uuid)] ELSE w

\* found: NetworkManager has a usable device under the name of the tethering interface.
findApDevice(w, found) == [w EXCEPT !.hs.device = IF found THEN Tether ELSE NoDevice]

\* Loads the firmware and looks for the device for up to two seconds.
createApDevice(w, found) == findApDevice(w, found)

\* found: createApDevice() got a device; ok: the connection could be written.
Enabled(w, found, ok, outcome) ==
    LET a == setDisconnectWifi(w, TRUE)
        b == createApDevice(a, found)
        c == IF w.hs.stored THEN updateConnection(b, ok) ELSE addConnection(b, ok)
    IN  IF w.hs.set.ssid = "" THEN setEnable(w, FALSE)
        ELSE IF ~found THEN setDisconnectWifi(b, FALSE)
        ELSE enable(c, outcome)

\* setSsid(), setPassword(), setMode(), setAuth(): nothing is written before the next enabling.
setSetting(h, field, value) == [h EXCEPT !.set[field] = value]

setEnabled(w, value, found, ok, outcome) ==
    IF w.hs.enabled = value THEN w
    ELSE IF value THEN Enabled(w, found, ok, outcome)
    ELSE setDisconnectWifi(disable(w), FALSE)

-----------------------------------------------------------------------------
(* KillSwitch and ManagerImpl                                              *)

updateHasWifi(h, n) ==
    LET has == DOMAIN h.links # {}
    IN  IF h.kill # "not_available"
        THEN [h EXCEPT !.hasWifi = TRUE, !.wifiEnabled = h.kill = "unblocked"]
        ELSE [h EXCEPT !.hasWifi = has, !.wifiEnabled = has /\ n.wireless]

setBlock(w, block, ok) ==
    IF ok /\ w.hs.kill = (IF block THEN "unblocked" ELSE "soft_blocked") THEN Blocked(w, block) ELSE w

setWirelessEnabled(w, on) == [w EXCEPT !.nm.wireless = on]

setWifiEnabled(w, enabled, ok) ==
    LET a == IF ~enabled THEN setEnabled(w, FALSE, TRUE, TRUE, "refused") ELSE w
    IN  IF ~w.hs.hasWifi /\ ~enabled THEN w
        ELSE IF w.hs.wifiEnabled = enabled THEN setWirelessEnabled(w, enabled)
        ELSE setWirelessEnabled(setBlock(a, ~enabled, ok), enabled)

setHotspotEnabled(w, enabled, found, ok, outcome) ==
    LET a == IF enabled /\ ~w.hs.wifiEnabled
             THEN setWirelessEnabled(setBlock(w, FALSE, ok), TRUE) ELSE w
    IN  IF w.hs.enabled = enabled \/ (enabled /\ w.hs.flightMode) THEN w
        ELSE setEnabled(a, enabled, found, ok, outcome)

\* KillSwitch::flightMode(): urfkill may refuse.
flightMode(w, on, ok) == IF ok THEN Flown(w, on) ELSE w

setFlightMode(w, enabled, ok) ==
    LET a == IF enabled THEN setEnabled(w, FALSE, TRUE, TRUE, "refused") ELSE w
    IN  IF w.hs.flightMode = enabled THEN w ELSE flightMode(a, enabled, ok)

\* HotspotManager::interface()
Interface(h) == IF h.enabled THEN h.device ELSE NoDevice

device_added(h, n, d) ==
    IF d \in DOMAIN h.links THEN h
    ELSE updateHasWifi(IF d \in n.devs /\ d # Interface(h)
                       THEN [h EXCEPT !.links = [e \in DOMAIN @ \cup {d} |->
                                                     IF e = d THEN h.disconnectWifi ELSE @[e]]]
                       ELSE h, n)

device_removed(h, n, d) ==
    IF d \notin DOMAIN h.links THEN h
    ELSE updateHasWifi([h EXCEPT !.links = [e \in DOMAIN @ \ {d} |-> @[e]]], n)

-----------------------------------------------------------------------------
(* Requests of clients                                                     *)

Settled == sig = <<>>
Limit == [edits |-> MaxEdits, requests |-> MaxRequests, events |-> MaxEvents]
Step(kind) == steps[kind] < Limit[kind] /\ steps' = [steps EXCEPT ![kind] = @ + 1]

\* A request; the failure of something it depends on is an event, too.
Request(failure) ==
    /\ steps.requests < MaxRequests
    /\ failure => steps.events < MaxEvents
    /\ steps' = [steps EXCEPT !.requests = @ + 1, !.events = @ + IF failure THEN 1 ELSE 0]
Becomes(w) == hs' = w.hs /\ nm' = w.nm /\ sig' = w.sig
Expect(sure, value) == IF sure THEN {value} ELSE {}

SetSetting(field, value) ==
    /\ Step("edits")
    /\ hs.set[field] # value
    /\ hs' = setSetting(hs, field, value)
    /\ UNCHANGED <<nm, sig, wish>>

\* A hotspot that a request switches off on its way is a request to switch it off.
HotspotOff(off) == IF off /\ hs.enabled THEN Expect(Settled, FALSE) ELSE wish.hotspot

SetWifiEnabled(enabled) ==
    \E ok \in BOOLEAN :
        /\ Request(~ok)
        /\ Becomes(setWifiEnabled(World, enabled, ok))
        /\ wish' = [wish EXCEPT
                !.wifi = Expect(Settled /\ ok /\ nm.kill # "hard_blocked" /\ hs.hasWifi, enabled),
                !.hotspot = HotspotOff(~enabled /\ hs.hasWifi /\ hs.wifiEnabled)]

SetHotspotEnabled(enabled) ==
    \E found, ok \in BOOLEAN, outcome \in Outcomes :
        LET w == setHotspotEnabled(World, enabled, found, ok, outcome)
            unblocks == enabled /\ ~hs.wifiEnabled
        IN  /\ Request(~found \/ ~ok \/ outcome # "activated")
            /\ w # World
            /\ Possible(w, outcome)
            /\ Becomes(w)
            /\ wish' = [wish EXCEPT
                    !.hotspot = Expect(Settled /\ w.hs.enabled = enabled, enabled),
                    !.wifi = IF unblocks THEN Expect(Settled /\ ok /\ nm.kill # "hard_blocked", TRUE)
                             ELSE @]
    
SetFlightMode(enabled) ==
    \E ok \in BOOLEAN :
        /\ Request(~ok)
        /\ hs.flightMode # enabled
        /\ Becomes(setFlightMode(World, enabled, ok))
        /\ wish' = [wifi |-> {}, flight |-> Expect(Settled /\ ok, enabled),
                    hotspot |-> HotspotOff(enabled)]

-----------------------------------------------------------------------------
(* The event loop                                                          *)

\* ActiveConnectionManager: an object is read when its path is new, and may be gone.
ListUpdated(h, n, s) ==
    [h EXCEPT !.listed = [act |-> s.act, other |-> s.other,
                          conn |-> IF s.act = @.act THEN @.conn
                                   ELSE IF s.act = n.act THEN n.conn ELSE 0]]

Calls(t) == sig # <<>> /\ Head(sig).t = t

HandleList ==
    /\ Calls("list")
    /\ LET s == Head(sig)
           changed == s.act # hs.listed.act \/ s.other # hs.listed.other
       IN  /\ hs' = ListUpdated(hs, nm, s)
           /\ sig' = Tail(sig) \o
                  [i \in 1 .. (IF changed THEN hs.hook ELSE 0) |-> [t |-> "reactivate"]]
    /\ UNCHANGED <<nm, wish, steps>>

HandleSignal ==
    /\ sig # <<>> /\ Head(sig).t \notin {"list", "reactivate"}
    /\ LET s == Head(sig)
       IN  hs' = CASE s.t = "flight" -> [hs EXCEPT !.flightMode = s.on]
                   [] s.t = "state" -> updateHasWifi([hs EXCEPT !.kill = nm.kill], nm)
                   [] s.t = "added" -> device_added(hs, nm, s.dev)
                   [] s.t = "removed" -> device_removed(hs, nm, s.dev)
    /\ sig' = Tail(sig)
    /\ UNCHANGED <<nm, wish, steps>>

\* The slot looks again before it acts: findApDevice() may find nothing.
reactivateConnection ==
    /\ Calls("reactivate")
    /\ IF hs.hotspot = 0 \/ getActiveConnection(hs) # 0
       THEN sig' = Tail(sig) /\ UNCHANGED <<hs, nm, wish, steps>>
       ELSE \E found \in BOOLEAN, outcome \in Outcomes :
                LET w == findApDevice([World EXCEPT !.sig = Tail(@)], found)
                    again == found /\ outcome \in {"activated", "late"}
                    forced == Tether \notin nm.devs \/ hs.hotspot \notin Stored(nm)
                IN  /\ found => Tether \in nm.devs
                    /\ Possible(World, outcome)
                    /\ ~found => outcome = "refused"
                    /\ IF again \/ forced THEN UNCHANGED steps ELSE Step("events")
                    /\ Becomes(activateConnection(w, outcome))
                    /\ wish' = [wish EXCEPT !.hotspot = IF again THEN @ ELSE {}]

-----------------------------------------------------------------------------
(* What others do                                                          *)

\* NetworkManager drops the hotspot, or another network comes or goes.
Booted ==
    /\ Step("events")
    /\ nm.act # 0
    /\ Becomes(Deactivated(World))
    /\ UNCHANGED wish

OtherNetwork ==
    /\ Step("events")
    /\ Becomes(List([World EXCEPT !.nm.other = ~@]))
    /\ UNCHANGED wish

UrfkillChanges(kill) ==
    /\ Step("events")
    /\ nm.kill # "not_available" /\ kill \notin {"not_available", nm.kill}
    /\ Becomes(Sent([World EXCEPT !.nm.kill = kill], [t |-> "state"]))
    /\ wish' = [wish EXCEPT !.wifi = {}]

DeviceAdded(d) ==
    /\ Step("events")
    /\ d \notin nm.devs
    /\ Becomes(Sent([World EXCEPT !.nm.devs = @ \cup {d}], [t |-> "added", dev |-> d]))
    /\ UNCHANGED wish

DeviceRemoved(d) ==
    /\ Step("events")
    /\ d \in nm.devs
    /\ LET w == Sent([World EXCEPT !.nm.devs = @ \ {d}], [t |-> "removed", dev |-> d])
       IN  Becomes(IF d = Tether THEN Deactivated(w) ELSE w)
    /\ UNCHANGED wish

DeletedByOther(c) ==
    /\ Step("events")
    /\ c \in Stored(nm)
    /\ LET w == [World EXCEPT !.nm.conns[c] = Gone]
       IN  Becomes(IF nm.conn = c THEN Deactivated(w) ELSE w)
    /\ wish' = [wish EXCEPT !.hotspot = @ \ {TRUE}]

-----------------------------------------------------------------------------
(* Starting                                                                *)

DefaultSettings == [ssid |-> "Ubuntu", password |-> "generated", mode |-> "ap", auth |-> "wpa-psk"]

\* The constructors, on the state of NetworkManager and urfkill; c is what getHotspot() found.
Constructed(n, c, secrets) ==
    LET listed == [act |-> n.act, conn |-> n.conn, other |-> n.other]
        active == c # 0 /\ n.conn = c
        h == [enabled |-> active, wakelock |-> active, disconnectWifi |-> active,
              stored |-> c # 0, hotspot |-> c, uuid |-> IF c = 0 THEN 0 ELSE n.conns[c].uuid,
              device |-> NoDevice, hook |-> 0, listed |-> listed,
              set |-> IF c = 0 THEN DefaultSettings
                      ELSE SettingsFromDbus(DefaultSettings, n.conns[c], secrets),
              kill |-> n.kill, flightMode |-> n.flight, hasWifi |-> FALSE, wifiEnabled |-> FALSE,
              links |-> [d \in n.devs |-> active]]
    IN  updateHasWifi(h, n)

Found(n) == IF Hotspots(n, "ap") = {} THEN {0} ELSE Hotspots(n, "ap")

\* The service ends at any moment and is started again; there is no hook to reactivate then.
Restart ==
    /\ Step("events")
    /\ sig' = <<>>
    /\ \E c \in Found(nm), secrets \in BOOLEAN : hs' = Constructed(nm, c, secrets)
    /\ UNCHANGED nm
    /\ wish' = [wish EXCEPT !.hotspot = IF nm.act = 0 THEN @ \ {TRUE} ELSE {}]

Init ==
    /\ \E kill \in {"not_available", "unblocked"}, devs \in {{}, Devices} :
           nm = [conns |-> <<>>, act |-> 0, conn |-> 0, other |-> FALSE,
                 wireless |-> TRUE, kill |-> kill, flight |-> FALSE,
                 devs |-> devs]
    /\ hs = Constructed(nm, 0, TRUE)
    /\ sig = <<>>
    /\ wish = [wifi |-> {}, flight |-> {}, hotspot |-> {}]
    /\ steps = [edits |-> 0, requests |-> 0, events |-> 0]

Clients ==
    \/ \E v \in Ssids \cup {""} : SetSetting("ssid", v)
    \/ \E v \in Passwords : SetSetting("password", v)
    \/ \E v \in {"ap", "adhoc"} : SetSetting("mode", v)
    \/ \E v \in {"wpa-psk", None} : SetSetting("auth", v)
    \/ \E b \in BOOLEAN : SetWifiEnabled(b) \/ SetHotspotEnabled(b) \/ SetFlightMode(b)

Others ==
    \/ Booted \/ OtherNetwork \/ Restart
    \/ \E k \in KillStates : UrfkillChanges(k)
    \/ \E d \in Devices : DeviceAdded(d) \/ DeviceRemoved(d)
    \/ \E c \in DOMAIN nm.conns : DeletedByOther(c)

EventLoop == HandleList \/ HandleSignal \/ reactivateConnection

Next == Clients \/ Others \/ EventLoop

\* The event loop takes what is posted to it.
Fairness == WF_vars(EventLoop)

Spec == Init /\ [][Next]_vars /\ Fairness

-----------------------------------------------------------------------------

(* A request for the WiFi switch, flight mode or the hotspot that was made *)
(* on current information and that nobody refused holds when everything    *)
(* has come to rest: the switches show it, NetworkManager and urfkill      *)
(* follow it, the hotspot is on the air exactly if it is wished, booted or *)
(* not, and the WiFi links have their access points back when it is off.   *)
RequestsHold ==
    Settled =>
        /\ \A on \in wish.wifi :
               nm.wireless = on /\ (nm.kill # "not_available" => hs.wifiEnabled = on)
        /\ \A on \in wish.flight : hs.flightMode = on /\ nm.flight = on
        /\ \A on \in wish.hotspot :
               /\ hs.enabled = on /\ hs.disconnectWifi = on /\ (nm.act # 0) = on
               /\ \A d \in DOMAIN hs.links : hs.links[d] = on

(* A hotspot in mode "ap" that the manager has stored is the one that      *)
(* getHotspot() finds after a restart, whatever else was stored before,    *)
(* and what is read back from it would be written again unchanged.         *)
KnownAfterRestart ==
    LET c == hs.hotspot
    IN  c \in Hotspots(nm, "ap") =>
            /\ Found(nm) = {c}
            /\ LET s == SettingsFromDbus(DefaultSettings, nm.conns[c], TRUE)
               IN  createConnectionSettings(s, hs.uuid) = nm.conns[c]

(* "If our connection gets booted, reconnect": a hotspot that was enabled  *)
(* and that NetworkManager drops is activated again, unless the attempt    *)
(* fails or somebody switches it off.                                      *)
Reactivated == (TRUE \in wish.hotspot /\ nm.act = 0) ~> (nm.act # 0 \/ TRUE \notin wish.hotspot)
=============================================================================
