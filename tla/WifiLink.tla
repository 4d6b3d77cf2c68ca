------------------------------ MODULE WifiLink ------------------------------
(***************************************************************************)
(* A WiFi link and its part of the menu: WifiLinkImpl with its access      *)
(* points (AccessPointImpl) merged into networks (GroupedAccessPoint), and *)
(* the items that WifiLinkItem shows for them, together with the sections  *)
(* of the menu that change at the same signals (MenuSections).             *)
(*                                                                         *)
(* Access points come, go and change strength while NetworkManager         *)
(* connects and disconnects.  The service is told of all of it by signals  *)
(* and reads the rest (the active connection, the access point's           *)
(* properties) when a signal is handled, at which time it may be outdated. *)
(*                                                                         *)
(* A GroupedAccessPoint is named after the access point it was made for:   *)
(* an object path is never used twice, so that this tells objects apart.   *)
(***************************************************************************)
EXTENDS MenuSections

CONSTANTS
    Aps,           \* object paths of access points, numbers above 0
    KeyOf,         \* the network (SSID, security, mode) of each access point
    SecuredKeys,   \* networks with security
    EnterpriseKeys,\* networks with 802.1X
    Strengths,     \* signal strengths an access point may have
    HasWifi,       \* the manager knew of WiFi when the menu was built
    Modems,        \* modems, numbered by their index
    Vpns,          \* VPN connections, numbered by their names
    MaxEvents,     \* bound: changes of access points, strengths, kill switch and links
    MaxConnects    \* bound: activations, by the user or by others, and disconnects

ASSUME ApsAssumption == Aps \subseteq Nat \ {0}
ASSUME KeysAssumption == \A a \in Aps : KeyOf[a] \in Nat \ {0}
ASSUME StrengthsAssumption == Strengths \subseteq 0 .. 100
ASSUME MenuAssumption == HasWifi \in BOOLEAN /\ Modems \subseteq Nat /\ Vpns \subseteq Nat

VARIABLES
    nm,            \* NetworkManager: access points, device, active connection; urfkill
    sig,           \* signals under way to the service
    link,          \* WifiLinkImpl::Private
    item,          \* WifiLinkItem::Private
    menus,         \* the sections of the menu and what is exported
    found,         \* history: the access point of the active connection was known
    events, connects

vars == <<nm, sig, link, item, menus, found, events, connects>>

NoAp == 0
NoKey == 0         \* the key of an access point whose properties cannot be read
NoAct == 0         \* the path "/"
BadAct == -1       \* the path "" of a failed call
Empty == [x \in {} |-> x]
With(f, x, v) == [y \in DOMAIN f \cup {x} |-> IF y = x THEN v ELSE f[y]]
Without(f, x) == [y \in DOMAIN f \ {x} |-> f[y]]

DownStates == {"unavailable", "disconnected", "deactivating", "failed"}
BusyStates == {"prepare"}
UpStates == {"secondaries", "activated"}
Disconnected == [level |-> -1, secure |-> FALSE]

-----------------------------------------------------------------------------
(* GroupedAccessPoint: g = [key, aps, strength]                            *)

StrongestOf(raw, aps) == Max({0} \cup {raw[a].strength : a \in aps})

secured(g) == g.aps # {} /\ g.key \in SecuredKeys

add_ap(g, raw, a) ==
    [g EXCEPT !.aps = @ \cup {a}, !.strength = Max({@, raw[a].strength})]

\* Mutant: the strength of the removed access point stays.
remove_ap_Strong(g, raw, a) == [g EXCEPT !.aps = @ \ {a}]

\* Strength 0, then every remaining access point is added anew.
remove_ap(g, raw, a) ==
    [g EXCEPT !.aps = @ \ {a}, !.strength = StrongestOf(raw, g.aps \ {a})]

update_strength(g, raw) == [g EXCEPT !.strength = StrongestOf(raw, g.aps)]

\* The first of the list; the order in a network does not matter, any will do.
object_path(g) == IF g.aps = {} THEN NoAp ELSE Min(g.aps)

-----------------------------------------------------------------------------
(* WifiLinkItem                                                            *)

\* A change of one of the menus, with the mergers that follow it.
Edited(it, menu, at, removed, added) ==
    [it EXCEPT ![menu] = Splice(@, at, removed, added),
               !.tree = InnerChanged(@, menu, at, removed, added)]

\* Menu::insert() with m_accessPointCompare: before the first item that sorts after it.
Insert(it, menu, g, key) ==
    LET after == {i \in DOMAIN it[menu] : key[g] < key[it[menu][i]]}
    IN  Edited(it, menu, IF after = {} THEN Len(it[menu]) ELSE Min(after) - 1, 0, <<g>>)

\* From the end, so that positions stay right.
RemoveAll(it, menu, g) ==
    FoldLeft(LAMBDA i, at : Edited(i, menu, at - 1, 1, <<>>), it,
             SetToSortSeq({i \in DOMAIN it[menu] : it[menu][i] = g}, >))

updateActiveAccessPoint(it, g, key) ==
    LET back == IF it.connected = <<>> THEN it
                ELSE Edited(Insert(it, "never", Head(it.connected), key), "connected", 0, Len(it.connected), <<>>)
    IN  IF g \in it.aps
        THEN RemoveAll(Edited([back EXCEPT !.active = g, !.on = {g}], "connected", 0, 0, <<g>>), "never", g)
        ELSE [back EXCEPT !.active = g, !.on = {}]

Dropped(it, g) == [it EXCEPT !.aps = @ \ {g}, !.on = @ \ {g}]

\* Mutant: the item is taken from the lower menu only.
RemovedItem_Lower(it, g) == RemoveAll(Dropped(it, g), "never", g)

RemovedItem(it, g) == RemoveAll(Dropped(it, g), IF g = it.active THEN "connected" ELSE "never", g)

AddedItem(it, g, key) ==
    LET new == [it EXCEPT !.aps = @ \cup {g}, !.on = IF g = it.active THEN @ \cup {g} ELSE @]
    IN  IF key[g] = NoKey THEN it
        ELSE IF g = it.active THEN updateActiveAccessPoint(new, g, key)
        ELSE Insert(new, "never", g, key)

RemoveItems(it, gone) == FoldSet(LAMBDA g, i : RemovedItem(i, g), it, gone)
AddItems(it, new, key) == FoldSet(LAMBDA g, i : AddedItem(i, g, key), it, new)

updateAccessPoints(it, shown, key) == AddItems(RemoveItems(it, it.aps \ shown), shown \ it.aps, key)

\* The mergers do not hear of the items that are made before them.
NoItems == [aps |-> {}, connected |-> <<>>, never |-> <<>>, on |-> {}, active |-> NoAp,
            tree |-> NewNested("aps")]

Merged(it) ==
    LET top == [it.tree EXCEPT !.outer = append(@, "top", <<>>, 0)]
        aps == InnerAppended(InnerAppended(top, "connected", it.connected, 0),
                             "never", it.never, Len(it.connected))
    IN  [it EXCEPT !.tree = [aps EXCEPT
            !.outer = append(append(@, "aps", aps.inner.items, 0), "bottom", <<>>, Len(aps.inner.items))]]

-----------------------------------------------------------------------------
(* WifiLinkImpl.  A step of the program works on s = [link, item, found].   *)

Keys(l) == [g \in DOMAIN l.groups |-> l.groups[g].key]
Grouped(l) == {l.grouper[k] : k \in DOMAIN l.grouper}
accessPoints(l) == IF l.disconnect THEN {} ELSE Grouped(l)

Level(strength) == Cardinality({t \in {20, 40, 60, 80} : t <= strength})

strengthUpdated(l) ==
    [l EXCEPT !.signal =
        IF l.active = NoAp \/ l.disconnect THEN Disconnected
        ELSE [level |-> Level(l.groups[l.active].strength), secure |-> secured(l.groups[l.active])]]

update_grouped_access_points(s) ==
    [s EXCEPT !.item = updateAccessPoints(@, accessPoints(s.link), Keys(s.link))]

\* Mutant: "/" does not clear the active access point.
updateActiveConnection_Kept(s, act, ap) ==
    LET holders == {g \in Grouped(s.link) : ap \in s.link.groups[g].aps}
        conn == [s EXCEPT !.link.conn = act, !.found = holders # {}]
    IN  IF act \in {NoAct, s.link.conn} \/ holders = {} THEN conn
        ELSE [conn EXCEPT !.link.active = CHOOSE h \in holders : TRUE]

updateActiveConnection(s, act, ap) ==
    LET holders == {g \in Grouped(s.link) : ap \in s.link.groups[g].aps}
        g == CHOOSE h \in holders : TRUE
        conn == [s EXCEPT !.link.conn = act, !.found = holders # {}]
    IN  IF act = NoAct
        THEN [s EXCEPT !.link = strengthUpdated([s.link EXCEPT !.active = NoAp, !.conn = NoAct]),
                       !.item = updateActiveAccessPoint(@, NoAp, Keys(s.link))]
        ELSE IF act = s.link.conn THEN s
        ELSE IF holders = {} THEN conn
        ELSE [conn EXCEPT !.link = strengthUpdated([conn.link EXCEPT !.active = g]),
                          !.item = updateActiveAccessPoint(@, g, Keys(s.link))]

setStatus(s, status) == [s EXCEPT !.link.status = status]

updateDeviceState(s, state) ==
    LET t == [s EXCEPT !.link.lastState = state]
    IN  CASE state \in DownStates ->
                 setStatus(updateActiveConnection(t, NoAct, NoAp),
                           IF t.link.kill = "blocked" THEN "disabled" ELSE "offline")
          [] state \in BusyStates ->
                 setStatus(IF nm.act = NoAct THEN t ELSE updateActiveConnection(t, nm.act, nm.ap),
                           "connecting")
          [] state = "secondaries" -> setStatus(updateActiveConnection(t, nm.act, nm.ap), "connected")
          [] state = "activated" -> setStatus(updateActiveConnection(t, nm.act, nm.ap), "online")

\* A new AccessPointImpl reads its properties; those of one that is gone are empty.
NewAp(a) ==
    IF a \in DOMAIN nm.aps THEN [key |-> KeyOf[a], strength |-> nm.aps[a]]
    ELSE [key |-> NoKey, strength |-> 0]

ap_added(s, a) ==
    LET new == NewAp(a)
        raw == With(s.link.raw, a, new)
        known == new.key \in DOMAIN s.link.grouper
        g == IF known THEN s.link.grouper[new.key] ELSE a
        old == IF known THEN s.link.groups[g] ELSE [key |-> new.key, aps |-> {}, strength |-> 0]
        group == add_ap(old, raw, a)
        l == [s.link EXCEPT !.raw = raw, !.groups = With(@, g, group),
                            !.grouper = With(@, new.key, g)]
        emits == g = l.active /\ group.strength # old.strength
    IN  IF a \in DOMAIN s.link.raw THEN s
        ELSE update_grouped_access_points([s EXCEPT !.link = IF emits THEN strengthUpdated(l) ELSE l])

ap_removed(s, a) ==
    LET key == s.link.raw[a].key
        raw == Without(s.link.raw, a)
        g == s.link.grouper[key]
        group == remove_ap(s.link.groups[g], raw, a)
        grouper == IF group.aps = {} THEN Without(s.link.grouper, key) ELSE s.link.grouper
        l == [s.link EXCEPT !.raw = raw, !.groups = With(@, g, group), !.grouper = grouper]
        \* setStrength(0) is emitted while the list is empty; a remaining 0 is not emitted.
        dimmed == IF l.disconnect THEN l.signal ELSE [level |-> 0, secure |-> FALSE]
        signal == IF group.strength > 0 THEN strengthUpdated(l).signal ELSE dimmed
    IN  IF a \notin DOMAIN s.link.raw THEN s
        ELSE update_grouped_access_points(
                 [s EXCEPT !.link = IF g = l.active THEN [l EXCEPT !.signal = signal] ELSE l])

\* PropertiesChanged of an access point, through to the group and the link.
ap_properties_changed(s, a, strength) ==
    LET raw == With(s.link.raw, a, [s.link.raw[a] EXCEPT !.strength = strength])
        g == s.link.grouper[raw[a].key]
        l == [s.link EXCEPT !.raw = raw, !.groups = With(@, g, update_strength(s.link.groups[g], raw))]
    IN  IF a \notin DOMAIN s.link.raw THEN s
        ELSE [s EXCEPT !.link = IF g = l.active THEN strengthUpdated(l) ELSE l]

setDisconnectWifi(s, disconnect) ==
    LET t == update_grouped_access_points([s EXCEPT !.link.disconnect = disconnect])
    IN  [t EXCEPT !.link = strengthUpdated(@)]

\* Groups that nothing refers to any more are destroyed.
Collected(l, it) ==
    [l EXCEPT !.groups = [g \in {h \in DOMAIN @ : h \in Grouped(l) \cup it.aps \cup {l.active, it.active}}
                              |-> @[g]]]

Service == [link |-> link, item |-> item, menus |-> menus, found |-> found]

\* The actions of the access points' items are exported with the item that holds them.
Becomes(s) ==
    /\ link' = Collected(s.link, s.item)
    /\ item' = s.item
    /\ menus' = actionsChanged(s.menus, Entries("ap", item.aps \ s.item.aps),
                                        Entries("ap", s.item.aps \ item.aps))
    /\ found' = s.found

-----------------------------------------------------------------------------
(* Actions of the service                                                  *)

Takes(t) == sig # <<>> /\ Head(sig).t = t /\ sig' = Tail(sig) /\ UNCHANGED <<nm, events, connects>>

HandleAdded == Takes("added") /\ Becomes(ap_added(Service, Head(sig).ap))
HandleRemoved == Takes("removed") /\ Becomes(ap_removed(Service, Head(sig).ap))
HandleStrength ==
    Takes("strength") /\ Becomes(ap_properties_changed(Service, Head(sig).ap, Head(sig).strength))
state_changed == Takes("state") /\ Becomes(updateDeviceState(Service, Head(sig).state))
kill_switch_updated ==
    /\ Takes("kill")
    /\ Becomes(updateDeviceState([Service EXCEPT !.link.kill = nm.kill], link.lastState))

Handle == HandleAdded \/ HandleRemoved \/ HandleStrength \/ state_changed \/ kill_switch_updated

\* A path for an active connection that is not known any more.
FreshAct == CHOOSE n \in 1 .. 3 : n \notin {nm.act, link.conn}
            /\ \A k \in 1 .. n - 1 : k \in {nm.act, link.conn}

State(x) == [t |-> "state", state |-> x]

\* NetworkManager takes up a connection, and takes down the one it had.
Activates(n, q, ap, act) ==
    LET down == IF n.act = NoAct THEN <<>> ELSE <<State("deactivating"), State("disconnected")>>
    IN  [nm |-> [n EXCEPT !.act = act, !.ap = ap, !.dev = "prepare"],
         sig |-> q \o down \o <<State("prepare")>>]

Connects == connects < MaxConnects /\ connects' = connects + 1

\* The user picks a network; ok: the call to NetworkManager works.
connect_to(g) ==
    \E ok \in BOOLEAN :
        LET key == link.groups[g].key
            calls == key \in nm.saved \/ key \notin EnterpriseKeys
            world == Activates([nm EXCEPT !.saved = @ \cup {key}], sig, object_path(link.groups[g]), FreshAct)
            act == IF ok THEN FreshAct ELSE BadAct
        IN  /\ Connects
            /\ nm.dev # "unavailable"
            /\ IF calls /\ ok THEN nm' = world.nm /\ sig' = world.sig ELSE UNCHANGED <<nm, sig>>
            /\ Becomes(IF calls /\ key \notin EnterpriseKeys
                       THEN updateActiveConnection(Service, act, IF ok THEN object_path(link.groups[g]) ELSE NoAp)
                       ELSE Service)
            /\ UNCHANGED events

UserConnects == \E g \in item.aps : connect_to(g)

\* The hotspot manager asks for the link; NetworkManager drops the connection it is told.
DisconnectWifi(disconnect) ==
    LET drops == disconnect /\ link.conn = nm.act /\ nm.act # NoAct
    IN  /\ Connects
        /\ link.disconnect # disconnect
        /\ Becomes(setDisconnectWifi(Service, disconnect))
        /\ nm' = IF drops THEN [nm EXCEPT !.act = NoAct, !.ap = NoAp, !.dev = "disconnected"] ELSE nm
        /\ sig' = IF drops THEN sig \o <<State("deactivating"), State("disconnected")>> ELSE sig
        /\ UNCHANGED events

\* Made by WifiSection for the link.
NewItem == Merged(updateActiveAccessPoint(updateAccessPoints(NoItems, accessPoints(link), Keys(link)),
                                          link.active, Keys(link)))
Event == events < MaxEvents /\ events' = events + 1

\* A modem comes or goes, or a link: the section makes the item of the WiFi link anew.
LinksUpdated(modems) ==
    /\ Event
    /\ Becomes([Service EXCEPT !.item = NewItem, !.menus = updateLinks(modemsChanged(menus, modems))])
    /\ UNCHANGED <<nm, sig, connects>>

\* Once stored the hotspot stays so; the section does what it does for the modems.
hotspotStoredChanged ==
    /\ Event
    /\ ~menus.stored
    /\ Becomes([Service EXCEPT !.menus = modemsChanged([menus EXCEPT !.stored = TRUE], menus.modems)])
    /\ UNCHANGED <<nm, sig, connects>>

VpnsUpdated(vpns) ==
    /\ Event
    /\ vpns # menus.vpns
    /\ Becomes([Service EXCEPT !.menus = vpnConnectionsChanged(menus, vpns)])
    /\ UNCHANGED <<nm, sig, connects>>

-----------------------------------------------------------------------------
(* NetworkManager and urfkill                                              *)

Changed(n, s) == nm' = n /\ sig' = Append(sig, s) /\ UNCHANGED <<link, item, menus, found>>

ApAppears(a) ==
    /\ Event
    /\ a \notin nm.used
    /\ \E v \in Strengths :
           Changed([nm EXCEPT !.aps = With(@, a, v), !.used = @ \cup {a}], [t |-> "added", ap |-> a])
    /\ UNCHANGED connects

ApDisappears(a) ==
    /\ Event
    /\ a \in DOMAIN nm.aps
    /\ Changed([nm EXCEPT !.aps = Without(@, a)], [t |-> "removed", ap |-> a])
    /\ UNCHANGED connects

StrengthChanges(a) ==
    /\ Event
    /\ a \in DOMAIN nm.aps
    /\ \E v \in Strengths \ {nm.aps[a]} :
           Changed([nm EXCEPT !.aps[a] = v], [t |-> "strength", ap |-> a, strength |-> v])
    /\ UNCHANGED connects

KillChanges ==
    /\ Event
    /\ Changed([nm EXCEPT !.kill = IF @ = "blocked" THEN "unblocked" ELSE "blocked"], [t |-> "kill"])
    /\ UNCHANGED connects

\* Autoconnect, or another client; the access point may be one just found.
ConnectedByOther(a) ==
    /\ Connects
    /\ a \in DOMAIN nm.aps /\ a # nm.ap
    /\ LET world == Activates(nm, sig, a, FreshAct) IN nm' = world.nm /\ sig' = world.sig
    /\ UNCHANGED <<link, item, menus, found, events>>

Progress(state) ==
    /\ \/ nm.dev = "prepare" /\ state \in UpStates
       \/ nm.dev = "secondaries" /\ state = "activated"
    /\ Changed([nm EXCEPT !.dev = state], State(state))
    /\ UNCHANGED <<events, connects>>

DisconnectedByOther(state) ==
    /\ Connects
    /\ state \in DownStates \ {"deactivating", nm.dev}
    /\ Changed([nm EXCEPT !.dev = state, !.act = NoAct, !.ap = NoAp], State(state))
    /\ UNCHANGED events

-----------------------------------------------------------------------------

Init ==
    /\ nm = [aps |-> Empty, used |-> {}, dev |-> "disconnected", act |-> NoAct, ap |-> NoAp,
             saved |-> {}, kill |-> "unblocked"]
    /\ sig = <<>>
    /\ link = [raw |-> Empty, groups |-> Empty, grouper |-> Empty, active |-> NoAp, conn |-> NoAct,
               status |-> "offline", signal |-> Disconnected, lastState |-> "disconnected",
               kill |-> "unblocked", disconnect |-> FALSE]
    /\ item = Merged(NoItems)
    /\ menus = NewMenus(HasWifi)
    /\ found = FALSE
    /\ events = 0 /\ connects = 0

Next ==
    \/ Handle
    \/ UserConnects
    \/ \E b \in BOOLEAN : DisconnectWifi(b)
    \/ \E modems \in SUBSET Modems : LinksUpdated(modems)
    \/ hotspotStoredChanged
    \/ \E vpns \in SUBSET Vpns : VpnsUpdated(vpns)
    \/ \E a \in Aps : ApAppears(a) \/ ApDisappears(a) \/ StrengthChanges(a) \/ ConnectedByOther(a)
    \/ KillChanges
    \/ \E x \in UpStates : Progress(x)
    \/ \E x \in DownStates : DisconnectedByOther(x)

Spec == Init /\ [][Next]_vars

-----------------------------------------------------------------------------

(* Every access point the link knows is in exactly one network, the one of *)
(* its SSID and security; no network is empty; and a network is as strong  *)
(* as its strongest access point, whatever was added, removed or changed   *)
(* before, and when nothing is under way the link knows what               *)
(* NetworkManager has.                                                     *)
GroupSound ==
    /\ \A k \in DOMAIN link.grouper :
           LET g == link.groups[link.grouper[k]]
           IN  /\ g.key = k /\ g.aps # {}
               /\ g.aps = {a \in DOMAIN link.raw : link.raw[a].key = k}
               /\ g.strength = Max({link.raw[a].strength : a \in g.aps})
    /\ \A a \in DOMAIN link.raw : link.raw[a].key \in DOMAIN link.grouper
    /\ sig = <<>> => link.raw = [a \in DOMAIN nm.aps |-> [key |-> KeyOf[a], strength |-> nm.aps[a]]]

\* The items of the link: the active network above, the others below by name.
ItemsShown ==
    LET key == Keys(link)
        shown == {g \in accessPoints(link) : key[g] # NoKey}
    IN  /\ item.aps = shown /\ item.active = link.active
        /\ item.connected = IF item.active \in shown THEN <<item.active>> ELSE <<>>
        /\ item.on = shown \cap {item.active}
        /\ ToSet(item.never) = shown \ {item.active}
        /\ \A i, j \in DOMAIN item.never : i < j => key[item.never[i]] < key[item.never[j]]

\* What each merger should export.
Listed(kind, set) == [i \in 1 .. Cardinality(set) |-> Entry(kind, Ascending(set)[i])]
When(condition, kind) == IF condition THEN <<Fixed(kind)>> ELSE <<>>

WwanRows ==
    IF menus.modems = {} THEN <<>>
    ELSE <<Fixed("mobileData")>> \o Listed("modem", menus.modems)
         \o When(menus.stored, "hotspot") \o <<Fixed("cellular")>>
VpnRows == Listed("vpn", menus.vpns) \o When(menus.vpns # {}, "vpn")
WifiRows == When(HasWifi, "wifiSwitch") \o <<Fixed("wifiLink")>>
MenuRows == <<Fixed("flight"), Fixed("wwan")>> \o WifiRows \o <<Fixed("wifi"), Fixed("vpnSection")>>
Exported ==
    SwitchActions \cup SectionActions \cup Entries("modem", menus.modems)
        \cup Entries("vpn", menus.vpns) \cup Entries("ap", item.aps)

(* The menu shows every visible network once: the active one alone on top  *)
(* and switched on, the others below in the order of their names, and      *)
(* nothing while the hotspot has the link.  What the mergers export is     *)
(* what their parts show, whatever was inserted and removed in which of    *)
(* them before: the WiFi item its two menus; the section of the modems its *)
(* switch, the modems by their index, the hotspot's switch once a hotspot  *)
(* is stored and the settings, and nothing without modems; the VPN section *)
(* its connections by name and the settings; the menu all sections in      *)
(* their order with one WiFi item above the WiFi settings; and the action  *)
(* group the actions of all items shown and no others.                     *)
MenuSound ==
    /\ ItemsShown
    /\ item.tree.outer.items = item.connected \o item.never
    /\ menus.wwan.outer.items = WwanRows
    /\ menus.vpn.items = VpnRows
    /\ menus.sub.items = MenuRows /\ menus.settings = WifiRows
    /\ BagToSet(menus.count) = Exported

(* When nothing is under way the link agrees with NetworkManager: its      *)
(* status is that of the device and the kill switch, it holds the active   *)
(* connection unless NetworkManager refused one, an access point that it   *)
(* found (and could read) for that connection is the active one, and the   *)
(* strength it shows is the one of that network (its security as well,     *)
(* unless the strength is 0).                                              *)
LinkAgrees ==
    sig = <<>> =>
        /\ link.status = CASE nm.dev \in DownStates -> IF nm.kill = "blocked" THEN "disabled" ELSE "offline"
                           [] nm.dev \in BusyStates -> "connecting"
                           [] nm.dev = "secondaries" -> "connected"
                           [] nm.dev = "activated" -> "online"
        /\ nm.dev \in DownStates /\ link.conn # BadAct => link.active = NoAp /\ link.conn = NoAct
        /\ nm.dev \in UpStates /\ link.conn # BadAct =>
               link.conn = nm.act /\ (found => link.groups[link.active].key \in {KeyOf[nm.ap], NoKey})
        /\ LET want == strengthUpdated(link).signal
           IN  link.signal.level = want.level /\ (want.level > 0 => link.signal = want)
=============================================================================
