---------------------------- MODULE MenuSections ----------------------------
(***************************************************************************)
(* The sections of the indicator's menu and what is exported of them:      *)
(* WwanSection, WifiSection, VpnSection, the IndicatorMenu that merges     *)
(* them, and the action groups that MenuBuilder merges into one.           *)
(*                                                                         *)
(* The operators work on one record: the modems and VPN connections that   *)
(* have an item, whether modems name their SIM, every Menu as the sequence *)
(* of its items, every merger, and how often each action was added to the  *)
(* exported group.                                                         *)
(***************************************************************************)
EXTENDS MenuMerger, Bags

Entry(kind, n) == <<kind, n>>
Entries(kind, set) == {Entry(kind, n) : n \in set}
Fixed(kind) == Entry(kind, 0)
Ascending(set) == SetToSortSeq(set, <)
Has(menu, entry) == entry \in ToSet(menu)

-----------------------------------------------------------------------------
(* ActionGroupMerger: an action is exported until it was removed as often  *)
(* as it was added.                                                        *)

\* The menus of desktop and phone and of their greeters; each brings the sections' actions.
IndicatorMenus == 4
Copies(actions) == [a \in actions |-> IndicatorMenus]

actionAdded(count, actions) == count (+) Copies(actions)
actionRemoved(count, actions) == count (-) Copies(actions)

\* The groups of items that are gone, then those of new items.
actionsChanged(s, removed, added) ==
    [s EXCEPT !.count = actionAdded(actionRemoved(@, removed), added)]

-----------------------------------------------------------------------------
(* WwanSection                                                             *)

\* A change of m_upperMenu or m_bottomMenu, with the merger that follows it.
WwanMenu(s, menu, at, removed, added) ==
    [s EXCEPT ![menu] = Splice(@, at, removed, added),
              !.wwan.outer = itemsChanged(@, menu, at, removed, added)]

WithDataSwitch(s) ==
    IF Has(s.upper, Fixed("mobileData")) THEN s
    ELSE WwanMenu(s, "upper", 0, 0, <<Fixed("mobileData")>>)

\* When nothing is stored the code removes the switch if it is not there: nothing happens.
WithHotspotSwitch(s) ==
    IF ~s.stored \/ Has(s.bottom, Fixed("hotspot")) THEN s
    ELSE WwanMenu(s, "bottom", 0, 0, <<Fixed("hotspot")>>)

WithSettings(s) ==
    IF Has(s.bottom, Fixed("cellular")) THEN s
    ELSE WwanMenu(s, "bottom", Len(s.bottom), 0, <<Fixed("cellular")>>)

WithoutModems(s) == WwanMenu(WwanMenu(s, "bottom", 0, Len(s.bottom), <<>>), "upper", 0, Len(s.upper), <<>>)

\* The items of the modems are taken out of the merger and appended anew, by their index;
\* they name their SIM when there are several.
modemsChanged(s, modems) ==
    LET dropped == FoldSet(LAMBDA m, t : InnerRemoved(t, m, 1), s.wwan, s.modems \ modems)
        cleared == FoldLeft(LAMBDA t, m : InnerRemoved(t, m, 1), dropped, dropped.inner.menus)
        listed == FoldLeft(LAMBDA t, m : InnerAppended(t, m, <<Entry("modem", m)>>, 1),
                           cleared, Ascending(modems))
        acts == actionsChanged(s, Entries("modem", s.modems \ modems), Entries("modem", modems \ s.modems))
        next == [acts EXCEPT !.modems = modems, !.wwan = listed, !.identifiers = Cardinality(modems) > 1]
    IN  IF modems = {} THEN WithoutModems(next)
        ELSE WithSettings(WithHotspotSwitch(WithDataSwitch(next)))

-----------------------------------------------------------------------------
(* VpnSection                                                              *)

VpnMenu(s, menu, at, removed, added) ==
    [s EXCEPT ![menu] = Splice(@, at, removed, added),
              !.vpn = itemsChanged(@, menu, at, removed, added)]

WithVpnSettings(s) ==
    IF (s.vpns = {}) = Has(s.vpnSettings, Fixed("vpn"))
    THEN VpnMenu(s, "vpnSettings", 0, Len(s.vpnSettings), IF s.vpns = {} THEN <<>> ELSE <<Fixed("vpn")>>)
    ELSE s

vpnConnectionsChanged(s, vpns) ==
    LET acts == actionsChanged(s, Entries("vpn", s.vpns \ vpns), Entries("vpn", vpns \ s.vpns))
        cleared == VpnMenu([acts EXCEPT !.vpns = vpns], "connections", 0, Len(s.connections), <<>>)
        listed == FoldLeft(LAMBDA t, v : VpnMenu(t, "connections", Len(t.connections), 0, <<Entry("vpn", v)>>),
                           cleared, Ascending(vpns))
    IN  WithVpnSettings(listed)

-----------------------------------------------------------------------------
(* WifiSection                                                             *)

\* m_menu, which is merged into the IndicatorMenu, and m_settingsMenu, which is exported as it is.
SectionMenu(s, at, removed, added) ==
    [s EXCEPT !.section = Splice(@, at, removed, added),
              !.sub = itemsChanged(@, "wifi", at, removed, added)]

Place(menu, entry) ==
    LET at == {i \in DOMAIN menu : menu[i] = entry}
    IN  IF at = {} THEN Len(menu) ELSE Min(at) - 1

\* The item is taken out of both menus and its successor inserted above the settings.
updateLinks(s) ==
    LET item == Fixed("wifiLink")
        out == IF Has(s.section, item) THEN SectionMenu(s, Place(s.section, item), 1, <<>>) ELSE s
        in == SectionMenu(out, Place(out.section, Fixed("wifi")), 0, <<item>>)
        gone == SelectSeq(s.settings, LAMBDA x : x # item)
    IN  [in EXCEPT !.settings = Splice(gone, Place(gone, Fixed("wifi")), 0, <<item>>)]

-----------------------------------------------------------------------------
(* MenuBuilder                                                             *)

\* Actions that are added once, by their switch, and those that a section always has.
SwitchActions == {Fixed("flight"), Fixed("wifiSwitch"), Fixed("hotspot")}
SectionActions == {Fixed("mobileData"), Fixed("cellular"), Fixed("wifi"), Fixed("vpn")}

NewWwan ==
    [NewNested("link") EXCEPT
        !.outer = append(append(append(@, "upper", <<>>, 0), "link", <<>>, 0), "bottom", <<>>, 0)]

NewVpn == append(append(NewMerger, "connections", <<>>, 0), "vpnSettings", <<>>, 0)

\* The sections once constructed, without modems and VPN connections, with one WiFi link.
NewSections(hasWifi) ==
    LET switch == IF hasWifi THEN <<Fixed("wifiSwitch")>> ELSE <<>>
    IN  updateLinks(
            [modems |-> {}, identifiers |-> FALSE, stored |-> FALSE,
             upper |-> <<>>, bottom |-> <<>>, wwan |-> NewWwan,
             vpns |-> {}, connections |-> <<>>, vpnSettings |-> <<>>, vpn |-> NewVpn,
             section |-> Append(switch, Fixed("wifi")), settings |-> switch, sub |-> NewMerger,
             count |-> EmptyBag])

\* IndicatorMenu::addSection() for each section.
AddSections(s) ==
    LET quick == append(s.sub, "quick", <<Fixed("flight")>>, 0)
        wwan == append(quick, "wwan", <<Fixed("wwan")>>, 1)
        wifi == append(wwan, "wifi", s.section, 1)
    IN  [s EXCEPT !.sub = append(wifi, "vpn", <<Fixed("vpnSection")>>, Len(s.section)),
                  !.count = actionAdded(@, SectionActions)]

NewMenus(hasWifi) == [AddSections(NewSections(hasWifi)) EXCEPT !.count = @ (+) SetToBag(SwitchActions)]
=============================================================================
