----------------------------- MODULE MobileData -----------------------------
(***************************************************************************)
(* Mobile data: the switch and the chosen SIM of ManagerImpl, the SIM      *)
(* objects (wwan::Sim) and the SIM manager that ties them to the modems of *)
(* ofono, and the settings file both survive a restart in.                 *)
(*                                                                         *)
(* A SIM is identified by its ICCID, a member of Sims; the same identity   *)
(* stands for the card, for the wwan::Sim object and for the key in the    *)
(* settings.  A slot of the service is one atomic action.  Concurrent with *)
(* it are ofono, which answers calls in the order they were sent and       *)
(* announces changes of Powered, the cards being put in and pulled out,    *)
(* the clients of the service and other clients of ofono, and restarts.    *)
(* Signals of ofono are handled in the step that causes them: they arrive  *)
(* in order, and no call that the service sends in between can overtake    *)
(* them.  Data roaming, the second property that wwan::Sim forces on       *)
(* ofono in the same places, is left out.                                  *)
(***************************************************************************)
EXTENDS Integers, Sequences, SequencesExt, FiniteSets

CONSTANTS
    Paths,        \* ofono object paths of modems
    Sims,         \* ICCIDs
    NoPath,       \* no modem: a null QOfonoSimManager, or a card in a drawer
    NoSim,        \* a null wwan::Sim::Ptr, an empty ICCID
    Unset,        \* the settings file of a system that never ran the service
    Switches,     \* values that clients give MobileDataEnabled
    SimChoices,   \* SIMs that clients choose, NoSim for the path "/"
    MaxCalls,     \* bound: calls under way when a client makes a request
    MaxRestarts   \* bound: restarts of the service

ASSUME ConstantsAssumption ==
    /\ NoPath \notin Paths
    /\ NoSim \notin Sims
    /\ Unset \notin [enabled : BOOLEAN, sim : Sims \cup {NoSim}, known : SUBSET Sims]
    /\ Switches \subseteq BOOLEAN
    /\ SimChoices \subseteq Sims \cup {NoSim}
    /\ MaxCalls \in Nat
    /\ MaxRestarts \in Nat

VARIABLES
    mgr,       \* what the nested slots of ManagerImpl and wwan::Sim work on
    links,     \* keys of m_ofonoLinks, and of SimManager's m_ofonoModems
    ready,     \* m_modems
    modemSim,  \* Modem::sim() of each modem
    slot,      \* wwan::Sim: the modem of m_simManager
    initial,   \* m_initialData, "unset" while m_initialDataSet is false
    proxy,     \* powered() of the ofono proxy in m_connManager
    wrapper,   \* m_wrappers
    timer,     \* m_checkSimForMobileDataTimer is running
    cardAt,    \* where each card is
    powered,   \* ofono: Powered, which it keeps for each card
    disk,      \* the settings file
    restarts   \* number of restarts

simVars == <<slot, initial, proxy>>
vars == <<mgr, links, ready, modemSim, simVars, wrapper, timer, cardAt, powered, disk, restarts>>

----------------------------------------------------------------------------
(* Types. *)

Settings == [enabled : BOOLEAN, sim : Sims \cup {NoSim}, known : SUBSET Sims]

(* A call to a ConnectionManager: GetProperties or a change of Powered. *)
Call == {"get", "on", "off"}
SetPowered(v) == IF v THEN "on" ELSE "off"

(* flag is m_mobileDataEnabled of each SIM, conn whether it has an         *)
(* m_connManager, calls what ofono has yet to answer.  settings.known are  *)
(* the keys of m_knownSims and the members of m_sims: both are read from   *)
(* the settings and grow with them.                                        *)
Mgr == [enabled : BOOLEAN, enabledPending : BOOLEAN,
        sim : Sims \cup {NoSim}, simPending : BOOLEAN, settings : Settings,
        flag : [Sims -> BOOLEAN], conn : [Sims -> BOOLEAN], calls : [Sims -> Seq(Call)]]

(* The iccid of a wrapper outlives the card it was read from. *)
Wrapper == [there : BOOLEAN, present : BOOLEAN, iccid : Sims \cup {NoSim}, iccidSet : BOOLEAN]
NoWrapper == [there |-> FALSE, present |-> FALSE, iccid |-> NoSim, iccidSet |-> FALSE]
FreshWrapper == [NoWrapper EXCEPT !.there = TRUE]

----------------------------------------------------------------------------
(* wwan::Sim *)

(* A call that repeats the one sent last changes nothing at ofono. *)
Send(q, call) == IF q # <<>> /\ q[Len(q)] = call THEN q ELSE Append(q, call)

(* Sim::setMobileDataEnabled() for every SIM of S. *)
SimSetMobileDataEnabled(m, S, v) ==
    [m EXCEPT
        !.flag = [s \in Sims |-> IF s \in S THEN v ELSE m.flag[s]],
        !.calls = [s \in Sims |-> IF s \in S /\ m.conn[s] /\ m.flag[s] # v
                                  THEN Send(m.calls[s], SetPowered(v)) ELSE m.calls[s]]]

Update_Trusts(m, s, power) == m

(* Sim::Private::update(): ofono is forced back to the SIM's own value. *)
Update(m, s, power) ==
    IF m.conn[s] /\ m.flag[s] # power
    THEN [m EXCEPT !.calls = [@ EXCEPT ![s] = Send(m.calls[s], SetPowered(m.flag[s]))]]
    ELSE m

(* A proxy that is deleted does not wait for its properties any more; what *)
(* it has sent is on its way.                                              *)
Orphaned(q) ==
    IF \E i \in 1..Len(q) : q[i] = "get"
    THEN RemoveAt(q, CHOOSE i \in 1..Len(q) : q[i] = "get")
    ELSE q

(* setConnManager() with a new proxy, which first fetches its properties,  *)
(* or with null.                                                           *)
SetConnManager(m, s, p) ==
    LET q == Orphaned(m.calls[s])
    IN  IF p = NoPath
        THEN [m EXCEPT !.conn = [@ EXCEPT ![s] = FALSE], !.calls = [@ EXCEPT ![s] = q]]
        ELSE [m EXCEPT !.conn = [@ EXCEPT ![s] = TRUE],
                       !.calls = [@ EXCEPT ![s] = Append(Append(q, "get"),
                                                         SetPowered(m.flag[s]))]]

----------------------------------------------------------------------------
(* ManagerImpl.  carried are the SIMs of the modems in m_modems. *)

Carried(matched, modems) == {matched[p] : p \in modems} \ {NoSim}

SetMobileDataEnabled(m, carried, v) ==
    IF m.enabled = v /\ ~m.enabledPending
    THEN m
    ELSE SimSetMobileDataEnabled(
            [m EXCEPT !.enabled = v, !.enabledPending = FALSE,
                      !.settings = [@ EXCEPT !.enabled = v]],
            IF v THEN carried \cap {m.sim} ELSE carried, v)

SetSimForMobileData_KeepsOld(m, carried, s) ==
    IF m.sim = s /\ ~m.simPending
    THEN m
    ELSE LET n == SetMobileDataEnabled([m EXCEPT !.simPending = FALSE], carried, m.enabled)
         IN  SimSetMobileDataEnabled([n EXCEPT !.sim = s, !.settings = [@ EXCEPT !.sim = s]],
                                     {s} \ {NoSim}, m.enabled)

SetSimForMobileData_Unsaved(m, carried, s) ==
    IF m.sim = s /\ ~m.simPending
    THEN m
    ELSE LET n == SetMobileDataEnabled([m EXCEPT !.simPending = FALSE], carried, m.enabled)
             off == SimSetMobileDataEnabled(n, {m.sim} \ {NoSim}, FALSE)
         IN  SimSetMobileDataEnabled([off EXCEPT !.sim = s], {s} \ {NoSim}, m.enabled)

(* Once the SIM is settled, so is the switch. *)
SetSimForMobileData(m, carried, s) ==
    IF m.sim = s /\ ~m.simPending
    THEN m
    ELSE LET n == IF m.simPending
                  THEN SetMobileDataEnabled([m EXCEPT !.simPending = FALSE], carried, m.enabled)
                  ELSE m
             off == SimSetMobileDataEnabled(n, {m.sim} \ {NoSim}, FALSE)
             chosen == [off EXCEPT !.sim = s, !.settings = [@ EXCEPT !.sim = s]]
         IN  SimSetMobileDataEnabled(chosen, {s} \ {NoSim}, m.enabled)

(* The slot initialDataOnSet().  It is connected to the SIMs that are      *)
(* matched with a modem while a value is pending, hence to every SIM with  *)
(* an m_connManager as long as it matters.                                 *)
InitialDataOnSet(m, carried, s) ==
    IF m.enabledPending \/ m.simPending
    THEN SetSimForMobileData(SetMobileDataEnabled(m, carried, TRUE), carried, s)
    ELSE m

(* matchModemsAndSims(): which SIM each modem gets. *)
SimAt(slots, p) ==
    IF \E s \in Sims : slots[s] = p THEN CHOOSE s \in Sims : slots[s] = p ELSE NoSim

Matched_Sticky(slots) ==
    [p \in Paths |-> IF SimAt(slots, p) = NoSim THEN modemSim[p] ELSE SimAt(slots, p)]

Matched(slots) == [p \in Paths |-> IF p \in links THEN SimAt(slots, p) ELSE NoSim]

(* matchModemsAndSims() also announces the initial value of a SIM that it matches late. *)
Announced(m, matched) ==
    LET on == {s \in Sims : initial[s] = "on" /\ \E p \in links : matched[p] = s}
    IN  IF on # {}
        THEN InitialDataOnSet(m, Carried(matched, ready), CHOOSE s \in on : TRUE)
        ELSE m

----------------------------------------------------------------------------
(* SIMs and modems (SimManager). *)

(* Calls to a card that is out of reach are lost. *)
Lost(m, s) == IF s = NoSim THEN m ELSE [m EXCEPT !.calls = [@ EXCEPT ![s] = <<>>]]

(* Sim::setOfonoSimManager() of a known SIM: update() with the old proxy,  *)
(* presentChanged(), and only then the new proxy.                          *)
SetOfono(s, p, lost) ==
    LET slots == [slot EXCEPT ![s] = p]
        m == Announced(Update(mgr, s, proxy[s]), Matched(slots))
    IN  /\ slot' = slots
        /\ modemSim' = Matched(slots)
        /\ timer' = TRUE
        /\ proxy' = [proxy EXCEPT ![s] = FALSE]
        /\ mgr' = Lost(SetConnManager(m, s, p), lost)

Known(s) == s \in mgr.settings.known

Detached_Chosen(w) ==
    w.iccid # NoSim /\ Known(w.iccid) /\ slot[w.iccid] # NoPath /\ mgr.sim = w.iccid

(* A wrapper or its card goes: the SIM that the wrapper names, if any, is  *)
(* set absent, unless it is already.                                       *)
Detached(w) == w.iccid # NoSim /\ Known(w.iccid) /\ slot[w.iccid] # NoPath

Detach(w, lost) ==
    IF Detached(w)
    THEN SetOfono(w.iccid, NoPath, lost)
    ELSE mgr' = Lost(mgr, lost) /\ UNCHANGED <<slot, modemSim, timer, proxy>>

(* ofonoSimReady() for a SIM that was seen before ... *)
KnownSimReady(s, p) == Known(s) /\ SetOfono(s, p, NoSim)

(* ... and for a new one: fromQOfonoSimWrapper(), the settings, simAdded().*)
NewSimReady(s, p) ==
    LET slots == [slot EXCEPT ![s] = p]
        n == SetConnManager(mgr, s, p)
        added == [n EXCEPT !.settings = [@ EXCEPT !.known = mgr.settings.known \cup {s}]]
        m == IF mgr.settings.sim = s
             THEN SetSimForMobileData(added, Carried(modemSim, ready), s) ELSE added
    IN  /\ ~Known(s)
        /\ slot' = slots
        /\ modemSim' = Matched(slots)
        /\ timer' = TRUE
        /\ proxy' = [proxy EXCEPT ![s] = FALSE]
        /\ mgr' = Announced(m, Matched(slots))

(* The card in a modem's slot. *)
CardIn(p) == SimAt(cardAt, p)

(* modemsChanged() of SimManager, then modems_changed() of ManagerImpl. *)
ModemAdded(p) ==
    /\ p \notin links
    /\ links' = links \cup {p}
    /\ UNCHANGED <<mgr, ready, modemSim, simVars, wrapper, timer, cardAt, powered, disk, restarts>>

RemainingModems(p) == ready \ {p}

(* The SIM is set absent while m_ofonoLinks still has the modem. *)
ModemRemoved(p) ==
    /\ p \in links
    /\ links' = links \ {p}
    /\ ready' = RemainingModems(p)
    /\ wrapper' = [wrapper EXCEPT ![p] = NoWrapper]
    /\ Detach(wrapper[p], CardIn(p))
    /\ UNCHANGED <<initial, cardAt, powered, disk, restarts>>

(* modemInterfacesChanged() *)
SimManagerAdded(p) ==
    /\ p \in links /\ ~wrapper[p].there
    /\ wrapper' = [wrapper EXCEPT ![p] = FreshWrapper]
    /\ UNCHANGED <<mgr, links, ready, modemSim, simVars, timer, cardAt, powered, disk, restarts>>

SimManagerRemoved(p) ==
    /\ wrapper[p].there
    /\ wrapper' = [wrapper EXCEPT ![p] = NoWrapper]
    /\ Detach(wrapper[p], CardIn(p))
    /\ UNCHANGED <<links, ready, initial, cardAt, powered, disk, restarts>>

ModemReady_NoTimer(p) ==
    /\ p \in links \ ready /\ wrapper[p].there
    /\ ready' = ready \cup {p}
    /\ IF modemSim[p] = NoSim
       THEN modemSim' = Matched(slot) /\ mgr' = Announced(mgr, Matched(slot))
       ELSE UNCHANGED <<modemSim, mgr>>
    /\ UNCHANGED <<links, simVars, wrapper, timer, cardAt, powered, disk, restarts>>

(* modemReady(), once the modem has its SimManager. *)
ModemReady(p) ==
    /\ p \in links \ ready /\ wrapper[p].there
    /\ ready' = ready \cup {p}
    /\ IF modemSim[p] = NoSim
       THEN modemSim' = Matched(slot) /\ mgr' = Announced(mgr, Matched(slot))
       ELSE UNCHANGED <<modemSim, mgr>>
    /\ timer' = TRUE
    /\ UNCHANGED <<links, simVars, wrapper, cardAt, powered, disk, restarts>>

----------------------------------------------------------------------------
(* Cards, as the wrappers (QOfonoSimWrapper) see them. *)

CardInserted(s, p) ==
    /\ cardAt[s] = NoPath /\ CardIn(p) = NoSim
    /\ cardAt' = [cardAt EXCEPT ![s] = p]
    /\ wrapper' = [wrapper EXCEPT ![p] = [@ EXCEPT !.present = wrapper[p].there]]
    /\ UNCHANGED <<mgr, links, ready, modemSim, simVars, timer, powered, disk, restarts>>

(* A new wrapper finds a card in the slot. *)
CardSeen(p) ==
    /\ wrapper[p].there /\ ~wrapper[p].present
    /\ CardIn(p) # NoSim
    /\ wrapper' = [wrapper EXCEPT ![p] = [@ EXCEPT !.present = TRUE]]
    /\ UNCHANGED <<mgr, links, ready, modemSim, simVars, timer, cardAt, powered, disk, restarts>>

(* iccidChanged(), with the SIM manager's ofonoSimReady(). *)
CardRead(p) ==
    LET s == CardIn(p)
    IN  /\ wrapper[p].present /\ ~wrapper[p].iccidSet
        /\ wrapper' = [wrapper EXCEPT ![p] = [@ EXCEPT !.iccid = s, !.iccidSet = TRUE]]
        /\ KnownSimReady(s, p) \/ NewSimReady(s, p)
        /\ UNCHANGED <<links, ready, initial, cardAt, powered, disk, restarts>>

(* presentChanged(false), with ofonoSimPresentChanged(). *)
CardRemoved(p) ==
    LET s == CardIn(p)
    IN  /\ s # NoSim
        /\ cardAt' = [cardAt EXCEPT ![s] = NoPath]
        /\ wrapper' = [wrapper EXCEPT ![p] = [@ EXCEPT !.present = FALSE, !.iccidSet = FALSE]]
        /\ IF wrapper[p].present
           THEN Detach(wrapper[p], s)
           ELSE mgr' = Lost(mgr, s) /\ UNCHANGED <<slot, modemSim, timer, proxy>>
        /\ UNCHANGED <<links, ready, initial, powered, disk, restarts>>

----------------------------------------------------------------------------
(* Requests of clients, and the check that picks the only SIM there is. *)

CanRequest == \A s \in Sims : Len(mgr.calls[s]) < MaxCalls

ClientSetsEnabled(v) ==
    /\ CanRequest
    /\ mgr' = SetMobileDataEnabled(mgr, Carried(modemSim, ready), v)
    /\ UNCHANGED <<links, ready, modemSim, simVars, wrapper, timer, cardAt, powered, disk, restarts>>

ClientSetsSim(s) ==
    /\ CanRequest
    /\ s = NoSim \/ Known(s)
    /\ mgr' = SetSimForMobileData(mgr, Carried(modemSim, ready), s)
    /\ UNCHANGED <<links, ready, modemSim, simVars, wrapper, timer, cardAt, powered, disk, restarts>>

Present(s) == s # NoSim /\ slot[s] # NoPath

CheckSimForMobileData ==
    LET there == {p \in ready : modemSim[p] # NoSim}
    IN  /\ timer
        /\ timer' = FALSE
        /\ mgr' = IF ~Present(mgr.sim) /\ Cardinality(there) = 1
                  THEN SetSimForMobileData(mgr, Carried(modemSim, ready),
                                           modemSim[CHOOSE p \in there : TRUE])
                  ELSE mgr
        /\ UNCHANGED <<links, ready, modemSim, simVars, wrapper, cardAt, powered, disk, restarts>>

----------------------------------------------------------------------------
(* ofono. *)

(* poweredChanged() of the SIM's proxy. *)
PoweredChanged(m, s, v) ==
    LET first == InitialDataOnSet(m, Carried(modemSim, ready), s)
        told == IF v THEN first ELSE m
    IN  IF initial[s] = "unset"
        THEN Update([told EXCEPT !.calls = [@ EXCEPT
                        ![s] = Send(told.calls[s], SetPowered(told.flag[s]))]], s, v)
        ELSE Update(m, s, v)

Heard(m, s, v) ==
    /\ mgr' = PoweredChanged(m, s, v)
    /\ proxy' = [proxy EXCEPT ![s] = v]
    /\ initial' = IF initial[s] = "unset" THEN [initial EXCEPT ![s] = SetPowered(v)] ELSE initial

Unheard(m) == mgr' = m /\ UNCHANGED <<proxy, initial>>

(* The first call is answered.  A new proxy is told the value it asked     *)
(* for, the others hear of a change.                                       *)
OfonoAnswers(s) ==
    LET call == mgr.calls[s][1]
        v == IF call = "get" THEN powered[s] ELSE call = "on"
        m == [mgr EXCEPT !.calls = [@ EXCEPT ![s] = Tail(mgr.calls[s])]]
    IN  /\ mgr.calls[s] # <<>>
        /\ powered' = [powered EXCEPT ![s] = v]
        /\ IF mgr.conn[s] /\ (call = "get" \/ v # powered[s]) THEN Heard(m, s, v) ELSE Unheard(m)
        /\ UNCHANGED <<links, ready, modemSim, slot, wrapper, timer, cardAt, disk, restarts>>

(* Another client of ofono switches data on or off. *)
PoweredByOther(s) ==
    /\ cardAt[s] # NoPath /\ CanRequest
    /\ powered' = [powered EXCEPT ![s] = ~@]
    /\ IF mgr.conn[s] THEN Heard(mgr, s, ~powered[s]) ELSE Unheard(mgr)
    /\ UNCHANGED <<links, ready, modemSim, slot, wrapper, timer, cardAt, disk, restarts>>

----------------------------------------------------------------------------
(* Settings and restarts. *)

(* QSettings writes the file when the event loop gets round to it. *)
Sync ==
    /\ disk # mgr.settings
    /\ disk' = mgr.settings
    /\ UNCHANGED <<mgr, links, ready, modemSim, simVars, wrapper, timer, cardAt, powered, restarts>>

NewMgr(settings, pending, q) ==
    [enabled |-> FALSE, enabledPending |-> pending, sim |-> NoSim, simPending |-> pending,
     settings |-> settings, flag |-> [s \in Sims |-> FALSE], conn |-> [s \in Sims |-> FALSE],
     calls |-> q]

(* The SIM among the known ones that the settings name. *)
LoadedSim(settings) == IF settings.sim \in settings.known THEN settings.sim ELSE NoSim

LoadSettings_SimFirst(settings, q) ==
    IF settings = Unset
    THEN NewMgr([enabled |-> FALSE, sim |-> NoSim, known |-> {}], TRUE, q)
    ELSE SetMobileDataEnabled(SetSimForMobileData(NewMgr(settings, FALSE, q), {}, LoadedSim(settings)),
                              {}, settings.enabled)

(* loadSettings(), when there is no modem yet: the first run writes the    *)
(* defaults and waits for what the modems say.                             *)
LoadSettings(settings, q) ==
    IF settings = Unset
    THEN NewMgr([enabled |-> FALSE, sim |-> NoSim, known |-> {}], TRUE, q)
    ELSE SetSimForMobileData(SetMobileDataEnabled(NewMgr(settings, FALSE, q), {}, settings.enabled),
                             {}, LoadedSim(settings))

Init ==
    /\ disk = Unset
    /\ mgr = LoadSettings(Unset, [s \in Sims |-> <<>>])
    /\ links = {}
    /\ ready = {}
    /\ modemSim = [p \in Paths |-> NoSim]
    /\ slot = [s \in Sims |-> NoPath]
    /\ initial = [s \in Sims |-> "unset"]
    /\ proxy = [s \in Sims |-> FALSE]
    /\ wrapper = [p \in Paths |-> NoWrapper]
    /\ timer = TRUE
    /\ cardAt \in [Sims -> Paths \cup {NoPath}]
    /\ \A s, t \in Sims : cardAt[s] = cardAt[t] => s = t \/ cardAt[s] = NoPath
    /\ powered \in [Sims -> BOOLEAN]
    /\ restarts = 0

(* The process ends between two slots and the session starts it again.     *)
Restart ==
    /\ restarts < MaxRestarts
    /\ restarts' = restarts + 1
    /\ mgr' = LoadSettings(disk, [s \in Sims |-> Orphaned(mgr.calls[s])])
    /\ links' = {}
    /\ ready' = {}
    /\ modemSim' = [p \in Paths |-> NoSim]
    /\ slot' = [s \in Sims |-> NoPath]
    /\ initial' = [s \in Sims |-> "unset"]
    /\ proxy' = [s \in Sims |-> FALSE]
    /\ wrapper' = [p \in Paths |-> NoWrapper]
    /\ timer' = TRUE
    /\ UNCHANGED <<cardAt, powered, disk>>

----------------------------------------------------------------------------
(* What the surroundings may do: modems come and go ("modem"), their SIM   *)
(* interface does ("interface"), cards are moved ("card"), another client  *)
(* changes Powered ("other").                                              *)
FaultKinds == {"modem", "interface", "card", "other"}

Fault(kind) ==
    \/ kind = "modem" /\ \E p \in Paths : ModemRemoved(p)
    \/ kind = "interface" /\ \E p \in Paths : SimManagerRemoved(p)
    \/ kind = "card" /\ \E p \in Paths : CardRemoved(p)
    \/ kind = "other" /\ \E s \in Sims : PoweredByOther(s)

Regular ==
    \/ CheckSimForMobileData
    \/ Sync
    \/ Restart
    \/ \E v \in Switches : ClientSetsEnabled(v)
    \/ \E s \in SimChoices : ClientSetsSim(s)
    \/ \E s \in Sims : OfonoAnswers(s)
    \/ \E s \in Sims, p \in Paths : CardInserted(s, p)
    \/ \E p \in Paths :
          \/ ModemAdded(p)
          \/ SimManagerAdded(p)
          \/ ModemReady(p)
          \/ CardSeen(p)
          \/ CardRead(p)

Next == Regular \/ \E kind \in FaultKinds : Fault(kind)

Spec == Init /\ [][Next]_vars

(* The timer fires and ofono answers. *)
Fairness ==
    /\ WF_vars(CheckSimForMobileData)
    /\ \A s \in Sims : WF_vars(OfonoAnswers(s))

----------------------------------------------------------------------------
(* Properties. *)

(* Every variable has its type. *)
TypeOK ==
    /\ mgr \in Mgr
    /\ links \subseteq Paths
    /\ ready \subseteq links
    /\ modemSim \in [Paths -> Sims \cup {NoSim}]
    /\ slot \in [Sims -> Paths \cup {NoPath}]
    /\ initial \in [Sims -> {"unset", "on", "off"}]
    /\ proxy \in [Sims -> BOOLEAN]
    /\ wrapper \in [Paths -> Wrapper]
    /\ timer \in BOOLEAN
    /\ cardAt \in [Sims -> Paths \cup {NoPath}]
    /\ powered \in [Sims -> BOOLEAN]
    /\ disk \in Settings \cup {Unset}
    /\ restarts \in Nat

(* At most one SIM is given mobile data, the chosen one, whatever SIMs     *)
(* were swapped, chosen or detected before: setSimForMobileData() takes it *)
(* from the old SIM first, also from one that is absent.                   *)
OnlyChosenSim == \A s \in Sims : mgr.flag[s] => s = mgr.sim

(* What ofono will have Powered at once it has answered all calls. *)
LastWord(s) ==
    IF mgr.calls[s] = <<>> THEN powered[s] ELSE mgr.calls[s][Len(mgr.calls[s])] = "on"

(* wwan::Sim has the last word on Powered: whatever ofono had stored for   *)
(* the card and whatever its other clients do, the calls under way to the  *)
(* card of a present SIM end in the SIM's own value.                       *)
ForcedBack == \A s \in Sims : mgr.conn[s] => LastWord(s) = mgr.flag[s]

(* Every modem shows the SIM whose object points at it, and no SIM is on   *)
(* two modems: matchModemsAndSims() runs after every change of a SIM.      *)
ModemsMatched ==
    /\ \A p \in links : modemSim[p] = SimAt(slot, p)
    /\ \A s \in Sims : slot[s] # NoPath => slot[s] \in links /\ modemSim[slot[s]] = s
    /\ \A s \in Sims : mgr.conn[s] <=> slot[s] # NoPath

(* A SIM object has a proxy exactly while its card is in the modem that    *)
(* the object points at and the wrapper of that modem names it, so that    *)
(* its calls reach the card they are meant for; no two cards are mistaken  *)
(* for each other when they change places.                                 *)
Attached ==
    /\ \A s \in Sims : mgr.conn[s] =>
          /\ slot[s] \in links
          /\ cardAt[s] = slot[s]
          /\ wrapper[slot[s]].iccidSet
          /\ wrapper[slot[s]].iccid = s
    /\ \A p \in Paths : wrapper[p].iccidSet => wrapper[p].present
    /\ \A p \in Paths : wrapper[p].present => wrapper[p].there /\ CardIn(p) # NoSim

(* The settings that a restart would find once they are written are those  *)
(* in force, and the settings on disk, however old, name a known SIM, so   *)
(* that loadSettings() finds it again.                                     *)
SettingsKept ==
    /\ mgr.settings.enabled = mgr.enabled
    /\ mgr.settings.sim = mgr.sim
    /\ mgr.sim = NoSim \/ Known(mgr.sim)
    /\ disk # Unset => disk.sim = NoSim \/ disk.sim \in disk.known

(* A restart brings back the switch and the chosen SIM of the settings on  *)
(* disk, and the SIM gets data before any modem is there exactly if the    *)
(* switch is on.                                                           *)
RestartRestores ==
    [][restarts' # restarts /\ disk # Unset =>
         /\ mgr'.enabled = disk.enabled
         /\ mgr'.sim = disk.sim
         /\ \A s \in Sims : mgr'.flag[s] <=> s = disk.sim /\ disk.enabled]_vars

(* Only one SIM is there, and it is not the chosen one. *)
LoneSimUnused ==
    ~Present(mgr.sim) /\ Cardinality({p \in ready : modemSim[p] # NoSim}) = 1

(* When the chosen SIM is gone and only one other is left on a modem that  *)
(* is ready, checkSimForMobileData() chooses it in the end: every event    *)
(* that can lead there starts its timer.                                   *)
LoneSimChosen == LoneSimUnused ~> ~LoneSimUnused

(* The switch governs every SIM: while it is off, no SIM on a modem that   *)
(* is ready has data, so that ofono is not made to power it.               *)
SwitchGoverns ==
    ~mgr.enabled => \A s \in Carried(modemSim, ready) : ~mgr.flag[s]

=============================================================================
