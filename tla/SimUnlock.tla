------------------------------ MODULE SimUnlock ------------------------------
(***************************************************************************)
(* Unlocking SIM cards: the unlock queue of the connection manager, the    *)
(* PIN/PUK dialog, the snap decision notification it drives, and the       *)
(* wwan::Modem objects that stand for the modems of ofono.                 *)
(*                                                                         *)
(* The indicator is one main loop, so each slot is one atomic action.      *)
(* What is concurrent with it is ofono (which owns the SIM cards and       *)
(* answers EnterPin/ResetPin), the shell that shows the notification and   *)
(* sends the user's answers over D-Bus, and the 0 ms timer that throttles  *)
(* a modem's updates.  A modem object is identified by a member of Modems; *)
(* when ofono removes a modem and adds it again, a new object is created   *)
(* for the same path while the dialog may still hold the old one.          *)
(***************************************************************************)
EXTENDS Integers, Sequences, SequencesExt

CONSTANTS
    Paths,          \* ofono object paths, the keys of m_ofonoLinks
    PathOrder,      \* the paths in key order, as a QMap iterates over them
    Modems,         \* identities of wwan::Modem objects
    PathOf,         \* the path each modem object was created for
    NoModem,        \* the null wwan::Modem::Ptr of an idle dialog
    Absent,         \* a path that is no key of m_ofonoLinks
    Null,           \* a key of m_ofonoLinks whose value is a null pointer
    Codes,          \* PIN and PUK codes a user may type
    NoCode,         \* an empty QString
    Nothing,        \* no prompt on the shell's screen
    MaxPin, MaxPuk, \* attempts a fresh SIM card grants
    MaxOutstanding  \* bound: answers of the user that are still under way

ASSUME ConstantsAssumption ==
    /\ PathOrder \in Seq(Paths)
    /\ PathOf \in [Modems -> Paths]
    /\ NoModem \notin Modems
    /\ Absent \notin Modems
    /\ Null \notin Modems
    /\ Absent # Null
    /\ NoCode \notin Codes
    /\ Nothing \notin [modem : Modems, asks : {"pin", "puk", "newPin", "confirmPin"}]
    /\ MaxPin \in Nat \ {0}
    /\ MaxPuk \in Nat \ {0}
    /\ MaxOutstanding \in Nat

VARIABLES
    links,          \* m_ofonoLinks
    pendingUnlocks, \* m_pendingUnlocks
    unlockAll,      \* paths the running unlockAllModems() has yet to visit
    dlgModem,       \* SimUnlockDialog: m_modem
    dlgState,       \* m_state
    enterPinState,  \* m_enterPinState
    newPin,         \* m_newPin
    pukCode,        \* m_pukCode
    pinRetries,     \* m_pinRetries
    pukRetries,     \* m_pukRetries
    connections,    \* modems whose signals are connected, m_connections
    sd,             \* the SimUnlock snap decision and what the shell shows
    obj,            \* the wwan::Modem objects with their ofono proxies
    card,           \* ofono: the SIM card behind each path
    shellUp,        \* the notification server runs
    shellMsgs,      \* the user's answers on their way to the indicator
    crashed         \* "no", or what ended the process

dialogVars == <<dlgModem, dlgState, enterPinState, newPin, pukCode,
                pinRetries, pukRetries, connections>>
managerVars == <<links, pendingUnlocks, unlockAll>>
vars == <<managerVars, dialogVars, sd, obj, card, shellUp, shellMsgs, crashed>>

----------------------------------------------------------------------------
(* Types. *)

PinType == {"none", "pin", "puk"}

(* m_requiredPin is read before the first update() has written it: until   *)
(* then it has whatever value the allocated memory holds, "garbage" being  *)
(* one that is no enumerator.                                              *)
RequiredPin == PinType \cup {"garbage"}

EnterPinStates == {"initial", "enterPin", "enterPuk", "enterNewPin", "confirmNewPin"}

Ops == {"enterPin", "resetPin"}
Reply == [op : Ops, ok : BOOLEAN]

(* A retry map, -2 standing for a missing entry and -1 for a negative one; *)
(* set is m_retriesSet, which a negative entry or a missing SimManager     *)
(* clears and an empty map does not.                                       *)
Retries == [pin : -2..MaxPin, puk : -2..MaxPuk, set : BOOLEAN]
EmptyRetries(isSet) == [pin |-> -2, puk |-> -2, set |-> isSet]
NegativeRetries == [pin |-> -1, puk |-> -1, set |-> FALSE]

(* What the dialog makes of an entry: -1 if there is none. *)
Known(count) == IF count = -2 THEN -1 ELSE count

Card == [lock : PinType, pin : 0..MaxPin, puk : 0..MaxPuk]

Modem == [simManager : BOOLEAN, requiredPin : RequiredPin, retries : Retries,
          updatedTimer : BOOLEAN, shouldTriggerUnlock : BOOLEAN,
          calls : Seq(Ops), replies : Seq(Reply)]

Prompt == [modem : Modems, asks : {"pin", "puk", "newPin", "confirmPin"}]
Popup == {"", "lastPin", "pinBlocked", "lastPuk", "permanentlyBlocked"}
Callback == {"none", "nop", "lastPuk", "close"}
SnapDecision == [popup : Popup, popupClosed : Callback, open : BOOLEAN,
                 screen : Prompt \cup {Nothing}]

Message == [kind : {"pin"}, code : Codes]
             \cup [kind : {"cancel", "popup"}, code : {NoCode}]

(* A modem object right after construction, before its first update(). *)
Fresh(type) == [simManager |-> FALSE, requiredPin |-> type, retries |-> EmptyRetries(FALSE),
                updatedTimer |-> FALSE, shouldTriggerUnlock |-> FALSE,
                calls |-> <<>>, replies |-> <<>>]
Destroyed == Fresh("none")

----------------------------------------------------------------------------
(* State predicates of the code. *)

InQueue(m) == \E i \in 1..Len(pendingUnlocks) : pendingUnlocks[i] = m

(* m is what m_ofonoLinks holds for its path. *)
Linked(m) == links[PathOf[m]] = m

(* The object exists: its owners are m_ofonoLinks and the dialog. *)
Alive(m) == Linked(m) \/ dlgModem = m

(* Modem::isReadyToUnlock().  m_simStatusSet and m_requiredPinSet are both *)
(* TRUE exactly while there is a SimManager.                               *)
IsReadyToUnlock(m) ==
    /\ obj[m].simManager
    /\ obj[m].retries.set
    /\ obj[m].requiredPin # "none"

----------------------------------------------------------------------------
(* The snap decision (SimUnlock) and the notification under it.  The error *)
(* line is left out: showError() is only called without a callback, so no  *)
(* control depends on it.                                                  *)

(* Notification::close(): without a server the call fails, m_open stays. *)
CloseNotification(s) ==
    IF shellUp THEN [s EXCEPT !.open = FALSE, !.screen = Nothing] ELSE s

(* The popup's pending callback is taken off first, then run: it shows the *)
(* last-PUK popup, closes the snap decision, or does nothing.              *)
RunPopupClosed(s) ==
    LET t == [s EXCEPT !.popupClosed = "none"]
    IN  CASE s.popupClosed = "lastPuk" -> [t EXCEPT !.popup = "lastPuk"]
          [] s.popupClosed = "close"   -> CloseNotification([t EXCEPT !.popup = ""])
          [] OTHER                     -> t

ResetActionStates(s) == RunPopupClosed([s EXCEPT !.popup = ""])

CloseSd(s) == CloseNotification(ResetActionStates(s))

ShowPopup(s, popup, closed) ==
    [RunPopupClosed([s EXCEPT !.popup = popup]) EXCEPT !.popupClosed = closed]

(* SimUnlock::show().  update() clears the title before it sets it again,  *)
(* so the notification is dirty and Notify is always called.               *)
Show(s, prompt) ==
    IF shellUp THEN [s EXCEPT !.open = TRUE, !.screen = prompt] ELSE s

----------------------------------------------------------------------------
(* The dialog (SimUnlockDialog::Private). *)

UpdatedStep_Same(step, type) == step

(* update(): from the PIN query to the PUK query. *)
UpdatedStep(step, type) ==
    IF step = "enterPin" /\ type = "puk" THEN "enterPuk" ELSE step

Asks(step, type) ==
    CASE step = "enterNewPin"   -> "newPin"
      [] step = "confirmNewPin" -> "confirmPin"
      [] OTHER                  -> type

UpdatedSd_AsksAlways(s, m, step, type) ==
    IF step = "initial" THEN s ELSE Show(s, [modem |-> m, asks |-> Asks(step, type)])

(* update() once the step is known: nothing to ask initially, nor when no  *)
(* PIN is required any more.                                               *)
UpdatedSd(s, m, step, type) ==
    IF step = "initial" \/ (step \in {"enterPin", "enterPuk"} /\ type = "none")
    THEN s
    ELSE Show(s, [modem |-> m, asks |-> Asks(step, type)])

(* setRequiredPin() and setRetries() emit only what has changed. *)
Emits(m) ==
    \/ obj'[m].requiredPin # obj[m].requiredPin
    \/ obj'[m].retries.pin # obj[m].retries.pin
    \/ obj'[m].retries.puk # obj[m].retries.puk

(* update() as the slot of a modem's requiredPinUpdated and retriesUpdated *)
(* signals: m has changed, its new object is in obj'.                      *)
UpdateSlot(m) ==
    IF m \in connections /\ dlgModem # NoModem /\ Emits(m)
    THEN LET type == obj'[dlgModem].requiredPin
             step == UpdatedStep(enterPinState, type)
         IN  /\ enterPinState' = step
             /\ sd' = UpdatedSd(sd, dlgModem, step, type)
    ELSE UNCHANGED <<enterPinState, sd>>

(* The popups unlock() reminds the user with. *)
Reminded(s, o) ==
    CASE o.requiredPin = "pin" /\ o.retries.pin = 1 -> ShowPopup(s, "lastPin", "none")
      [] o.requiredPin = "puk" /\ o.retries.puk = 0 ->
             ShowPopup(s, "permanentlyBlocked", "close")
      [] o.requiredPin = "puk" /\ o.retries.puk # 0 ->
             ShowPopup(s, "pinBlocked", IF o.retries.puk = 1 THEN "lastPuk" ELSE "nop")
      [] OTHER -> s

(* unlock(): its switch has no default, so a garbage type leaves the step  *)
(* as it is.  Both callers have made sure that the type is not none and    *)
(* that m_modem is null, so these two branches are never taken.            *)
FirstStep(step, type) ==
    CASE type = "pin" -> "enterPin"
      [] type = "puk" -> "enterPuk"
      [] OTHER        -> step

Unlock(m, step, conns, s) ==
    LET o == obj[m]
        first == FirstStep(step, o.requiredPin)
    IN  /\ dlgModem' = m
        /\ dlgState' = "unlocking"
        /\ connections' = conns \cup {m}
        /\ enterPinState' = UpdatedStep(first, o.requiredPin)
        /\ sd' = UpdatedSd(Reminded(s, o), m, UpdatedStep(first, o.requiredPin), o.requiredPin)

DisconnectedAll_Kept(conns) == conns

(* reset() disconnects the signals of the modem it gives up. *)
DisconnectedAll(conns) == {}

ReadyUnlocks_Inverted ==
    pendingUnlocks # <<>> /\ obj[Head(pendingUnlocks)].requiredPin = "none"

(* sim_unlock_ready() looks at one queued modem only. *)
ReadyUnlocks == pendingUnlocks # <<>> /\ obj[Head(pendingUnlocks)].requiredPin # "none"

RemainingUnlocks == IF pendingUnlocks = <<>> THEN <<>> ELSE Tail(pendingUnlocks)

(* An object that only the dialog held on to dies with reset(). *)
Released(o) ==
    IF dlgModem \in Modems /\ ~Linked(dlgModem)
    THEN [o EXCEPT ![dlgModem] = Destroyed]
    ELSE o

(* reset() with the ready() signal it emits, which sim_unlock_ready()      *)
(* answers by unlocking the next modem before reset() returns.             *)
Reset(s) ==
    /\ newPin' = NoCode
    /\ pukCode' = NoCode
    /\ pendingUnlocks' = RemainingUnlocks
    /\ IF ReadyUnlocks
       THEN Unlock(Head(pendingUnlocks), "initial", DisconnectedAll(connections), s)
       ELSE /\ dlgModem' = NoModem
            /\ dlgState' = "ready"
            /\ enterPinState' = "initial"
            /\ connections' = DisconnectedAll(connections)
            /\ sd' = s

----------------------------------------------------------------------------
(* Requests to unlock (ManagerImpl). *)

Eligible_Twice(m) == Linked(m) /\ dlgModem # m
Eligible_NotWaiting(m) ==
    Linked(m) /\ dlgModem # m /\ ~InQueue(m) /\ ~obj[m].shouldTriggerUnlock

Eligible(m) == Linked(m) /\ dlgModem # m /\ ~InQueue(m)

UnlockNow(m) ==
    /\ Eligible(m)
    /\ dlgState = "ready" /\ pendingUnlocks = <<>>
    /\ IsReadyToUnlock(m)
    /\ Unlock(m, enterPinState, connections, sd)
    /\ UNCHANGED <<pendingUnlocks, newPin, pukCode>>

(* notifyWhenReadyToUnlock() *)
UnlockWhenReady(m) ==
    /\ Eligible(m)
    /\ dlgState = "ready" /\ pendingUnlocks = <<>>
    /\ ~IsReadyToUnlock(m)

UnlockLater(m) ==
    /\ Eligible(m)
    /\ dlgState # "ready" \/ pendingUnlocks # <<>>
    /\ pendingUnlocks' = Append(pendingUnlocks, m)
    /\ UNCHANGED <<dlgModem, dlgState, enterPinState, connections, sd, newPin, pukCode>>

(* unlockModem(): o is the state of the objects when it is called. *)
RequestUnlock(m, o) ==
    \/ UnlockNow(m) /\ obj' = o
    \/ /\ UnlockWhenReady(m)
       /\ obj' = [o EXCEPT ![m].shouldTriggerUnlock = TRUE]
       /\ UNCHANGED <<pendingUnlocks, dlgModem, dlgState, enterPinState, connections,
                      sd, newPin, pukCode>>
    \/ UnlockLater(m) /\ obj' = o
    \/ /\ ~Eligible(m)
       /\ obj' = o
       /\ UNCHANGED <<pendingUnlocks, dlgModem, dlgState, enterPinState, connections,
                      sd, newPin, pukCode>>

(* unlockModemByName(), or the unlock button of the modem's menu item. *)
UnlockModem(m) ==
    /\ Linked(m)
    /\ RequestUnlock(m, obj)
    /\ UNCHANGED <<links, unlockAll, pinRetries, pukRetries, card, shellUp, shellMsgs, crashed>>

(* unlockAllModems() is one handler: between its start and the end of its  *)
(* loop no other handler of the indicator runs (see Next).                 *)
UnlockAllModems ==
    /\ unlockAll' = PathOrder
    /\ UNCHANGED <<links, pendingUnlocks, dialogVars, sd, obj, card, shellUp, shellMsgs, crashed>>

UnlockAllStep ==
    LET p == Head(unlockAll)
        m == links[p]
    IN  /\ \/ /\ m \in Modems
              /\ unlockAll' = Tail(unlockAll)
              /\ RequestUnlock(m, obj)
              /\ crashed' = crashed
           \/ /\ m = Absent
              /\ unlockAll' = Tail(unlockAll)
              /\ UNCHANGED <<pendingUnlocks, dlgModem, dlgState, enterPinState, connections,
                             sd, newPin, pukCode, obj, crashed>>
           \/ /\ m = Null            \* modem->simIdentifier() of a null pointer
              /\ crashed' = "null"
              /\ UNCHANGED <<unlockAll, pendingUnlocks, dlgModem, dlgState, enterPinState,
                             connections, sd, newPin, pukCode, obj>>
        /\ UNCHANGED <<links, pinRetries, pukRetries, card, shellUp, shellMsgs>>

----------------------------------------------------------------------------
(* Modems that come and go: modems_changed(), one path at a time. *)

ModemAdded(p) ==
    /\ links[p] = Absent
    /\ \E m \in Modems, type \in RequiredPin :
          /\ PathOf[m] = p
          /\ ~Alive(m)
          /\ links' = [links EXCEPT ![p] = m]
          /\ obj' = [obj EXCEPT ![m] = Fresh(type)]
    /\ UNCHANGED <<pendingUnlocks, unlockAll, dialogVars, sd, card, shellUp, shellMsgs, crashed>>

QueueIndex(m) == CHOOSE i \in 1..Len(pendingUnlocks) : pendingUnlocks[i] = m

ModemRemoved(p) ==
    LET m == links[p]
    IN  /\ m # Absent
        /\ links' = [links EXCEPT ![p] = Absent]
        /\ IF m \in Modems /\ InQueue(m)
           THEN /\ sd' = CloseSd(sd)
                /\ pendingUnlocks' = RemoveAt(pendingUnlocks, QueueIndex(m))
           ELSE UNCHANGED <<sd, pendingUnlocks>>
        /\ obj' = IF m \in Modems /\ dlgModem # m
                  THEN [obj EXCEPT ![m] = Destroyed] ELSE obj
        /\ UNCHANGED <<unlockAll, dialogVars, card, shellUp, shellMsgs, crashed>>

----------------------------------------------------------------------------
(* Signals of ofono, each of which runs Modem::Private::update(). *)

ModemUnchanged == UNCHANGED <<managerVars, dlgModem, dlgState, newPin, pukCode,
                              pinRetries, pukRetries, connections, card, shellUp,
                              shellMsgs, crashed>>

PinRequiredChanged_NoTimer(m) ==
    LET lock == card[PathOf[m]].lock
    IN  /\ Linked(m) /\ obj[m].simManager
        /\ obj[m].requiredPin # lock
        /\ obj' = [obj EXCEPT ![m].requiredPin = lock]
        /\ UpdateSlot(m)
        /\ ModemUnchanged

PinRequiredChanged(m) ==
    LET lock == card[PathOf[m]].lock
    IN  /\ Linked(m) /\ obj[m].simManager
        /\ obj[m].requiredPin # lock
        /\ obj' = [obj EXCEPT ![m] = [@ EXCEPT !.requiredPin = lock, !.updatedTimer = TRUE]]
        /\ UpdateSlot(m)
        /\ ModemUnchanged

CardRetries(p) == [pin |-> card[p].pin, puk |-> card[p].puk, set |-> TRUE]

PinRetriesChanged(m, r) ==
    /\ Linked(m) /\ obj[m].simManager
    /\ obj[m].retries # r
    /\ obj' = [obj EXCEPT ![m] = [@ EXCEPT !.retries = r, !.updatedTimer = TRUE]]
    /\ UpdateSlot(m)
    /\ ModemUnchanged

(* interfacesChanged() with the SimManager interface: the new proxy has    *)
(* not fetched its properties yet.                                         *)
SimManagerAdded(m) ==
    /\ Linked(m) /\ ~obj[m].simManager
    /\ obj' = [obj EXCEPT ![m] = [@ EXCEPT !.simManager = TRUE, !.requiredPin = "none",
                                           !.retries = EmptyRetries(TRUE),
                                           !.updatedTimer = TRUE]]
    /\ UpdateSlot(m)
    /\ ModemUnchanged

(* ... and without it: the proxy is gone, and with it the answers to its   *)
(* calls.                                                                  *)
SimManagerRemoved(m) ==
    /\ Alive(m) /\ obj[m].simManager
    /\ obj' = [obj EXCEPT ![m] = [@ EXCEPT !.simManager = FALSE, !.requiredPin = "none",
                                           !.retries = EmptyRetries(FALSE),
                                           !.updatedTimer = TRUE,
                                           !.calls = <<>>, !.replies = <<>>]]
    /\ UpdateSlot(m)
    /\ ModemUnchanged

(* Any other property of the modem (serial, online, registration). *)
OtherPropertyChanged(m) ==
    /\ Linked(m) /\ ~obj[m].updatedTimer
    /\ LET type == IF obj[m].simManager THEN obj[m].requiredPin ELSE "none"
       IN  obj' = [obj EXCEPT ![m] = [@ EXCEPT !.requiredPin = type, !.updatedTimer = TRUE]]
    /\ UpdateSlot(m)
    /\ ModemUnchanged

(* fireUpdate() with readyToUnlock(), which modemReadyToUnlock() answers   *)
(* by looking the name up with m_ofonoLinks[name]: a missing key is        *)
(* inserted with a null pointer.                                           *)
FireUpdate(m) ==
    LET p == PathOf[m]
        trigger == IsReadyToUnlock(m) /\ obj[m].shouldTriggerUnlock
        waits == obj[m].shouldTriggerUnlock /\ ~trigger
        o == [obj EXCEPT ![m] = [@ EXCEPT !.updatedTimer = FALSE,
                                          !.shouldTriggerUnlock = waits]]
    IN  /\ Alive(m) /\ obj[m].updatedTimer
        /\ links' = IF trigger /\ links[p] = Absent THEN [links EXCEPT ![p] = Null] ELSE links
        /\ IF trigger /\ links[p] \in Modems
           THEN RequestUnlock(links[p], o)
           ELSE /\ obj' = o
                /\ UNCHANGED <<pendingUnlocks, dlgModem, dlgState, enterPinState,
                               connections, sd, newPin, pukCode>>
        /\ UNCHANGED <<unlockAll, pinRetries, pukRetries, card, shellUp, shellMsgs, crashed>>

----------------------------------------------------------------------------
(* Answers of ofono to EnterPin and ResetPin. *)

TakeReply(m) == [obj EXCEPT ![m].replies = Tail(@)]

(* pinSuccess(), for a correct PIN as for a correct PUK. *)
PinSuccess(m) ==
    /\ Alive(m) /\ obj[m].replies # <<>> /\ Head(obj[m].replies).ok
    /\ m \in connections
    /\ obj' = Released(TakeReply(m))
    /\ Reset(CloseSd(sd))
    /\ UNCHANGED <<links, unlockAll, pinRetries, pukRetries, card, shellUp, shellMsgs, crashed>>

(* The popup enterPinFailed() shows once the count is decremented. *)
PinFailedSd(s, count) ==
    CASE count = 1 -> ShowPopup(s, "lastPin", "none")
      [] count = 0 -> ShowPopup(s, "pinBlocked", "none")
      [] OTHER     -> s

EnterPinFailed(m) ==
    LET type == obj[dlgModem].requiredPin
        step == UpdatedStep(enterPinState, type)
    IN  /\ Alive(m) /\ obj[m].replies # <<>>
        /\ Head(obj[m].replies) = [op |-> "enterPin", ok |-> FALSE]
        /\ m \in connections
        /\ obj' = TakeReply(m)
        /\ pinRetries' = pinRetries - 1
        /\ enterPinState' = step
        /\ sd' = UpdatedSd(PinFailedSd(sd, pinRetries - 1), dlgModem, step, type)
        /\ UNCHANGED <<managerVars, dlgModem, dlgState, newPin, pukCode, pukRetries,
                       connections, card, shellUp, shellMsgs, crashed>>

PukFailedSd(s, count) ==
    CASE count = 1 -> ShowPopup(s, "lastPuk", "none")
      [] count = 0 -> ShowPopup(s, "permanentlyBlocked", "close")
      [] OTHER     -> s

ResetPinFailed(m) ==
    LET type == obj[dlgModem].requiredPin
    IN  /\ Alive(m) /\ obj[m].replies # <<>>
        /\ Head(obj[m].replies) = [op |-> "resetPin", ok |-> FALSE]
        /\ m \in connections
        /\ obj' = TakeReply(m)
        /\ pukRetries' = pukRetries - 1
        /\ enterPinState' = "enterPuk"
        /\ pukCode' = NoCode
        /\ newPin' = NoCode
        /\ sd' = UpdatedSd(PukFailedSd(sd, pukRetries - 1), dlgModem, "enterPuk", type)
        /\ UNCHANGED <<managerVars, dlgModem, dlgState, pinRetries, connections, card,
                       shellUp, shellMsgs, crashed>>

(* An answer for a modem the dialog has given up reaches nobody. *)
ReplyIgnored(m) ==
    /\ Alive(m) /\ obj[m].replies # <<>>
    /\ m \notin connections
    /\ obj' = TakeReply(m)
    /\ UNCHANGED <<managerVars, dialogVars, sd, card, shellUp, shellMsgs, crashed>>

----------------------------------------------------------------------------
(* Answers of the user, as the exported actions of the snap decision       *)
(* receive them.                                                           *)

NextMessage(kind) == shellMsgs # <<>> /\ Head(shellMsgs).kind = kind

(* What pinEntered() does with a code, by the dialog's step. *)

(* assert(0), with a comment that this should never happen. *)
PinEnteredInitial ==
    /\ enterPinState = "initial"
    /\ crashed' = "assert"
    /\ UNCHANGED <<managerVars, dialogVars, sd, obj>>

(* Modem::enterPin() and resetPin() throw without a SimManager, and no     *)
(* slot on the way to the main loop catches the exception.                 *)
SendThrows ==
    /\ ~obj[dlgModem].simManager
    /\ crashed' = "throw"
    /\ UNCHANGED <<managerVars, dialogVars, sd, obj>>

SendEnterPin ==
    /\ obj[dlgModem].simManager
    /\ pinRetries' = Known(obj[dlgModem].retries.pin)
    /\ obj' = [obj EXCEPT ![dlgModem].calls = Append(@, "enterPin")]
    /\ UNCHANGED <<managerVars, dlgModem, dlgState, enterPinState, newPin, pukCode,
                   pukRetries, connections, sd, crashed>>

SendResetPin ==
    /\ obj[dlgModem].simManager
    /\ pukRetries' = Known(obj[dlgModem].retries.puk)
    /\ obj' = [obj EXCEPT ![dlgModem].calls = Append(@, "resetPin")]
    /\ UNCHANGED <<managerVars, dlgModem, dlgState, enterPinState, newPin, pukCode,
                   pinRetries, connections, sd, crashed>>

(* A code is stored and the next one asked for. *)
Advance(step, puk, pin) ==
    /\ enterPinState' = step
    /\ pukCode' = puk
    /\ newPin' = pin
    /\ sd' = UpdatedSd(sd, dlgModem, step, obj[dlgModem].requiredPin)
    /\ UNCHANGED <<managerVars, dlgModem, dlgState, pinRetries, pukRetries, connections,
                   obj, crashed>>

PinEntered ==
    LET code == Head(shellMsgs).code
    IN  /\ NextMessage("pin")
        /\ \/ PinEnteredInitial
           \/ enterPinState = "enterPin" /\ (SendEnterPin \/ SendThrows)
           \/ enterPinState = "enterPuk" /\ Advance("enterNewPin", code, newPin)
           \/ enterPinState = "enterNewPin" /\ Advance("confirmNewPin", pukCode, code)
           \/ /\ enterPinState = "confirmNewPin" /\ newPin # code
              /\ Advance("enterNewPin", pukCode, NoCode)
           \/ /\ enterPinState = "confirmNewPin" /\ newPin = code
              /\ SendResetPin \/ SendThrows
        /\ shellMsgs' = Tail(shellMsgs)
        /\ UNCHANGED <<card, shellUp>>

(* notifyActivated(false): close() and then cancelled(). *)
Cancelled ==
    /\ NextMessage("cancel")
    /\ shellMsgs' = Tail(shellMsgs)
    /\ obj' = Released(obj)
    /\ Reset(CloseSd(sd))
    /\ UNCHANGED <<links, unlockAll, pinRetries, pukRetries, card, shellUp, crashed>>

PopupActivated ==
    /\ NextMessage("popup")
    /\ shellMsgs' = Tail(shellMsgs)
    /\ sd' = ResetActionStates(sd)
    /\ UNCHANGED <<managerVars, dialogVars, obj, card, shellUp, crashed>>

----------------------------------------------------------------------------
(* The environment: the user in front of the shell, ofono, the session.    *)

Outstanding(m) == Len(obj[m].calls) + Len(obj[m].replies)

(* The user answers what is on the screen, and leaves it alone once it is  *)
(* dismissed.                                                              *)
UserAnswers ==
    /\ sd.screen # Nothing /\ shellUp
    /\ Len(shellMsgs) < MaxOutstanding
    /\ \A i \in 1..Len(shellMsgs) : shellMsgs[i].kind # "cancel"
    /\ \E msg \in Message :
          /\ msg.kind = "pin" => Len(shellMsgs) + Outstanding(sd.screen.modem) < MaxOutstanding
          /\ msg.kind = "popup" => sd.popup # ""
          /\ shellMsgs' = Append(shellMsgs, msg)
    /\ UNCHANGED <<managerVars, dialogVars, sd, obj, card, shellUp, crashed>>

(* The card's state after a PIN or a PUK was tried on it. *)
Tried(c, op, right) ==
    CASE op = "enterPin" /\ c.lock = "pin" /\ right ->
             [c EXCEPT !.lock = "none", !.pin = MaxPin]
      [] op = "enterPin" /\ c.lock = "pin" /\ ~right ->
             [c EXCEPT !.lock = IF c.pin <= 1 THEN "puk" ELSE "pin",
                       !.pin = IF c.pin = 0 THEN 0 ELSE c.pin - 1]
      [] op = "resetPin" /\ c.lock = "puk" /\ c.puk > 0 /\ right ->
             [lock |-> "none", pin |-> MaxPin, puk |-> MaxPuk]
      [] op = "resetPin" /\ c.lock = "puk" /\ c.puk > 0 /\ ~right ->
             [c EXCEPT !.puk = c.puk - 1]
      [] OTHER -> c

Accepts(c, op) ==
    \/ op = "enterPin" /\ c.lock = "pin"
    \/ op = "resetPin" /\ c.lock = "puk" /\ c.puk > 0

Answered(o, op, ok) ==
    [o EXCEPT !.calls = Tail(o.calls), !.replies = Append(o.replies, [op |-> op, ok |-> ok])]

(* ofono works off the calls of a modem; on a modem it has removed they    *)
(* fail.                                                                   *)
OfonoAnswers(m) ==
    LET op == Head(obj[m].calls)
        p == PathOf[m]
    IN  /\ obj[m].calls # <<>>
        /\ \E right \in BOOLEAN :
              LET ok == right /\ Linked(m) /\ Accepts(card[p], op)
              IN  /\ card' = IF Linked(m) THEN [card EXCEPT ![p] = Tried(@, op, right)] ELSE card
                  /\ obj' = [obj EXCEPT ![m] = Answered(obj[m], op, ok)]
        /\ UNCHANGED <<managerVars, dialogVars, sd, shellUp, shellMsgs, crashed>>

(* Another client unlocks the card, or the card is locked anew. *)
CardChanged(p) ==
    /\ \/ card[p].lock # "none" /\ card[p].puk > 0
          /\ card' = [card EXCEPT ![p] = [@ EXCEPT !.lock = "none", !.pin = MaxPin]]
       \/ card[p].lock = "none" /\ card' = [card EXCEPT ![p].lock = "pin"]
    /\ UNCHANGED <<managerVars, dialogVars, sd, obj, shellUp, shellMsgs, crashed>>

ShellStops ==
    /\ shellUp
    /\ shellUp' = FALSE
    /\ sd' = [sd EXCEPT !.screen = Nothing]
    /\ UNCHANGED <<managerVars, dialogVars, obj, card, shellMsgs, crashed>>

ShellStarts ==
    /\ ~shellUp
    /\ shellUp' = TRUE
    /\ UNCHANGED <<managerVars, dialogVars, sd, obj, card, shellMsgs, crashed>>

(* The NotificationClosed signal: only m_open follows it. *)
NotificationClosed ==
    /\ sd.screen # Nothing
    /\ sd' = [sd EXCEPT !.open = FALSE, !.screen = Nothing]
    /\ UNCHANGED <<managerVars, dialogVars, obj, card, shellUp, shellMsgs, crashed>>

----------------------------------------------------------------------------
(* The state of a new process. *)
IdleSd == [popup |-> "", popupClosed |-> "none", open |-> FALSE, screen |-> Nothing]

Init ==
    /\ links = [p \in Paths |-> Absent]
    /\ pendingUnlocks = <<>>
    /\ unlockAll = <<>>
    /\ dlgModem = NoModem
    /\ dlgState = "ready"
    /\ enterPinState = "initial"
    /\ newPin = NoCode
    /\ pukCode = NoCode
    /\ pinRetries = -1
    /\ pukRetries = -1
    /\ connections = {}
    /\ sd = IdleSd
    /\ obj = [m \in Modems |-> Destroyed]
    /\ card = [p \in Paths |-> [lock |-> "pin", pin |-> MaxPin, puk |-> MaxPuk]]
    /\ shellUp = TRUE
    /\ shellMsgs = <<>>
    /\ crashed = "no"

(* The session restarts the indicator; the cards are as they were. *)
Restart ==
    /\ crashed # "no"
    /\ links' = [p \in Paths |-> Absent]
    /\ pendingUnlocks' = <<>>
    /\ unlockAll' = <<>>
    /\ dlgModem' = NoModem
    /\ dlgState' = "ready"
    /\ enterPinState' = "initial"
    /\ newPin' = NoCode
    /\ pukCode' = NoCode
    /\ pinRetries' = -1
    /\ pukRetries' = -1
    /\ connections' = {}
    /\ sd' = IdleSd
    /\ obj' = [m \in Modems |-> Destroyed]
    /\ shellMsgs' = <<>>
    /\ crashed' = "no"
    /\ UNCHANGED <<card, shellUp>>

(* A slot of the indicator's main loop. *)
Handler ==
    \/ UnlockAllModems
    \/ PinEntered
    \/ Cancelled
    \/ PopupActivated
    \/ \E p \in Paths : ModemAdded(p)
    \/ \E m \in Modems :
          \/ UnlockModem(m)
          \/ PinRequiredChanged(m)
          \/ PinRetriesChanged(m, CardRetries(PathOf[m]))
          \/ SimManagerAdded(m)
          \/ OtherPropertyChanged(m)
          \/ FireUpdate(m)
          \/ PinSuccess(m)
          \/ EnterPinFailed(m)
          \/ ResetPinFailed(m)
          \/ ReplyIgnored(m)

Environment ==
    \/ UserAnswers
    \/ \E m \in Modems : OfonoAnswers(m)
    \/ ShellStarts

(* What the surroundings may do wrong: ofono removes a modem ("modem") or  *)
(* its SimManager interface ("interface"), reports negative retry counts   *)
(* ("retries"), lets another client lock or unlock a card ("card"); the    *)
(* notification server goes away ("shell") or closes the notification on   *)
(* its own ("close").                                                      *)
FaultKinds == {"modem", "interface", "retries", "card", "shell", "close"}

Fault(kind) ==
    \/ kind = "modem" /\ unlockAll = <<>> /\ \E p \in Paths : ModemRemoved(p)
    \/ kind = "interface" /\ unlockAll = <<>> /\ \E m \in Modems : SimManagerRemoved(m)
    \/ /\ kind = "retries" /\ unlockAll = <<>>
       /\ \E m \in Modems : PinRetriesChanged(m, NegativeRetries)
    \/ kind = "card" /\ \E p \in Paths : CardChanged(p)
    \/ kind = "shell" /\ ShellStops
    \/ kind = "close" /\ NotificationClosed

(* Everything but the faults. *)
Regular ==
    \/ crashed = "no" /\ unlockAll = <<>> /\ Handler
    \/ crashed = "no" /\ unlockAll # <<>> /\ UnlockAllStep
    \/ crashed = "no" /\ Environment
    \/ Restart

Next == Regular \/ \E kind \in FaultKinds : crashed = "no" /\ Fault(kind)

Spec == Init /\ [][Next]_vars

(* The user dismisses the prompt on the screen. *)
UserCancels == UserAnswers /\ shellMsgs'[Len(shellMsgs')].kind = "cancel"

InHandler(A) == crashed = "no" /\ unlockAll = <<>> /\ A

(* The event loop gets round to every event and timer that is due, also    *)
(* when others keep arriving, and the user dismisses prompts in the end.   *)
(* No request, answer, signal or fault is promised.                        *)
Fairness ==
    /\ WF_vars(crashed = "no" /\ unlockAll # <<>> /\ UnlockAllStep)
    /\ SF_vars(InHandler(Cancelled))
    /\ SF_vars(InHandler(PopupActivated))
    /\ SF_vars(InHandler(PinEntered))
    /\ \A m \in Modems : SF_vars(InHandler(FireUpdate(m)))
    /\ SF_vars(crashed = "no" /\ UserCancels)

----------------------------------------------------------------------------
(* Properties. *)

(* Every variable has its type; for the dialog this says that it never     *)
(* asks for a PIN type that Modem::Private has not written yet, nor for    *)
(* the PIN of a card that needs none.                                      *)
TypeOK ==
    /\ links \in [Paths -> Modems \cup {Absent, Null}]
    /\ pendingUnlocks \in Seq(Modems)
    /\ unlockAll \in Seq(Paths)
    /\ dlgModem \in Modems \cup {NoModem}
    /\ dlgState \in {"ready", "unlocking"}
    /\ enterPinState \in EnterPinStates
    /\ newPin \in Codes \cup {NoCode}
    /\ pukCode \in Codes \cup {NoCode}
    /\ pinRetries \in Int
    /\ pukRetries \in Int
    /\ connections \subseteq Modems
    /\ sd \in SnapDecision
    /\ obj \in [Modems -> Modem]
    /\ card \in [Paths -> Card]
    /\ shellUp \in BOOLEAN
    /\ shellMsgs \in Seq(Message)
    /\ crashed \in {"no", "assert", "throw", "null"}

(* The dialog hears the modem it is unlocking and no other one, whatever   *)
(* order of cancels, replies and nested unlocks led here: reset() has      *)
(* disconnected the signals of the modem it gave up before ready() lets    *)
(* the next one in, and an idle dialog has forgotten every code.           *)
DialogSound ==
    /\ dlgState = "ready" <=> dlgModem = NoModem
    /\ connections = {dlgModem} \ {NoModem}
    /\ dlgState = "ready" =>
          enterPinState = "initial" /\ newPin = NoCode /\ pukCode = NoCode

(* The queue holds modems that still exist, each once, and never the one   *)
(* that is being unlocked: unlockModem() and modems_changed() keep         *)
(* m_pendingUnlocks, m_ofonoLinks and the dialog apart.                    *)
QueueSound ==
    /\ \A i \in 1..Len(pendingUnlocks) :
          Linked(pendingUnlocks[i]) /\ pendingUnlocks[i] # dlgModem
    /\ \A i, j \in 1..Len(pendingUnlocks) :
          pendingUnlocks[i] = pendingUnlocks[j] => i = j

(* What the user is asked for is what the dialog does with the answer: the *)
(* prompt on the screen is about the modem being unlocked, a PUK is only   *)
(* asked for when the answer is taken as one, and only the answer to a     *)
(* question for the PIN is ever sent as a PIN.                             *)
PromptSound ==
    sd.screen # Nothing =>
       /\ sd.screen.modem = dlgModem
       /\ enterPinState # "initial"
       /\ sd.screen.asks = "puk" => enterPinState = "enterPuk"
       /\ enterPinState = "enterPin" => sd.screen.asks = "pin"

(* No request is lost: a queued modem leaves the queue for the dialog,     *)
(* because it is gone or because it needs no PIN any more; a modem that    *)
(* waits to become ready stops waiting only when the dialog or the queue   *)
(* has it, or it is gone.                                                  *)
RequestsKept ==
    [][crashed = "no" =>
         \A m \in Modems :
           /\ InQueue(m) /\ ~InQueue(m)' =>
                 dlgModem' = m \/ ~Linked(m)' \/ obj[m].requiredPin = "none"
           /\ obj[m].shouldTriggerUnlock /\ ~obj'[m].shouldTriggerUnlock =>
                 dlgModem' = m \/ InQueue(m)' \/ ~Linked(m)']_vars

(* A modem that waited to become ready and is, is taken up: its timer      *)
(* fires and readyToUnlock leads to unlockModem().                         *)
WaiterServed ==
    \A m \in Modems :
       (obj[m].shouldTriggerUnlock /\ IsReadyToUnlock(m))
          ~> ~(obj[m].shouldTriggerUnlock /\ IsReadyToUnlock(m))

(* A queued modem is offered to the user in the end, provided that the     *)
(* user dismisses every prompt on the screen in the end: reset() hands the *)
(* dialog to the next modem.  The promise ends where no prompt is left to  *)
(* dismiss, or where the modem needs no PIN any more.                      *)
QueueServed ==
    \A m \in Modems :
       InQueue(m) ~> \/ dlgModem = m
                     \/ obj[m].requiredPin = "none"
                     \/ dlgState = "unlocking" /\ sd.screen = Nothing

=============================================================================
