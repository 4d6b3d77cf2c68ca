--------------------------- MODULE SimUnlockProofs ---------------------------
(***************************************************************************)
(* Proofs about SimUnlock, for any number of modems, any codes and any     *)
(* number of attempts.                                                     *)
(***************************************************************************)
EXTENDS SimUnlock, TLAPS, SequenceTheorems

(* The state of a snap decision stays well-formed under the operations of  *)
(* SimUnlock and of the notification.                                      *)
LEMMA SdTypes ==
    ASSUME NEW s \in SnapDecision
    PROVE  /\ ResetActionStates(s) \in SnapDecision
           /\ CloseSd(s) \in SnapDecision
           /\ \A popup \in Popup, closed \in Callback :
                 ShowPopup(s, popup, closed) \in SnapDecision
           /\ \A prompt \in Prompt : Show(s, prompt) \in SnapDecision
<1>1. \A t \in SnapDecision : CloseNotification(t) \in SnapDecision
  BY DEF CloseNotification, SnapDecision
<1>2. \A t \in SnapDecision, u \in Popup :
         [t EXCEPT !.popup = u] \in SnapDecision
  BY DEF SnapDecision
<1>3. \A t \in SnapDecision, c \in Callback :
         [t EXCEPT !.popupClosed = c] \in SnapDecision
  BY DEF SnapDecision
<1>4. \A t \in SnapDecision : RunPopupClosed(t) \in SnapDecision
  <2> SUFFICES ASSUME NEW t \in SnapDecision
               PROVE  RunPopupClosed(t) \in SnapDecision
    OBVIOUS
  <2>1. [t EXCEPT !.popupClosed = "none"] \in SnapDecision
    BY <1>3 DEF Callback
  <2>2. "lastPuk" \in Popup /\ "" \in Popup
    BY DEF Popup
  <2> QED
    BY <1>1, <1>2, <2>1, <2>2 DEF RunPopupClosed
<1>5. \A t \in SnapDecision : ResetActionStates(t) \in SnapDecision
  BY <1>2, <1>4 DEF ResetActionStates, Popup
<1>6. CloseSd(s) \in SnapDecision
  BY <1>1, <1>5 DEF CloseSd
<1>7. \A popup \in Popup, closed \in Callback : ShowPopup(s, popup, closed) \in SnapDecision
  BY <1>2, <1>3, <1>4 DEF ShowPopup
<1>8. \A prompt \in Prompt : Show(s, prompt) \in SnapDecision
  BY DEF Show, SnapDecision
<1> QED
  BY <1>5, <1>6, <1>7, <1>8

(* The snap decision stays well-formed under the dialog's update(), as     *)
(* long as the dialog does not ask for a garbage PIN type.                 *)
LEMMA UpdatedSdType ==
    ASSUME NEW s \in SnapDecision, NEW m \in Modems, NEW step \in EnterPinStates,
           NEW type \in RequiredPin, step # "initial" => type \in PinType
    PROVE  UpdatedSd(s, m, step, type) \in SnapDecision
<1>1. CASE step = "initial" \/ (step \in {"enterPin", "enterPuk"} /\ type = "none")
  BY <1>1 DEF UpdatedSd
<1>2. CASE ~(step = "initial" \/ (step \in {"enterPin", "enterPuk"} /\ type = "none"))
  <2>1. Asks(step, type) \in {"pin", "puk", "newPin", "confirmPin"}
    BY <1>2 DEF Asks, EnterPinStates, PinType
  <2>2. [modem |-> m, asks |-> Asks(step, type)] \in Prompt
    BY <2>1 DEF Prompt
  <2> QED
    BY <1>2, <2>2, SdTypes DEF UpdatedSd
<1> QED
  BY <1>1, <1>2

(* The popups that unlock() shows keep the snap decision well-formed. *)
LEMMA RemindedType ==
    ASSUME NEW s \in SnapDecision, NEW o \in Modem
    PROVE  Reminded(s, o) \in SnapDecision
<1>1. \A popup \in Popup, closed \in Callback : ShowPopup(s, popup, closed) \in SnapDecision
  BY SdTypes
<1>2. {"lastPin", "permanentlyBlocked", "pinBlocked"} \subseteq Popup
  BY DEF Popup
<1>3. {"none", "close", "lastPuk", "nop"} \subseteq Callback
  BY DEF Callback
<1> QED
  BY <1>1, <1>2, <1>3 DEF Reminded

----------------------------------------------------------------------------
(* The inductive invariant.  TypeOK is not inductive by itself: the dialog *)
(* would ask for a garbage PIN type if it could leave its initial step for *)
(* a modem whose m_requiredPin was never written.  It can not, because a   *)
(* modem with a SimManager, or with a call under way, has been updated.    *)
StepDefined == enterPinState # "initial" => obj[dlgModem].requiredPin \in PinType

Busy(r) == r.simManager \/ r.calls # <<>> \/ r.replies # <<>>
Updated(o) == \A m \in Modems : Busy(o[m]) => o[m].requiredPin \in PinType

IInv == TypeOK /\ DialogSound /\ QueueSound /\ StepDefined /\ Updated(obj)

(* The invariant holds in a new process. *)
LEMMA InitIInv == Init => IInv
<1> SUFFICES ASSUME Init PROVE IInv
  OBVIOUS
<1> USE ConstantsAssumption DEF Init
<1>1. Destroyed \in Modem
  BY DEF Destroyed, Fresh, Modem, RequiredPin, PinType, Retries, EmptyRetries
<1>2. IdleSd \in SnapDecision
  BY DEF IdleSd, SnapDecision, Popup, Callback
<1>3. TypeOK
  BY <1>1, <1>2 DEF TypeOK, EnterPinStates, Card, PinType
<1>4. DialogSound /\ QueueSound /\ StepDefined
  BY DEF DialogSound, QueueSound, StepDefined
<1>5. Updated(obj)
  BY DEF Updated, Destroyed, Fresh, PinType
<1> QED
  BY <1>3, <1>4, <1>5 DEF IInv

(* The modem objects after one of them has changed to a state in which its *)
(* PIN type is written if it has to be.                                    *)
LEMMA ObjTypes ==
    ASSUME NEW o \in [Modems -> Modem], Updated(o), NEW m \in Modems, NEW r \in Modem,
           Busy(r) => r.requiredPin \in PinType
    PROVE  /\ [o EXCEPT ![m] = r] \in [Modems -> Modem]
           /\ Updated([o EXCEPT ![m] = r])
           /\ [o EXCEPT ![m] = r][m] = r
           /\ \A n \in Modems \ {m} : [o EXCEPT ![m] = r][n] = o[n]
BY DEF Updated

(* A destroyed object is one in which nothing is pending. *)
LEMMA DestroyedType ==
    Destroyed \in Modem /\ ~Busy(Destroyed) /\ Destroyed.requiredPin \in PinType
BY ConstantsAssumption
   DEF Destroyed, Fresh, Modem, RequiredPin, PinType, Retries, EmptyRetries, Busy, Ops, Reply

(* unlock() on a modem other than the one given up, when its caller has    *)
(* checked that a PIN is required.                                         *)
LEMMA UnlockSound ==
    ASSUME IInv, NEW m \in Modems, NEW s \in SnapDecision,
           obj[m].requiredPin # "none", Unlock(m, "initial", {}, s)
    PROVE  /\ dlgModem' = m /\ dlgState' = "unlocking" /\ connections' = {m}
           /\ enterPinState' \in EnterPinStates
           /\ enterPinState' # "initial" => obj[m].requiredPin \in PinType
           /\ sd' \in SnapDecision
<1> USE DEF IInv
<1>1. obj[m] \in Modem /\ obj[m].requiredPin \in RequiredPin
  BY DEF TypeOK, Modem
<1> DEFINE type == obj[m].requiredPin
           step == UpdatedStep(FirstStep("initial", type), type)
<1>2. step \in EnterPinStates /\ (step # "initial" => type \in PinType)
  BY <1>1 DEF UpdatedStep, FirstStep, EnterPinStates, PinType
<1>3. Reminded(s, obj[m]) \in SnapDecision
  BY <1>1, RemindedType
<1>4. UpdatedSd(Reminded(s, obj[m]), m, step, type) \in SnapDecision
  BY <1>1, <1>2, <1>3, UpdatedSdType
<1> QED
  BY <1>2, <1>4 DEF Unlock

(* unlockModem() keeps the dialog and the queue sound. *)
LEMMA RequestUnlockSound ==
    ASSUME IInv, NEW m \in Modems, NEW o \in [Modems -> Modem], Updated(o),
           \A n \in Modems : o[n].requiredPin = obj[n].requiredPin,
           RequestUnlock(m, o), links' = links
    PROVE  /\ pendingUnlocks' \in Seq(Modems)
           /\ dlgModem' \in Modems \cup {NoModem}
           /\ dlgState' \in {"ready", "unlocking"}
           /\ enterPinState' \in EnterPinStates
           /\ newPin' = newPin /\ pukCode' = pukCode
           /\ connections' \subseteq Modems
           /\ sd' \in SnapDecision
           /\ obj' \in [Modems -> Modem] /\ Updated(obj')
           /\ DialogSound' /\ QueueSound' /\ StepDefined'
<1> USE DEF IInv
<1>1. CASE UnlockNow(m) /\ obj' = o
  <2>1. /\ enterPinState = "initial" /\ connections = {}
        /\ newPin = NoCode /\ pukCode = NoCode /\ pendingUnlocks = <<>>
    BY <1>1, ConstantsAssumption DEF UnlockNow, DialogSound
  <2>2. sd \in SnapDecision /\ obj[m].requiredPin # "none"
    BY <1>1 DEF TypeOK, UnlockNow, IsReadyToUnlock
  <2>3. Unlock(m, "initial", {}, sd)
    BY <1>1, <2>1 DEF UnlockNow
  <2>4. /\ dlgModem' = m /\ dlgState' = "unlocking" /\ connections' = {m}
        /\ enterPinState' \in EnterPinStates
        /\ enterPinState' # "initial" => obj[m].requiredPin \in PinType
        /\ sd' \in SnapDecision
    BY <2>2, <2>3, UnlockSound
  <2>5. pendingUnlocks' = <<>> /\ newPin' = newPin /\ pukCode' = pukCode
    BY <1>1, <2>1 DEF UnlockNow
  <2>6. DialogSound' /\ QueueSound' /\ StepDefined'
    BY <1>1, <2>4, <2>5, ConstantsAssumption DEF DialogSound, QueueSound, StepDefined
  <2> QED
    BY <1>1, <2>4, <2>5, <2>6
<1>2. CASE /\ UnlockWhenReady(m)
           /\ obj' = [o EXCEPT ![m].shouldTriggerUnlock = TRUE]
           /\ UNCHANGED <<pendingUnlocks, dlgModem, dlgState, enterPinState, connections,
                          sd, newPin, pukCode>>
  <2> DEFINE r == [o[m] EXCEPT !.shouldTriggerUnlock = TRUE]
  <2>r. r \in Modem /\ r.requiredPin = o[m].requiredPin /\ (Busy(r) => Busy(o[m]))
    BY DEF Modem, Busy
  <2>o. obj' = [o EXCEPT ![m] = r]
    BY <1>2
  <2> HIDE DEF r
  <2>1. obj' \in [Modems -> Modem] /\ Updated(obj')
    BY <2>r, <2>o, ObjTypes DEF Updated
  <2>2. \A n \in Modems : obj'[n].requiredPin = obj[n].requiredPin
    BY <2>r, <2>o
  <2> QED
    BY <1>2, <2>1, <2>2, ConstantsAssumption
       DEF TypeOK, DialogSound, QueueSound, StepDefined, Linked
<1>3. CASE UnlockLater(m) /\ obj' = o
  <2>1. pendingUnlocks \in Seq(Modems) /\ pendingUnlocks' = Append(pendingUnlocks, m)
    BY <1>3 DEF UnlockLater, TypeOK
  <2>2. /\ pendingUnlocks' \in Seq(Modems)
        /\ Len(pendingUnlocks') = Len(pendingUnlocks) + 1
        /\ \A i \in 1..Len(pendingUnlocks) : pendingUnlocks'[i] = pendingUnlocks[i]
        /\ pendingUnlocks'[Len(pendingUnlocks) + 1] = m
    BY <2>1
  <2>3. Linked(m) /\ dlgModem # m /\ ~InQueue(m)
    BY <1>3 DEF UnlockLater, Eligible
  <2>4. QueueSound'
    BY <1>3, <2>2, <2>3 DEF QueueSound, Linked, InQueue, UnlockLater
  <2> QED
    BY <1>3, <2>2, <2>4, ConstantsAssumption DEF UnlockLater, TypeOK, DialogSound, StepDefined
<1>4. CASE /\ ~Eligible(m)
           /\ obj' = o
           /\ UNCHANGED <<pendingUnlocks, dlgModem, dlgState, enterPinState, connections,
                          sd, newPin, pukCode>>
  BY <1>4, ConstantsAssumption DEF TypeOK, DialogSound, QueueSound, StepDefined, Linked
<1> QED
  BY <1>1, <1>2, <1>3, <1>4 DEF RequestUnlock

(* reset(), with the modem that ready() lets in. *)
LEMMA ResetSound ==
    ASSUME IInv, NEW s \in SnapDecision, NEW o \in [Modems -> Modem], Updated(o),
           \A n \in Modems : o[n].requiredPin = obj[n].requiredPin,
           obj' = Released(o), Reset(s), links' = links
    PROVE  /\ pendingUnlocks' \in Seq(Modems)
           /\ dlgModem' \in Modems \cup {NoModem}
           /\ dlgState' \in {"ready", "unlocking"}
           /\ enterPinState' \in EnterPinStates
           /\ newPin' = NoCode /\ pukCode' = NoCode
           /\ connections' \subseteq Modems
           /\ sd' \in SnapDecision
           /\ obj' \in [Modems -> Modem] /\ Updated(obj')
           /\ DialogSound' /\ QueueSound' /\ StepDefined'
<1> USE DEF IInv
<1>1. obj' \in [Modems -> Modem] /\ Updated(obj')
  BY DestroyedType, ObjTypes DEF Released
<1>2. newPin' = NoCode /\ pukCode' = NoCode /\ pendingUnlocks' = RemainingUnlocks
  BY DEF Reset
<1>3. pendingUnlocks \in Seq(Modems)
  BY DEF TypeOK
<1>4. pendingUnlocks' \in Seq(Modems)
  BY <1>2, <1>3 DEF RemainingUnlocks
<1>5. \A i \in 1..Len(pendingUnlocks') :
         /\ i + 1 \in 1..Len(pendingUnlocks)
         /\ pendingUnlocks'[i] = pendingUnlocks[i + 1]
  BY <1>2, <1>3 DEF RemainingUnlocks
<1>6. CASE ReadyUnlocks
  <2> DEFINE m == Head(pendingUnlocks)
  <2>1. m \in Modems /\ m = pendingUnlocks[1] /\ 1 \in 1..Len(pendingUnlocks)
    BY <1>3, <1>6 DEF ReadyUnlocks
  <2>2. obj[m].requiredPin # "none" /\ Unlock(m, "initial", {}, s)
    BY <1>6 DEF ReadyUnlocks, Reset, DisconnectedAll
  <2> HIDE DEF m
  <2>3. /\ dlgModem' = m /\ dlgState' = "unlocking" /\ connections' = {m}
        /\ enterPinState' \in EnterPinStates
        /\ enterPinState' # "initial" => obj[m].requiredPin \in PinType
        /\ sd' \in SnapDecision
    BY <2>1, <2>2, UnlockSound
  <2>4. m # dlgModem
    BY <2>1 DEF QueueSound
  <2>5. obj'[m].requiredPin = obj[m].requiredPin
    BY <2>1, <2>4 DEF Released
  <2>6. DialogSound' /\ StepDefined'
    BY <2>1, <2>3, <2>5, ConstantsAssumption DEF DialogSound, StepDefined
  <2>7. QueueSound'
    BY <1>3, <1>4, <1>5, <2>1, <2>3 DEF QueueSound, Linked
  <2> QED
    BY <1>1, <1>2, <1>4, <2>1, <2>3, <2>6, <2>7
<1>7. CASE ~ReadyUnlocks
  <2>1. /\ dlgModem' = NoModem /\ dlgState' = "ready" /\ enterPinState' = "initial"
        /\ connections' = {} /\ sd' = s
    BY <1>7 DEF Reset, DisconnectedAll
  <2>2. DialogSound' /\ StepDefined'
    BY <1>2, <2>1 DEF DialogSound, StepDefined
  <2>3. \A i \in 1..Len(pendingUnlocks') : /\ links'[PathOf[pendingUnlocks'[i]]] = pendingUnlocks'[i]
                                           /\ pendingUnlocks'[i] # dlgModem'
    BY <1>3, <1>5, <2>1, ConstantsAssumption DEF QueueSound, Linked
  <2>4. \A i, j \in 1..Len(pendingUnlocks') :
           pendingUnlocks'[i] = pendingUnlocks'[j] => i = j
    BY <1>3, <1>4, <1>5 DEF QueueSound
  <2>5. QueueSound'
    BY <2>3, <2>4 DEF QueueSound, Linked
  <2> QED
    BY <1>1, <1>2, <1>4, <2>1, <2>2, <2>5 DEF EnterPinStates
<1> QED
  BY <1>6, <1>7

(* The slot update() of the dialog, after m has changed to a state in      *)
(* which its PIN type is defined.                                          *)
LEMMA UpdateSlotSound ==
    ASSUME IInv, NEW m \in Modems, obj' \in [Modems -> Modem],
           \A n \in Modems : obj'[n].requiredPin # obj[n].requiredPin =>
                              obj'[n].requiredPin \in PinType,
           UpdateSlot(m), UNCHANGED <<dlgModem, dlgState, connections, newPin, pukCode>>
    PROVE  /\ enterPinState' \in EnterPinStates
           /\ sd' \in SnapDecision
           /\ DialogSound' /\ StepDefined'
<1> USE DEF IInv
<1>1. CASE m \in connections /\ dlgModem # NoModem /\ Emits(m)
  <2> DEFINE type == obj'[dlgModem].requiredPin
             step == UpdatedStep(enterPinState, type)
  <2>1. dlgModem \in Modems /\ dlgState = "unlocking"
    BY <1>1 DEF TypeOK, DialogSound
  <2>2. type \in RequiredPin /\ (enterPinState # "initial" => type \in PinType)
    BY <2>1 DEF TypeOK, StepDefined, Modem
  <2>3. enterPinState' = step /\ sd' = UpdatedSd(sd, dlgModem, step, type)
    BY <1>1 DEF UpdateSlot
  <2>4. step \in EnterPinStates /\ (step = "initial" <=> enterPinState = "initial")
    BY DEF UpdatedStep, TypeOK, EnterPinStates
  <2>5. sd' \in SnapDecision
    BY <2>1, <2>2, <2>3, <2>4, UpdatedSdType DEF TypeOK
  <2> QED
    BY <2>1, <2>2, <2>3, <2>4, <2>5 DEF DialogSound, StepDefined
<1>2. CASE ~(m \in connections /\ dlgModem # NoModem /\ Emits(m))
  <2>1. UNCHANGED <<enterPinState, sd>>
    BY <1>2 DEF UpdateSlot
  <2>2. enterPinState # "initial" => dlgModem \in Modems
    BY DEF TypeOK, DialogSound
  <2> QED
    BY <2>1, <2>2 DEF TypeOK, DialogSound, StepDefined
<1> QED
  BY <1>1, <1>2

(* Each signal of ofono that runs Modem::Private::update(). *)
LEMMA SignalSound ==
    ASSUME IInv, NEW m \in Modems, NEW r \in Modem, obj' = [obj EXCEPT ![m] = r],
           Busy(r) => r.requiredPin \in PinType,
           r.requiredPin # obj[m].requiredPin => r.requiredPin \in PinType,
           UpdateSlot(m), ModemUnchanged
    PROVE  IInv'
<1>1. /\ obj' \in [Modems -> Modem] /\ Updated(obj')
      /\ \A n \in Modems : obj'[n].requiredPin # obj[n].requiredPin =>
                            obj'[n].requiredPin \in PinType
  <2>1. obj \in [Modems -> Modem] /\ Updated(obj)
    BY DEF IInv, TypeOK
  <2>2. obj' \in [Modems -> Modem] /\ Updated([obj EXCEPT ![m] = r])
    BY <2>1, ObjTypes
  <2>3. obj'[m] = r /\ \A n \in Modems \ {m} : obj'[n] = obj[n]
    BY <2>1, ObjTypes
  <2> QED
    BY <2>2, <2>3
<1>2. /\ enterPinState' \in EnterPinStates /\ sd' \in SnapDecision
      /\ DialogSound' /\ StepDefined'
  BY <1>1, UpdateSlotSound DEF ModemUnchanged
<1>3. TypeOK'
  BY <1>1, <1>2 DEF IInv, TypeOK, ModemUnchanged, managerVars
<1>4. QueueSound'
  BY DEF IInv, QueueSound, Linked, ModemUnchanged, managerVars
<1> QED
  BY <1>1, <1>2, <1>3, <1>4 DEF IInv

(* RemoveAt takes one element out and keeps the order of the others. *)
LEMMA RemoveAtProperties ==
    ASSUME NEW S, NEW q \in Seq(S), NEW k \in 1..Len(q)
    PROVE  /\ RemoveAt(q, k) \in Seq(S)
           /\ Len(RemoveAt(q, k)) = Len(q) - 1
           /\ \A i \in 1..(Len(q) - 1) :
                 RemoveAt(q, k)[i] = q[IF i < k THEN i ELSE i + 1]
<1> DEFINE l == SubSeq(q, 1, k - 1)
           r == SubSeq(q, k + 1, Len(q))
<1>1. /\ l \in Seq(S) /\ Len(l) = k - 1
      /\ \A i \in 1..(k - 1) : l[i] = q[i]
  OBVIOUS
<1>2. /\ r \in Seq(S) /\ Len(r) = Len(q) - k
      /\ \A i \in 1..(Len(q) - k) : r[i] = q[k + i]
  OBVIOUS
<1> HIDE DEF l, r
<1>3. /\ l \o r \in Seq(S) /\ Len(l \o r) = Len(q) - 1
      /\ \A i \in 1..(Len(q) - 1) :
            (l \o r)[i] = IF i <= Len(l) THEN l[i] ELSE r[i - Len(l)]
  <2>1. /\ l \o r \in Seq(S) /\ Len(l \o r) = Len(l) + Len(r)
        /\ \A i \in 1..(Len(l) + Len(r)) :
              (l \o r)[i] = IF i <= Len(l) THEN l[i] ELSE r[i - Len(l)]
    BY <1>1, <1>2, ConcatProperties
  <2>2. Len(l) + Len(r) = Len(q) - 1
    BY <1>1, <1>2
  <2> QED
    BY <2>1, <2>2
<1>4. RemoveAt(q, k) = l \o r
  BY DEF RemoveAt, l, r
<1>5. ASSUME NEW i \in 1..(Len(q) - 1)
      PROVE  (l \o r)[i] = q[IF i < k THEN i ELSE i + 1]
  <2>1. CASE i < k
    BY <1>1, <1>3, <2>1
  <2>2. CASE ~(i < k)
    <3>1. i - Len(l) \in 1..(Len(q) - k) /\ k + (i - Len(l)) = i + 1
      BY <1>1, <2>2
    <3> QED
      BY <1>1, <1>2, <1>3, <2>2, <3>1
  <2> QED
    BY <2>1, <2>2
<1> QED
  BY <1>3, <1>4, <1>5

(* Trying a PIN or a PUK leaves a card with a lock and attempts in range. *)
LEMMA TriedType ==
    ASSUME NEW c \in Card, NEW op, NEW right \in BOOLEAN
    PROVE  Tried(c, op, right) \in Card
<1>1. /\ MaxPin \in 0..MaxPin /\ MaxPuk \in 0..MaxPuk
      /\ {"none", "pin", "puk"} = PinType
  BY ConstantsAssumption DEF PinType
<1>2. /\ c.pin \in 0..MaxPin /\ c.puk \in 0..MaxPuk
      /\ c.pin # 0 => c.pin - 1 \in 0..MaxPin
      /\ c.puk > 0 => c.puk - 1 \in 0..MaxPuk
  BY ConstantsAssumption DEF Card
<1>3. /\ \A l \in PinType, n \in 0..MaxPin : [c EXCEPT !.lock = l, !.pin = n] \in Card
      /\ \A n \in 0..MaxPuk : [c EXCEPT !.puk = n] \in Card
      /\ [lock |-> "none", pin |-> MaxPin, puk |-> MaxPuk] \in Card
  BY <1>1 DEF Card
<1>4. /\ (IF c.pin <= 1 THEN "puk" ELSE "pin") \in PinType
      /\ (IF c.pin = 0 THEN 0 ELSE c.pin - 1) \in 0..MaxPin
      /\ "none" \in PinType
  BY <1>1, <1>2
<1> QED
  BY <1>1, <1>2, <1>3, <1>4 DEF Tried

(* Every step of the system preserves the invariant. *)
LEMMA NextIInv == IInv /\ [Next]_vars => IInv'
<1> SUFFICES ASSUME IInv, [Next]_vars PROVE IInv'
  OBVIOUS
<1> USE ConstantsAssumption
<1>type. TypeOK /\ DialogSound /\ QueueSound /\ StepDefined /\ Updated(obj)
  BY DEF IInv
<1>1. ASSUME NEW m \in Modems, UnlockModem(m) PROVE IInv'
  <2>1. obj \in [Modems -> Modem] /\ links' = links
    BY <1>1, <1>type DEF UnlockModem, TypeOK
  <2> QED
    BY <1>1, <1>type, <2>1, RequestUnlockSound DEF UnlockModem, IInv, TypeOK
<1>2. CASE UnlockAllModems
  BY <1>2, <1>type DEF UnlockAllModems, IInv, TypeOK, DialogSound, QueueSound, StepDefined,
     Linked, dialogVars
<1>3. CASE unlockAll # <<>> /\ UnlockAllStep
  <2> DEFINE p == Head(unlockAll)
             m == links[p]
  <2>1. unlockAll \in Seq(Paths) /\ Tail(unlockAll) \in Seq(Paths) /\ obj \in [Modems -> Modem]
    BY <1>3, <1>type DEF TypeOK
  <2>2. UNCHANGED <<links, pinRetries, pukRetries, card, shellUp, shellMsgs>>
    BY <1>3 DEF UnlockAllStep
  <2>3. CASE /\ m \in Modems /\ unlockAll' = Tail(unlockAll)
             /\ RequestUnlock(m, obj) /\ crashed' = crashed
    BY <1>type, <2>1, <2>2, <2>3, RequestUnlockSound DEF IInv, TypeOK
  <2>4. CASE /\ unlockAll' \in Seq(Paths)
             /\ crashed' \in {"no", "assert", "throw", "null"}
             /\ UNCHANGED <<pendingUnlocks, dlgModem, dlgState, enterPinState, connections,
                            sd, newPin, pukCode, obj>>
    BY <1>type, <2>2, <2>4 DEF IInv, TypeOK, DialogSound, QueueSound, StepDefined, Linked
  <2> QED
    BY <1>3, <1>type, <2>1, <2>3, <2>4 DEF UnlockAllStep, TypeOK
<1>4. ASSUME NEW p \in Paths, ModemAdded(p) PROVE IInv'
  <2>1. PICK m \in Modems, type \in RequiredPin :
           /\ PathOf[m] = p /\ ~Alive(m)
           /\ links' = [links EXCEPT ![p] = m]
           /\ obj' = [obj EXCEPT ![m] = Fresh(type)]
    BY <1>4 DEF ModemAdded
  <2>2. Fresh(type) \in Modem /\ ~Busy(Fresh(type))
    BY DEF Fresh, Modem, Retries, EmptyRetries, Busy
  <2>3. TypeOK' /\ Updated(obj')
    BY <1>4, <1>type, <2>1, <2>2, ObjTypes DEF ModemAdded, TypeOK, dialogVars
  <2>4. DialogSound'
    BY <1>4, <1>type DEF ModemAdded, DialogSound, dialogVars
  <2>5. StepDefined'
    BY <1>4, <1>type, <2>1 DEF ModemAdded, StepDefined, DialogSound, TypeOK, Alive, dialogVars
  <2>6. QueueSound'
    <3>1. \A n \in Modems : Linked(n) => Linked(n)'
      BY <1>4, <1>type, <2>1 DEF ModemAdded, Linked, TypeOK
    <3> QED
      BY <1>4, <1>type, <3>1 DEF ModemAdded, QueueSound, TypeOK, dialogVars
  <2> QED
    BY <2>3, <2>4, <2>5, <2>6 DEF IInv
<1>5. ASSUME NEW p \in Paths, ModemRemoved(p) PROVE IInv'
  <2> DEFINE m == links[p]
  <2>1. /\ m \in Modems \cup {Null} /\ links' = [links EXCEPT ![p] = Absent]
        /\ UNCHANGED <<unlockAll, dialogVars, card, shellUp, shellMsgs, crashed>>
    BY <1>5, <1>type DEF ModemRemoved, TypeOK
  <2>2. obj' \in [Modems -> Modem] /\ Updated(obj')
    BY <1>5, <1>type, DestroyedType, ObjTypes DEF ModemRemoved, TypeOK
  <2>3. DialogSound'
    BY <1>type, <2>1 DEF DialogSound, dialogVars
  <2>4. StepDefined'
    BY <1>5, <1>type, <2>1 DEF ModemRemoved, StepDefined, DialogSound, TypeOK, dialogVars
  <2>5. \A n \in Modems : Linked(n) /\ n # m => Linked(n)'
    BY <1>type, <2>1 DEF Linked, TypeOK
  <2>6. \A i \in 1..Len(pendingUnlocks) :
           /\ pendingUnlocks[i] # dlgModem'
           /\ pendingUnlocks[i] # m => links'[PathOf[pendingUnlocks[i]]] = pendingUnlocks[i]
    BY <1>type, <2>1, <2>5 DEF QueueSound, TypeOK, Linked, dialogVars
  <2>7. CASE m \in Modems /\ InQueue(m)
    <3> DEFINE k == QueueIndex(m)
               q == pendingUnlocks
               new(i) == IF i < k THEN i ELSE i + 1
    <3>1. k \in 1..Len(q) /\ q[k] = m /\ q \in Seq(Modems)
      BY <1>type, <2>7 DEF InQueue, QueueIndex, TypeOK
    <3>2. pendingUnlocks' = RemoveAt(q, k) /\ sd' = CloseSd(sd)
      BY <1>5, <2>7 DEF ModemRemoved
    <3>3. sd' \in SnapDecision
      BY <1>type, <3>2, SdTypes DEF TypeOK
    <3> HIDE DEF k
    <3>4. /\ pendingUnlocks' \in Seq(Modems)
          /\ Len(pendingUnlocks') = Len(q) - 1
          /\ \A i \in 1..(Len(q) - 1) : pendingUnlocks'[i] = q[new(i)]
      <4>1. /\ RemoveAt(q, k) \in Seq(Modems) /\ Len(RemoveAt(q, k)) = Len(q) - 1
            /\ \A i \in 1..(Len(q) - 1) :
                  RemoveAt(q, k)[i] = q[IF i < k THEN i ELSE i + 1]
        <5> HIDE DEF q
        <5> QED
          BY <3>1, RemoveAtProperties
      <4> QED
        BY <3>2, <4>1
    <3>5. /\ \A i \in 1..(Len(q) - 1) : new(i) \in 1..Len(q) /\ new(i) # k
          /\ \A i, j \in 1..(Len(q) - 1) : new(i) = new(j) => i = j
      <4>1. k \in Nat /\ Len(q) \in Nat /\ k <= Len(q)
        BY <3>1
      <4> QED
        BY <4>1
    <3>6. \A i, j \in 1..Len(q) : q[i] = q[j] => i = j
      BY <1>type DEF QueueSound
    <3>7. \A i \in 1..Len(q) : i # k => q[i] # m
      BY <3>1, <3>6
    <3> HIDE DEF new
    <3>8. ASSUME NEW i \in 1..(Len(q) - 1)
          PROVE  /\ links'[PathOf[pendingUnlocks'[i]]] = pendingUnlocks'[i]
                 /\ pendingUnlocks'[i] # dlgModem'
      <4>1. new(i) \in 1..Len(q) /\ pendingUnlocks'[i] = q[new(i)] /\ q[new(i)] # m
        BY <3>4, <3>5, <3>7
      <4> QED
        BY <2>6, <4>1
    <3>9. ASSUME NEW i \in 1..(Len(q) - 1), NEW j \in 1..(Len(q) - 1),
                 pendingUnlocks'[i] = pendingUnlocks'[j]
          PROVE  i = j
      <4>1. PICK a, b : a = new(i) /\ b = new(j)
        OBVIOUS
      <4>2. a \in 1..Len(q) /\ b \in 1..Len(q)
        BY <3>5, <4>1
      <4>3. q[a] = q[b]
        BY <3>4, <3>9, <4>1
      <4>4. new(i) = new(j)
        BY <3>6, <4>1, <4>2, <4>3
      <4> QED
        BY <3>5, <4>4
    <3>10. QueueSound'
      BY <3>4, <3>8, <3>9 DEF QueueSound, Linked
    <3> QED
      BY <1>type, <2>1, <2>2, <2>3, <2>4, <3>3, <3>4, <3>10 DEF IInv, TypeOK, dialogVars
  <2>8. CASE ~(m \in Modems /\ InQueue(m))
    <3>1. UNCHANGED <<sd, pendingUnlocks>>
      BY <1>5, <2>8 DEF ModemRemoved
    <3>2. QueueSound'
      BY <1>type, <2>1, <2>5, <2>8, <3>1 DEF QueueSound, InQueue, TypeOK, dialogVars
    <3> QED
      BY <1>type, <2>1, <2>2, <2>3, <2>4, <3>1, <3>2 DEF IInv, TypeOK, dialogVars
  <2> QED
    BY <2>7, <2>8
<1>obj. ASSUME NEW m \in Modems
        PROVE  /\ obj \in [Modems -> Modem] /\ obj[m] \in Modem
               /\ Busy(obj[m]) => obj[m].requiredPin \in PinType
  BY <1>type DEF TypeOK, Updated
<1>6. ASSUME NEW m \in Modems, PinRequiredChanged(m) PROVE IInv'
  <2> DEFINE r == [obj[m] EXCEPT !.requiredPin = card[PathOf[m]].lock, !.updatedTimer = TRUE]
  <2>1. card[PathOf[m]].lock \in PinType
    BY <1>type DEF TypeOK, Card
  <2>2. r \in Modem /\ r.requiredPin \in PinType
    BY <1>obj, <2>1 DEF Modem, RequiredPin
  <2>3. obj' = [obj EXCEPT ![m] = r] /\ UpdateSlot(m) /\ ModemUnchanged
    BY <1>6 DEF PinRequiredChanged
  <2> HIDE DEF r
  <2> QED
    BY <2>2, <2>3, SignalSound
<1>7. ASSUME NEW m \in Modems, NEW rs \in Retries, PinRetriesChanged(m, rs) PROVE IInv'
  <2> DEFINE r == [obj[m] EXCEPT !.retries = rs, !.updatedTimer = TRUE]
  <2>2. r \in Modem /\ r.requiredPin = obj[m].requiredPin /\ (Busy(r) => Busy(obj[m]))
    BY <1>obj DEF Modem, Busy
  <2>3. obj' = [obj EXCEPT ![m] = r] /\ UpdateSlot(m) /\ ModemUnchanged
    BY <1>7 DEF PinRetriesChanged
  <2> HIDE DEF r
  <2> QED
    BY <1>obj, <2>2, <2>3, SignalSound
<1>8. ASSUME NEW m \in Modems, SimManagerAdded(m) PROVE IInv'
  <2> DEFINE r == [obj[m] EXCEPT !.simManager = TRUE, !.requiredPin = "none",
                                 !.retries = EmptyRetries(TRUE), !.updatedTimer = TRUE]
  <2>1. EmptyRetries(TRUE) \in Retries /\ "none" \in PinType
    BY DEF EmptyRetries, Retries, PinType
  <2>2. r \in Modem /\ r.requiredPin \in PinType
    BY <1>obj, <2>1 DEF Modem, RequiredPin
  <2>3. obj' = [obj EXCEPT ![m] = r] /\ UpdateSlot(m) /\ ModemUnchanged
    BY <1>8 DEF SimManagerAdded
  <2> HIDE DEF r
  <2> QED
    BY <2>2, <2>3, SignalSound
<1>9. ASSUME NEW m \in Modems, SimManagerRemoved(m) PROVE IInv'
  <2> DEFINE r == [obj[m] EXCEPT !.simManager = FALSE, !.requiredPin = "none",
                                 !.retries = EmptyRetries(FALSE), !.updatedTimer = TRUE,
                                 !.calls = <<>>, !.replies = <<>>]
  <2>1. /\ EmptyRetries(FALSE) \in Retries /\ "none" \in PinType
        /\ <<>> \in Seq(Ops) /\ <<>> \in Seq(Reply)
    BY DEF EmptyRetries, Retries, PinType
  <2>2. r \in Modem /\ r.requiredPin \in PinType
    BY <1>obj, <2>1 DEF Modem, RequiredPin
  <2>3. obj' = [obj EXCEPT ![m] = r] /\ UpdateSlot(m) /\ ModemUnchanged
    BY <1>9 DEF SimManagerRemoved
  <2> HIDE DEF r
  <2> QED
    BY <2>2, <2>3, SignalSound
<1>10. ASSUME NEW m \in Modems, OtherPropertyChanged(m) PROVE IInv'
  <2> DEFINE type == IF obj[m].simManager THEN obj[m].requiredPin ELSE "none"
             r == [obj[m] EXCEPT !.requiredPin = type, !.updatedTimer = TRUE]
  <2>1. type \in PinType
    BY <1>obj DEF Busy, PinType
  <2>2. r \in Modem /\ r.requiredPin \in PinType
    <3> HIDE DEF type
    <3> QED
      BY <1>obj, <2>1 DEF Modem, RequiredPin
  <2>3. obj' = [obj EXCEPT ![m] = r] /\ UpdateSlot(m) /\ ModemUnchanged
    BY <1>10 DEF OtherPropertyChanged
  <2> HIDE DEF r
  <2> QED
    BY <2>2, <2>3, SignalSound
<1>11. ASSUME NEW m \in Modems, FireUpdate(m) PROVE IInv'
  <2> DEFINE p == PathOf[m]
             trigger == IsReadyToUnlock(m) /\ obj[m].shouldTriggerUnlock
             waits == obj[m].shouldTriggerUnlock /\ ~trigger
             r == [obj[m] EXCEPT !.updatedTimer = FALSE, !.shouldTriggerUnlock = waits]
             o == [obj EXCEPT ![m] = r]
  <2>1. r \in Modem /\ r.requiredPin = obj[m].requiredPin /\ (Busy(r) => Busy(obj[m]))
    BY <1>obj DEF Modem, Busy
  <2>2. /\ o \in [Modems -> Modem] /\ Updated(o)
        /\ \A n \in Modems : o[n].requiredPin = obj[n].requiredPin
    <3> HIDE DEF r
    <3> QED
      BY <1>obj, <1>type, <2>1, ObjTypes
  <2>3. /\ links' = IF trigger /\ links[p] = Absent THEN [links EXCEPT ![p] = Null] ELSE links
        /\ UNCHANGED <<unlockAll, pinRetries, pukRetries, card, shellUp, shellMsgs, crashed>>
    BY <1>11 DEF FireUpdate
  <2>4. CASE trigger /\ links[p] \in Modems
    <3>1. links' = links /\ RequestUnlock(links[p], o)
      BY <1>11, <2>3, <2>4 DEF FireUpdate
    <3> HIDE DEF o
    <3> QED
      BY <1>type, <2>2, <2>3, <2>4, <3>1, RequestUnlockSound DEF IInv, TypeOK
  <2>5. CASE ~(trigger /\ links[p] \in Modems)
    <3>1. /\ obj' = o
          /\ UNCHANGED <<pendingUnlocks, dlgModem, dlgState, enterPinState,
                         connections, sd, newPin, pukCode>>
      BY <1>11, <2>5 DEF FireUpdate
    <3> HIDE DEF o
    <3>2. links' \in [Paths -> Modems \cup {Absent, Null}]
      BY <1>type, <2>3 DEF TypeOK
    <3>3. \A n \in Modems : Linked(n) => Linked(n)'
      BY <1>type, <2>3 DEF Linked, TypeOK
    <3>4. DialogSound' /\ StepDefined'
      BY <1>type, <2>2, <3>1 DEF DialogSound, StepDefined, TypeOK
    <3>5. QueueSound'
      BY <1>type, <3>1, <3>3 DEF QueueSound, TypeOK
    <3> QED
      BY <1>type, <2>2, <2>3, <3>1, <3>2, <3>4, <3>5 DEF IInv, TypeOK
  <2> QED
    BY <2>4, <2>5
<1>reply. ASSUME NEW m \in Modems, obj[m].replies # <<>>
          PROVE  /\ TakeReply(m) \in [Modems -> Modem] /\ Updated(TakeReply(m))
                 /\ \A n \in Modems : TakeReply(m)[n].requiredPin = obj[n].requiredPin
                 /\ obj[m].requiredPin \in PinType
  <2> DEFINE r == [obj[m] EXCEPT !.replies = Tail(obj[m].replies)]
  <2>1. Tail(obj[m].replies) \in Seq(Reply)
    BY <1>obj, <1>reply DEF Modem
  <2>2. r \in Modem /\ r.requiredPin = obj[m].requiredPin
    BY <1>obj, <2>1 DEF Modem
  <2>3. obj[m].requiredPin \in PinType
    BY <1>obj, <1>reply DEF Busy
  <2>4. TakeReply(m) = [obj EXCEPT ![m] = r]
    BY DEF TakeReply
  <2> HIDE DEF r
  <2>5. /\ [obj EXCEPT ![m] = r] \in [Modems -> Modem] /\ Updated([obj EXCEPT ![m] = r])
        /\ \A n \in Modems : [obj EXCEPT ![m] = r][n].requiredPin = obj[n].requiredPin
    BY <1>obj, <1>type, <2>2, <2>3, ObjTypes
  <2> QED
    BY <2>3, <2>4, <2>5
<1>12. ASSUME NEW m \in Modems, PinSuccess(m) PROVE IInv'
  <2>1. CloseSd(sd) \in SnapDecision
    BY <1>type, SdTypes DEF TypeOK
  <2>2. obj[m].replies # <<>> /\ obj' = Released(TakeReply(m)) /\ links' = links
    BY <1>12 DEF PinSuccess
  <2>3. /\ pendingUnlocks' \in Seq(Modems) /\ dlgModem' \in Modems \cup {NoModem}
        /\ dlgState' \in {"ready", "unlocking"} /\ enterPinState' \in EnterPinStates
        /\ newPin' = NoCode /\ pukCode' = NoCode /\ connections' \subseteq Modems
        /\ sd' \in SnapDecision /\ obj' \in [Modems -> Modem] /\ Updated(obj')
        /\ DialogSound' /\ QueueSound' /\ StepDefined'
    BY <1>12, <1>reply, <2>1, <2>2, ResetSound DEF PinSuccess
  <2> QED
    BY <1>12, <1>type, <2>2, <2>3 DEF PinSuccess, IInv, TypeOK
<1>dlg. ASSUME NEW m \in connections
        PROVE  /\ m = dlgModem /\ dlgModem \in Modems /\ dlgState = "unlocking"
               /\ obj[dlgModem].requiredPin \in RequiredPin
               /\ enterPinState # "initial" => obj[dlgModem].requiredPin \in PinType
  BY <1>type, <1>dlg DEF TypeOK, DialogSound, StepDefined, Modem
<1>13. ASSUME NEW m \in Modems, EnterPinFailed(m) PROVE IInv'
  <2> DEFINE type == obj[dlgModem].requiredPin
             step == UpdatedStep(enterPinState, type)
             popped == PinFailedSd(sd, pinRetries - 1)
  <2>1. m \in connections /\ obj[m].replies # <<>>
    BY <1>13 DEF EnterPinFailed
  <2>2. step \in EnterPinStates /\ (step = "initial" <=> enterPinState = "initial")
    BY <1>type DEF UpdatedStep, TypeOK, EnterPinStates
  <2>3. popped \in SnapDecision
    BY <1>type, SdTypes DEF PinFailedSd, TypeOK, Popup, Callback
  <2>4. UpdatedSd(popped, dlgModem, step, type) \in SnapDecision
    BY <1>dlg, <2>1, <2>2, <2>3, UpdatedSdType
  <2>5. /\ obj' = TakeReply(m) /\ enterPinState' = step
        /\ pinRetries' = pinRetries - 1
        /\ sd' = UpdatedSd(popped, dlgModem, step, type)
        /\ UNCHANGED <<managerVars, dlgModem, dlgState, newPin, pukCode, pukRetries,
                       connections, card, shellUp, shellMsgs, crashed>>
    BY <1>13 DEF EnterPinFailed
  <2> HIDE DEF step, popped
  <2>6. TypeOK'
    BY <1>type, <1>reply, <2>1, <2>2, <2>4, <2>5 DEF TypeOK, managerVars
  <2>7. DialogSound' /\ StepDefined'
    BY <1>type, <1>dlg, <1>reply, <2>1, <2>2, <2>5 DEF DialogSound, StepDefined
  <2>8. QueueSound'
    BY <1>type, <2>5 DEF QueueSound, Linked, managerVars
  <2> QED
    BY <1>reply, <2>1, <2>5, <2>6, <2>7, <2>8 DEF IInv
<1>keep. ASSUME obj' \in [Modems -> Modem], Updated(obj'),
                \A n \in Modems : obj'[n].requiredPin = obj[n].requiredPin,
                UNCHANGED <<managerVars, dialogVars>>, sd' \in SnapDecision,
                card' \in [Paths -> Card], shellUp' \in BOOLEAN,
                shellMsgs' \in Seq(Message), crashed' \in {"no", "assert", "throw", "null"}
         PROVE  IInv'
  <2>1. TypeOK'
    BY <1>type, <1>keep DEF TypeOK, managerVars, dialogVars
  <2>2. DialogSound'
    BY <1>type, <1>keep DEF DialogSound, dialogVars
  <2>3. QueueSound'
    BY <1>type, <1>keep DEF QueueSound, Linked, managerVars, dialogVars
  <2>4. enterPinState # "initial" => dlgModem \in Modems
    BY <1>type DEF TypeOK, DialogSound
  <2>5. StepDefined'
    BY <1>type, <1>keep, <2>4 DEF StepDefined, dialogVars
  <2> QED
    BY <1>keep, <2>1, <2>2, <2>3, <2>5 DEF IInv
<1>14. ASSUME NEW m \in Modems, ResetPinFailed(m) PROVE IInv'
  <2> DEFINE type == obj[dlgModem].requiredPin
             popped == PukFailedSd(sd, pukRetries - 1)
  <2>1. m \in connections /\ obj[m].replies # <<>>
    BY <1>14 DEF ResetPinFailed
  <2>2. type \in PinType /\ type \in RequiredPin
    BY <1>dlg, <1>reply, <2>1 DEF RequiredPin
  <2>3. popped \in SnapDecision
    BY <1>type, SdTypes DEF PukFailedSd, TypeOK, Popup, Callback
  <2>4. UpdatedSd(popped, dlgModem, "enterPuk", type) \in SnapDecision
    BY <1>dlg, <2>1, <2>2, <2>3, UpdatedSdType DEF EnterPinStates
  <2>5. /\ obj' = TakeReply(m) /\ enterPinState' = "enterPuk"
        /\ pukRetries' = pukRetries - 1 /\ pukCode' = NoCode /\ newPin' = NoCode
        /\ sd' = UpdatedSd(popped, dlgModem, "enterPuk", type)
        /\ UNCHANGED <<managerVars, dlgModem, dlgState, pinRetries, connections, card,
                       shellUp, shellMsgs, crashed>>
    BY <1>14 DEF ResetPinFailed
  <2> HIDE DEF popped
  <2>6. TypeOK'
    BY <1>type, <1>reply, <2>1, <2>4, <2>5 DEF TypeOK, managerVars, EnterPinStates
  <2>7. DialogSound' /\ StepDefined'
    BY <1>type, <1>dlg, <1>reply, <2>1, <2>2, <2>5 DEF DialogSound, StepDefined
  <2>8. QueueSound'
    BY <1>type, <2>5 DEF QueueSound, Linked, managerVars
  <2> QED
    BY <1>reply, <2>1, <2>5, <2>6, <2>7, <2>8 DEF IInv
<1>15. ASSUME NEW m \in Modems, ReplyIgnored(m) PROVE IInv'
  <2>1. /\ obj[m].replies # <<>> /\ obj' = TakeReply(m)
        /\ UNCHANGED <<managerVars, dialogVars, sd, card, shellUp, shellMsgs, crashed>>
    BY <1>15 DEF ReplyIgnored
  <2>2. /\ obj' \in [Modems -> Modem] /\ Updated(obj')
        /\ \A n \in Modems : obj'[n].requiredPin = obj[n].requiredPin
    BY <1>reply, <2>1
  <2> QED
    BY <1>keep, <1>type, <2>1, <2>2 DEF TypeOK
<1>msg. ASSUME shellMsgs # <<>>
        PROVE  /\ Tail(shellMsgs) \in Seq(Message)
               /\ Head(shellMsgs).code \in Codes \cup {NoCode}
  <2>1. shellMsgs \in Seq(Message)
    BY <1>type DEF TypeOK
  <2>2. Tail(shellMsgs) \in Seq(Message) /\ Head(shellMsgs) \in Message
    BY <1>msg, <2>1
  <2> QED
    BY <2>2 DEF Message
<1>step. enterPinState # "initial" =>
           /\ dlgModem \in Modems /\ dlgState = "unlocking"
           /\ obj[dlgModem].requiredPin \in PinType
  BY <1>type DEF TypeOK, DialogSound, StepDefined
<1>16. ASSUME NEW step \in EnterPinStates \ {"initial"}, NEW puk \in Codes \cup {NoCode},
              NEW pin \in Codes \cup {NoCode}, enterPinState # "initial",
              Advance(step, puk, pin), shellMsgs' \in Seq(Message), UNCHANGED <<card, shellUp>>
       PROVE  IInv'
  <2>1. UpdatedSd(sd, dlgModem, step, obj[dlgModem].requiredPin) \in SnapDecision
    BY <1>type, <1>16, <1>step, UpdatedSdType DEF TypeOK, RequiredPin
  <2>2. /\ enterPinState' = step /\ pukCode' = puk /\ newPin' = pin
        /\ sd' = UpdatedSd(sd, dlgModem, step, obj[dlgModem].requiredPin)
        /\ UNCHANGED <<managerVars, dlgModem, dlgState, pinRetries, pukRetries, connections,
                       obj, crashed>>
    BY <1>16 DEF Advance
  <2>3. TypeOK'
    BY <1>type, <1>16, <2>1, <2>2 DEF TypeOK, managerVars
  <2>4. DialogSound' /\ StepDefined'
    BY <1>type, <1>16, <1>step, <2>2 DEF DialogSound, StepDefined
  <2>5. QueueSound' /\ Updated(obj')
    BY <1>type, <2>2 DEF QueueSound, Linked, managerVars
  <2> QED
    BY <2>3, <2>4, <2>5 DEF IInv
<1>17. ASSUME NEW op \in Ops, enterPinState # "initial", obj[dlgModem].simManager,
              obj' = [obj EXCEPT ![dlgModem].calls = Append(@, op)],
              UNCHANGED <<managerVars, dlgModem, dlgState, enterPinState, newPin, pukCode,
                          connections, sd, crashed, card, shellUp>>,
              pinRetries' \in Int, pukRetries' \in Int, shellMsgs' \in Seq(Message)
       PROVE  IInv'
  <2> DEFINE r == [obj[dlgModem] EXCEPT !.calls = Append(obj[dlgModem].calls, op)]
  <2>1. dlgModem \in Modems /\ obj[dlgModem].requiredPin \in PinType
    BY <1>17, <1>step
  <2>2. Append(obj[dlgModem].calls, op) \in Seq(Ops)
    BY <1>17, <1>obj, <2>1 DEF Modem
  <2>3. r \in Modem /\ r.requiredPin = obj[dlgModem].requiredPin
    BY <1>obj, <2>1, <2>2 DEF Modem
  <2>4. obj' = [obj EXCEPT ![dlgModem] = r]
    BY <1>17
  <2> HIDE DEF r
  <2>5. /\ [obj EXCEPT ![dlgModem] = r] \in [Modems -> Modem]
        /\ Updated([obj EXCEPT ![dlgModem] = r])
        /\ \A n \in Modems : [obj EXCEPT ![dlgModem] = r][n].requiredPin = obj[n].requiredPin
    BY <1>obj, <1>type, <2>1, <2>3, ObjTypes
  <2>6. /\ obj' \in [Modems -> Modem] /\ Updated(obj')
        /\ \A n \in Modems : obj'[n].requiredPin = obj[n].requiredPin
    BY <2>4, <2>5
  <2>7. TypeOK'
    BY <1>type, <1>17, <2>6 DEF TypeOK, managerVars
  <2>8. DialogSound' /\ StepDefined'
    BY <1>type, <1>17, <2>1, <2>6 DEF DialogSound, StepDefined
  <2>9. QueueSound'
    BY <1>type, <1>17 DEF QueueSound, Linked, managerVars
  <2> QED
    BY <2>6, <2>7, <2>8, <2>9 DEF IInv
<1>known. ASSUME NEW m \in Modems
          PROVE  Known(obj[m].retries.pin) \in Int /\ Known(obj[m].retries.puk) \in Int
  BY <1>obj DEF Modem, Retries, Known
<1>18. CASE PinEntered
  <2> DEFINE code == Head(shellMsgs).code
  <2>1. /\ shellMsgs # <<>> /\ shellMsgs' = Tail(shellMsgs) /\ UNCHANGED <<card, shellUp>>
    BY <1>18 DEF PinEntered, NextMessage
  <2>2. shellMsgs' \in Seq(Message) /\ code \in Codes \cup {NoCode}
    BY <1>msg, <2>1
  <2> HIDE DEF code
  <2>3. newPin \in Codes \cup {NoCode} /\ pukCode \in Codes \cup {NoCode}
        /\ NoCode \in Codes \cup {NoCode} /\ pinRetries \in Int /\ pukRetries \in Int
    BY <1>type DEF TypeOK
  <2>4. ASSUME crashed' \in {"assert", "throw"}, UNCHANGED <<managerVars, dialogVars, sd, obj>>
        PROVE  IInv'
    BY <1>type, <1>keep, <2>1, <2>2, <2>4 DEF TypeOK
  <2>5. CASE PinEnteredInitial
    BY <2>4, <2>5 DEF PinEnteredInitial
  <2>6. CASE SendThrows
    BY <2>4, <2>6 DEF SendThrows
  <2>7. CASE enterPinState = "enterPin" /\ SendEnterPin
    BY <1>17, <1>known, <1>step, <2>1, <2>2, <2>3, <2>7 DEF SendEnterPin, Ops
  <2>8. CASE enterPinState = "confirmNewPin" /\ SendResetPin
    BY <1>17, <1>known, <1>step, <2>1, <2>2, <2>3, <2>8 DEF SendResetPin, Ops
  <2>9. CASE enterPinState = "enterPuk" /\ Advance("enterNewPin", code, newPin)
    BY <1>16, <2>1, <2>2, <2>3, <2>9 DEF EnterPinStates
  <2>10. CASE enterPinState = "enterNewPin" /\ Advance("confirmNewPin", pukCode, code)
    BY <1>16, <2>1, <2>2, <2>3, <2>10 DEF EnterPinStates
  <2>11. CASE enterPinState = "confirmNewPin" /\ Advance("enterNewPin", pukCode, NoCode)
    BY <1>16, <2>1, <2>2, <2>3, <2>11 DEF EnterPinStates
  <2> QED
    BY <1>18, <2>5, <2>6, <2>7, <2>8, <2>9, <2>10, <2>11 DEF PinEntered, code
<1>19. CASE Cancelled
  <2>1. CloseSd(sd) \in SnapDecision
    BY <1>type, SdTypes DEF TypeOK
  <2>2. /\ shellMsgs # <<>> /\ shellMsgs' = Tail(shellMsgs)
        /\ obj' = Released(obj) /\ Reset(CloseSd(sd))
        /\ UNCHANGED <<links, unlockAll, pinRetries, pukRetries, card, shellUp, crashed>>
    BY <1>19 DEF Cancelled, NextMessage
  <2>3. obj \in [Modems -> Modem] /\ shellMsgs' \in Seq(Message)
    BY <1>type, <1>msg, <2>2 DEF TypeOK
  <2>4. /\ pendingUnlocks' \in Seq(Modems) /\ dlgModem' \in Modems \cup {NoModem}
        /\ dlgState' \in {"ready", "unlocking"} /\ enterPinState' \in EnterPinStates
        /\ newPin' = NoCode /\ pukCode' = NoCode /\ connections' \subseteq Modems
        /\ sd' \in SnapDecision /\ obj' \in [Modems -> Modem] /\ Updated(obj')
        /\ DialogSound' /\ QueueSound' /\ StepDefined'
    BY <1>type, <2>1, <2>2, <2>3, ResetSound
  <2> QED
    BY <1>type, <2>2, <2>3, <2>4 DEF IInv, TypeOK
<1>20. CASE PopupActivated
  <2>1. /\ shellMsgs # <<>> /\ shellMsgs' = Tail(shellMsgs) /\ sd' = ResetActionStates(sd)
        /\ UNCHANGED <<managerVars, dialogVars, obj, card, shellUp, crashed>>
    BY <1>20 DEF PopupActivated, NextMessage
  <2>2. sd' \in SnapDecision
    BY <1>type, <2>1, SdTypes DEF TypeOK
  <2> QED
    BY <1>type, <1>msg, <1>keep, <2>1, <2>2 DEF TypeOK
<1>21. CASE UserAnswers
  <2>1. /\ \E msg \in Message : shellMsgs' = Append(shellMsgs, msg)
        /\ UNCHANGED <<managerVars, dialogVars, sd, obj, card, shellUp, crashed>>
    BY <1>21 DEF UserAnswers
  <2>2. shellMsgs' \in Seq(Message)
    BY <1>type, <2>1 DEF TypeOK
  <2> QED
    BY <1>type, <1>keep, <2>1, <2>2 DEF TypeOK
<1>22. ASSUME NEW m \in Modems, OfonoAnswers(m) PROVE IInv'
  <2> DEFINE op == Head(obj[m].calls)
             p == PathOf[m]
  <2>1. PICK right \in BOOLEAN :
           /\ card' = IF Linked(m) THEN [card EXCEPT ![p] = Tried(@, op, right)] ELSE card
           /\ obj' = [obj EXCEPT ![m] =
                      Answered(obj[m], op, right /\ Linked(m) /\ Accepts(card[p], op))]
    BY <1>22, Zenon DEF OfonoAnswers
  <2> DEFINE ok == right /\ Linked(m) /\ Accepts(card[p], op)
             r == Answered(obj[m], op, ok)
  <2>2. /\ obj[m].calls # <<>>
        /\ UNCHANGED <<managerVars, dialogVars, sd, shellUp, shellMsgs, crashed>>
    BY <1>22 DEF OfonoAnswers
  <2>3. obj[m].calls \in Seq(Ops) /\ obj[m].replies \in Seq(Reply)
    BY <1>obj DEF Modem
  <2>4. op \in Ops /\ Tail(obj[m].calls) \in Seq(Ops)
    BY <2>2, <2>3
  <2>ok. ok \in BOOLEAN
    OBVIOUS
  <2>9. obj' = [obj EXCEPT ![m] = r]
    BY <2>1
  <2> HIDE DEF op, ok
  <2>5. [op |-> op, ok |-> ok] \in Reply
    BY <2>4, <2>ok DEF Reply
  <2>6. Append(obj[m].replies, [op |-> op, ok |-> ok]) \in Seq(Reply)
    BY <2>3, <2>5
  <2>7. r \in Modem /\ r.requiredPin = obj[m].requiredPin
    BY <1>obj, <2>4, <2>6 DEF Modem, Answered
  <2>8. obj[m].requiredPin \in PinType
    BY <1>obj, <2>2 DEF Busy
  <2> HIDE DEF r
  <2>10. /\ [obj EXCEPT ![m] = r] \in [Modems -> Modem] /\ Updated([obj EXCEPT ![m] = r])
         /\ \A n \in Modems : [obj EXCEPT ![m] = r][n].requiredPin = obj[n].requiredPin
    BY <1>obj, <1>type, <2>7, <2>8, ObjTypes
  <2>11. card' \in [Paths -> Card]
    <3>1. p \in Paths /\ card \in [Paths -> Card] /\ card[p] \in Card
      BY <1>type DEF TypeOK
    <3>2. Tried(card[p], op, right) \in Card
      BY <3>1, TriedType
    <3> QED
      BY <2>1, <3>1, <3>2
  <2> QED
    BY <1>type, <1>keep, <2>2, <2>9, <2>10, <2>11 DEF TypeOK
<1>23. ASSUME NEW p \in Paths, CardChanged(p) PROVE IInv'
  <2>1. /\ \/ card' = [card EXCEPT ![p] = [card[p] EXCEPT !.lock = "none", !.pin = MaxPin]]
           \/ card' = [card EXCEPT ![p] = [card[p] EXCEPT !.lock = "pin"]]
        /\ UNCHANGED <<managerVars, dialogVars, sd, obj, shellUp, shellMsgs, crashed>>
    BY <1>23 DEF CardChanged
  <2>2. card \in [Paths -> Card] /\ card[p] \in Card
    BY <1>type DEF TypeOK
  <2>3. /\ [card[p] EXCEPT !.lock = "none", !.pin = MaxPin] \in Card
        /\ [card[p] EXCEPT !.lock = "pin"] \in Card
    <3>1. MaxPin \in 0..MaxPin /\ "none" \in PinType /\ "pin" \in PinType
      BY DEF PinType
    <3> QED
      BY <2>2, <3>1 DEF Card
  <2>4. card' \in [Paths -> Card]
    BY <2>1, <2>2, <2>3
  <2> QED
    BY <1>type, <1>keep, <2>1, <2>4 DEF TypeOK
<1>24. ASSUME ShellStops \/ ShellStarts \/ NotificationClosed PROVE IInv'
  <2>1. sd' \in SnapDecision
    BY <1>type, <1>24 DEF ShellStops, ShellStarts, NotificationClosed, TypeOK, SnapDecision
  <2>2. shellUp' \in BOOLEAN
    BY <1>type, <1>24 DEF ShellStops, ShellStarts, NotificationClosed, TypeOK
  <2>3. UNCHANGED <<managerVars, dialogVars, obj, card, shellMsgs, crashed>>
    BY <1>24 DEF ShellStops, ShellStarts, NotificationClosed
  <2> QED
    BY <1>type, <1>keep, <2>1, <2>2, <2>3 DEF TypeOK
<1>25. CASE Restart
  <2> USE <1>25 DEF Restart
  <2>1. IdleSd \in SnapDecision
    BY DEF IdleSd, SnapDecision, Popup, Callback
  <2>2. TypeOK'
    BY <1>type, <2>1, DestroyedType DEF TypeOK, EnterPinStates
  <2>3. DialogSound' /\ QueueSound' /\ StepDefined'
    BY DEF DialogSound, QueueSound, StepDefined
  <2>4. Updated(obj')
    BY DestroyedType DEF Updated
  <2> QED
    BY <2>2, <2>3, <2>4 DEF IInv
<1>26. CASE UNCHANGED vars
  BY <1>type, <1>keep, <1>26 DEF TypeOK, vars
<1>27. CASE Handler
  <2>1. \A m \in Modems : CardRetries(PathOf[m]) \in Retries
    BY <1>type DEF TypeOK, Card, CardRetries, Retries
  <2> QED
    BY <1>1, <1>2, <1>4, <1>6, <1>7, <1>8, <1>10, <1>11, <1>12, <1>13, <1>14, <1>15,
       <1>18, <1>19, <1>20, <1>27, <2>1 DEF Handler
<1>28. CASE Environment
  BY <1>21, <1>22, <1>24, <1>28 DEF Environment
<1>29. ASSUME NEW kind \in FaultKinds, Fault(kind) PROVE IInv'
  <2>1. NegativeRetries \in Retries
    BY DEF NegativeRetries, Retries
  <2> QED
    BY <1>5, <1>7, <1>9, <1>23, <1>24, <1>29, <2>1 DEF Fault
<1> QED
  BY <1>3, <1>25, <1>26, <1>27, <1>28, <1>29 DEF Next, Regular

(* The inductive invariant holds in every reachable state. *)
THEOREM Invariance == Spec => []IInv
<1>1. IInv /\ [Next]_vars => IInv'
  BY NextIInv
<1> QED
  BY InitIInv, <1>1, PTL DEF Spec

(* The dialog, the snap decision and the modem objects are well-typed in   *)
(* every reachable state: whatever m_requiredPin holds before its first    *)
(* update(), the dialog only ever asks for a PIN, a PUK or a new PIN.      *)
THEOREM TypeCorrect == Spec => []TypeOK
<1>1. IInv => TypeOK
  BY DEF IInv
<1> QED
  BY Invariance, <1>1, PTL

(* For any number of modems, the dialog is connected to the signals of the *)
(* modem it unlocks and of no other one, and is idle exactly when it has   *)
(* none; reset() never leaves a code behind.                               *)
THEOREM DialogCorrect == Spec => []DialogSound
<1>1. IInv => DialogSound
  BY DEF IInv
<1> QED
  BY Invariance, <1>1, PTL

(* For any number of modems, m_pendingUnlocks holds each modem at most     *)
(* once, only modems of m_ofonoLinks, and never the one in the dialog.     *)
THEOREM QueueCorrect == Spec => []QueueSound
<1>1. IInv => QueueSound
  BY DEF IInv
<1> QED
  BY Invariance, <1>1, PTL

----------------------------------------------------------------------------
(* PromptSound: what is on the screen fits what the dialog waits for.  The *)
(* notification server takes every prompt with it when it stops, so that a *)
(* prompt of an earlier step never outlives one that could not be shown.   *)
PromptFits(screen, m, step) ==
    screen # Nothing =>
       /\ screen.modem = m
       /\ step # "initial"
       /\ screen.asks = "puk" => step = "enterPuk"
       /\ step = "enterPin" => screen.asks = "pin"

ScreenNeedsShell == ~shellUp => sd.screen = Nothing

PromptInv == PromptSound /\ ScreenNeedsShell

(* No popup and no close() puts a prompt on the screen, close() leaves     *)
(* none there, and show() replaces the one that is there.                  *)
LEMMA Screens ==
    ASSUME NEW s \in SnapDecision
    PROVE  /\ ResetActionStates(s).screen \in {s.screen, Nothing}
           /\ \A popup \in Popup, closed \in Callback :
                 ShowPopup(s, popup, closed).screen \in {s.screen, Nothing}
           /\ shellUp \/ s.screen = Nothing => CloseSd(s).screen = Nothing
           /\ \A prompt \in Prompt :
                 Show(s, prompt).screen = IF shellUp THEN prompt ELSE s.screen
<1>1. \A t \in SnapDecision : /\ CloseNotification(t).screen = IF shellUp THEN Nothing ELSE t.screen
                              /\ CloseNotification(t) \in SnapDecision
  BY DEF CloseNotification, SnapDecision
<1>2. \A t \in SnapDecision, u \in Popup :
         /\ [t EXCEPT !.popup = u] \in SnapDecision
         /\ [t EXCEPT !.popup = u].screen = t.screen
  BY DEF SnapDecision
<1>3. \A t \in SnapDecision, c \in Callback :
         /\ [t EXCEPT !.popupClosed = c] \in SnapDecision
         /\ [t EXCEPT !.popupClosed = c].screen = t.screen
  BY DEF SnapDecision
<1>4. ASSUME NEW t \in SnapDecision
      PROVE  RunPopupClosed(t) \in SnapDecision /\ RunPopupClosed(t).screen \in {t.screen, Nothing}
  <2>1. /\ [t EXCEPT !.popupClosed = "none"] \in SnapDecision
        /\ [t EXCEPT !.popupClosed = "none"].screen = t.screen
    BY <1>3 DEF Callback
  <2>2. "lastPuk" \in Popup /\ "" \in Popup
    BY DEF Popup
  <2> QED
    BY <1>1, <1>2, <2>1, <2>2 DEF RunPopupClosed
<1>5. ResetActionStates(s) \in SnapDecision /\ ResetActionStates(s).screen \in {s.screen, Nothing}
  <2>1. "" \in Popup
    BY DEF Popup
  <2> QED
    BY <1>2, <1>4, <2>1 DEF ResetActionStates
<1>6. ASSUME NEW popup \in Popup, NEW closed \in Callback
      PROVE  ShowPopup(s, popup, closed).screen \in {s.screen, Nothing}
  BY <1>2, <1>3, <1>4 DEF ShowPopup
<1>7. shellUp \/ s.screen = Nothing => CloseSd(s).screen = Nothing
  BY <1>1, <1>5 DEF CloseSd
<1>8. \A prompt \in Prompt : Show(s, prompt).screen = IF shellUp THEN prompt ELSE s.screen
  BY DEF Show, SnapDecision
<1> QED
  BY <1>5, <1>6, <1>7, <1>8

(* The dialog's update() with a prompt on the screen that fits the step,   *)
(* where update() does not replace it.                                     *)
LEMMA UpdatedFits ==
    ASSUME NEW s \in SnapDecision, NEW m \in Modems, NEW step \in EnterPinStates,
           NEW type, step # "initial" => type \in PinType, step = "enterPin" => type # "puk",
           step = "initial" \/ (step \in {"enterPin", "enterPuk"} /\ type = "none") =>
              PromptFits(s.screen, m, step),
           ~shellUp => s.screen = Nothing
    PROVE  /\ PromptFits(UpdatedSd(s, m, step, type).screen, m, step)
           /\ ~shellUp => UpdatedSd(s, m, step, type).screen = Nothing
<1>1. CASE step = "initial" \/ (step \in {"enterPin", "enterPuk"} /\ type = "none")
  BY <1>1 DEF UpdatedSd
<1>2. CASE ~(step = "initial" \/ (step \in {"enterPin", "enterPuk"} /\ type = "none"))
  <2> DEFINE prompt == [modem |-> m, asks |-> Asks(step, type)]
  <2>1. /\ Asks(step, type) \in {"pin", "puk", "newPin", "confirmPin"}
        /\ Asks(step, type) = "puk" => step = "enterPuk"
        /\ step = "enterPin" => Asks(step, type) = "pin"
    BY <1>2 DEF Asks, EnterPinStates, PinType
  <2>2. prompt \in Prompt /\ prompt.modem = m /\ prompt.asks = Asks(step, type)
    BY <2>1 DEF Prompt
  <2>3. UpdatedSd(s, m, step, type) = Show(s, prompt)
    BY <1>2 DEF UpdatedSd
  <2> HIDE DEF prompt
  <2>4. UpdatedSd(s, m, step, type).screen = IF shellUp THEN prompt ELSE s.screen
    BY <2>2, <2>3, Screens
  <2> QED
    BY <1>2, <2>1, <2>2, <2>4 DEF PromptFits
<1> QED
  BY <1>1, <1>2

(* The popups of unlock() leave an empty screen empty. *)
LEMMA RemindedScreen ==
    ASSUME NEW s \in SnapDecision, NEW o, s.screen = Nothing
    PROVE  Reminded(s, o).screen = Nothing
<1>1. \A popup \in Popup, closed \in Callback : ShowPopup(s, popup, closed).screen = Nothing
  BY Screens
<1>2. {"lastPin", "permanentlyBlocked", "pinBlocked"} \subseteq Popup
  BY DEF Popup
<1>3. {"none", "close", "lastPuk", "nop"} \subseteq Callback
  BY DEF Callback
<1> QED
  BY <1>1, <1>2, <1>3 DEF Reminded

(* unlock() on an empty screen. *)
LEMMA UnlockFits ==
    ASSUME IInv, NEW m \in Modems, NEW s \in SnapDecision, s.screen = Nothing,
           obj[m].requiredPin # "none", Unlock(m, "initial", {}, s), shellUp' = shellUp
    PROVE  PromptInv'
<1>1. obj[m] \in Modem /\ obj[m].requiredPin \in RequiredPin
  BY DEF IInv, TypeOK, Modem
<1> DEFINE type == obj[m].requiredPin
           step == UpdatedStep(FirstStep("initial", type), type)
           t == Reminded(s, obj[m])
<1>2. /\ step \in EnterPinStates /\ (step # "initial" => type \in PinType)
      /\ step = "enterPin" => type # "puk"
  BY <1>1 DEF UpdatedStep, FirstStep, EnterPinStates, PinType
<1>3. t \in SnapDecision /\ t.screen = Nothing
  BY <1>1, RemindedType, RemindedScreen
<1>4. dlgModem' = m /\ enterPinState' = step /\ sd' = UpdatedSd(t, m, step, type)
  BY DEF Unlock
<1> HIDE DEF type, step, t
<1>5. /\ PromptFits(UpdatedSd(t, m, step, type).screen, m, step)
      /\ ~shellUp => UpdatedSd(t, m, step, type).screen = Nothing
  BY <1>2, <1>3, UpdatedFits DEF PromptFits
<1> QED
  BY <1>4, <1>5 DEF PromptInv, PromptSound, ScreenNeedsShell, PromptFits

(* An idle dialog has an empty screen. *)
LEMMA IdleScreen ==
    ASSUME IInv, PromptInv, dlgState = "ready"
    PROVE  sd \in SnapDecision /\ sd.screen = Nothing /\ enterPinState = "initial"
BY DEF IInv, DialogSound, TypeOK, PromptInv, PromptSound

(* A step that leaves the dialog and the notification alone. *)
LEMMA PromptKept ==
    ASSUME PromptInv, UNCHANGED <<dlgModem, enterPinState, sd, shellUp>>
    PROVE  PromptInv'
BY DEF PromptInv, PromptSound, ScreenNeedsShell

(* unlockModem(). *)
LEMMA RequestUnlockFits ==
    ASSUME IInv, PromptInv, NEW m \in Modems, NEW o, RequestUnlock(m, o), shellUp' = shellUp
    PROVE  PromptInv'
<1>1. CASE UnlockNow(m)
  <2>1. /\ dlgState = "ready" /\ obj[m].requiredPin # "none"
        /\ Unlock(m, enterPinState, connections, sd)
    BY <1>1 DEF UnlockNow, IsReadyToUnlock
  <2>2. sd \in SnapDecision /\ sd.screen = Nothing /\ enterPinState = "initial"
    BY <2>1, IdleScreen
  <2>3. connections = {}
    BY <2>1 DEF IInv, DialogSound
  <2> QED
    BY <2>1, <2>2, <2>3, UnlockFits
<1>2. CASE ~UnlockNow(m)
  BY <1>2, PromptKept DEF RequestUnlock, UnlockLater
<1> QED
  BY <1>1, <1>2

(* reset() after close(). *)
LEMMA ResetFits ==
    ASSUME IInv, PromptInv, Reset(CloseSd(sd)), shellUp' = shellUp
    PROVE  PromptInv'
<1> DEFINE s == CloseSd(sd)
<1>1. sd \in SnapDecision /\ pendingUnlocks \in Seq(Modems)
  BY DEF IInv, TypeOK
<1>2. s \in SnapDecision /\ s.screen = Nothing
  BY <1>1, SdTypes, Screens DEF PromptInv, ScreenNeedsShell
<1> HIDE DEF s
<1>3. CASE ReadyUnlocks
  <2> DEFINE m == Head(pendingUnlocks)
  <2>1. m \in Modems /\ obj[m].requiredPin # "none" /\ Unlock(m, "initial", {}, s)
    BY <1>1, <1>3 DEF ReadyUnlocks, Reset, DisconnectedAll, s
  <2> HIDE DEF m
  <2> QED
    BY <1>2, <2>1, UnlockFits
<1>4. CASE ~ReadyUnlocks
  BY <1>2, <1>4 DEF Reset, s, PromptInv, PromptSound, ScreenNeedsShell
<1> QED
  BY <1>3, <1>4

(* The slot update() of the dialog. *)
LEMMA UpdateSlotFits ==
    ASSUME IInv, IInv', PromptInv, NEW m \in Modems, UpdateSlot(m),
           UNCHANGED <<dlgModem, shellUp>>
    PROVE  PromptInv'
<1>1. CASE m \in connections /\ dlgModem # NoModem /\ Emits(m)
  <2> DEFINE type == obj'[dlgModem].requiredPin
  <2>1. PICK step : step = UpdatedStep(enterPinState, type)
    OBVIOUS
  <2>2. enterPinState' = step /\ sd' = UpdatedSd(sd, dlgModem, step, type)
    BY <1>1, <2>1 DEF UpdateSlot
  <2>3. /\ dlgModem \in Modems /\ sd \in SnapDecision /\ step \in EnterPinStates
        /\ step # "initial" => type \in PinType
    BY <1>1, <2>2 DEF IInv, TypeOK, StepDefined
  <2>4. /\ step = "enterPin" => type # "puk"
        /\ type = "none" \/ step = "initial" => step = enterPinState
    BY <2>1 DEF UpdatedStep
  <2>5. PICK ty : ty = type
    OBVIOUS
  <2>6. /\ PromptFits(UpdatedSd(sd, dlgModem, step, ty).screen, dlgModem, step)
        /\ ~shellUp => UpdatedSd(sd, dlgModem, step, ty).screen = Nothing
    <3> HIDE DEF type
    <3> QED
      BY <2>3, <2>4, <2>5, UpdatedFits DEF PromptInv, PromptSound, ScreenNeedsShell, PromptFits
  <2> QED
    BY <2>2, <2>5, <2>6 DEF PromptInv, PromptSound, ScreenNeedsShell, PromptFits
<1>2. CASE ~(m \in connections /\ dlgModem # NoModem /\ Emits(m))
  BY <1>2, PromptKept DEF UpdateSlot
<1> QED
  BY <1>1, <1>2

(* Every step keeps the prompt in line with the dialog. *)
LEMMA NextPrompt == IInv /\ PromptInv /\ [Next]_vars => PromptInv'
<1> SUFFICES ASSUME IInv, PromptInv, [Next]_vars PROVE PromptInv'
  OBVIOUS
<1>next. IInv'
  BY NextIInv
<1>type. /\ sd \in SnapDecision /\ obj \in [Modems -> Modem] /\ PromptSound /\ ScreenNeedsShell
         /\ enterPinState # "initial" => /\ dlgModem \in Modems
                                         /\ obj[dlgModem].requiredPin \in PinType
  BY DEF IInv, TypeOK, DialogSound, StepDefined, PromptInv
<1>1. ASSUME NEW m \in Modems, UnlockModem(m) PROVE PromptInv'
  BY <1>1, RequestUnlockFits DEF UnlockModem
<1>2. CASE UnlockAllModems
  BY <1>2, PromptKept DEF UnlockAllModems, dialogVars
<1>3. CASE UnlockAllStep
  <2>1. shellUp' = shellUp
    BY <1>3 DEF UnlockAllStep
  <2>2. CASE \E m \in Modems : RequestUnlock(m, obj)
    BY <2>1, <2>2, RequestUnlockFits
  <2>3. CASE UNCHANGED <<dlgModem, enterPinState, sd>>
    BY <2>1, <2>3, PromptKept
  <2> QED
    BY <1>3, <2>2, <2>3 DEF UnlockAllStep
<1>4. ASSUME NEW p \in Paths, ModemAdded(p) PROVE PromptInv'
  BY <1>4, PromptKept DEF ModemAdded, dialogVars
<1>5. ASSUME NEW p \in Paths, ModemRemoved(p) PROVE PromptInv'
  <2>1. UNCHANGED <<dlgModem, enterPinState, shellUp>>
    BY <1>5 DEF ModemRemoved, dialogVars
  <2>2. CASE sd' = sd
    BY <2>1, <2>2, PromptKept
  <2>3. CASE sd' = CloseSd(sd)
    <3>1. sd'.screen = Nothing
      BY <1>type, <2>3, Screens DEF ScreenNeedsShell
    <3> QED
      BY <3>1 DEF PromptInv, PromptSound, ScreenNeedsShell
  <2> QED
    BY <1>5, <2>2, <2>3 DEF ModemRemoved
<1>6. ASSUME NEW m \in Modems, UpdateSlot(m), ModemUnchanged PROVE PromptInv'
  BY <1>6, <1>next, UpdateSlotFits DEF ModemUnchanged
<1>7. ASSUME NEW m \in Modems,
             \/ PinRequiredChanged(m) \/ SimManagerAdded(m) \/ SimManagerRemoved(m)
             \/ OtherPropertyChanged(m) \/ \E r : PinRetriesChanged(m, r)
      PROVE  PromptInv'
  BY <1>6, <1>7 DEF PinRequiredChanged, SimManagerAdded, SimManagerRemoved,
     OtherPropertyChanged, PinRetriesChanged
<1>8. ASSUME NEW m \in Modems, FireUpdate(m) PROVE PromptInv'
  <2>1. shellUp' = shellUp
    BY <1>8 DEF FireUpdate
  <2>2. CASE \E n \in Modems : \E o : RequestUnlock(n, o)
    BY <2>1, <2>2, RequestUnlockFits
  <2>3. CASE UNCHANGED <<dlgModem, enterPinState, sd>>
    BY <2>1, <2>3, PromptKept
  <2> QED
    BY <1>8, <2>2, <2>3 DEF FireUpdate
<1>9. ASSUME Reset(CloseSd(sd)), shellUp' = shellUp PROVE PromptInv'
  BY <1>9, ResetFits
<1>10. ASSUME NEW m \in Modems, PinSuccess(m) PROVE PromptInv'
  BY <1>9, <1>10 DEF PinSuccess
<1>11. CASE Cancelled
  BY <1>9, <1>11 DEF Cancelled
<1>12. ASSUME NEW m \in Modems, EnterPinFailed(m) \/ ResetPinFailed(m)
       PROVE  /\ dlgModem = m /\ dlgModem \in Modems /\ obj[dlgModem].requiredPin \in PinType
              /\ UNCHANGED <<dlgModem, shellUp>>
  <2>1. m \in connections /\ obj[m].replies # <<>> /\ UNCHANGED <<dlgModem, shellUp>>
    BY <1>12 DEF EnterPinFailed, ResetPinFailed
  <2> QED
    BY <2>1 DEF IInv, DialogSound, Updated, Busy
<1>13. ASSUME NEW m \in Modems, EnterPinFailed(m) PROVE PromptInv'
  <2>1. PICK type : type = obj[dlgModem].requiredPin
    OBVIOUS
  <2>2. PICK step : step = UpdatedStep(enterPinState, type)
    OBVIOUS
  <2>3. PICK s : s = PinFailedSd(sd, pinRetries - 1)
    OBVIOUS
  <2>4. /\ enterPinState' = step /\ sd' = UpdatedSd(s, dlgModem, step, type)
    BY <1>13, <2>1, <2>2, <2>3 DEF EnterPinFailed
  <2>5. s \in SnapDecision /\ s.screen \in {sd.screen, Nothing}
    BY <1>type, <2>3, SdTypes, Screens DEF PinFailedSd, Popup, Callback
  <2>6. /\ step \in EnterPinStates /\ (step = "enterPin" => type # "puk")
        /\ type = "none" \/ step = "initial" => step = enterPinState
    BY <1>next, <2>2, <2>4 DEF IInv, TypeOK, UpdatedStep
  <2>7. /\ PromptFits(UpdatedSd(s, dlgModem, step, type).screen, dlgModem, step)
        /\ ~shellUp => UpdatedSd(s, dlgModem, step, type).screen = Nothing
    BY <1>type, <1>12, <1>13, <2>1, <2>5, <2>6, UpdatedFits
       DEF PromptSound, PromptFits, ScreenNeedsShell
  <2> QED
    BY <1>12, <1>13, <2>4, <2>7 DEF PromptInv, PromptSound, ScreenNeedsShell, PromptFits
<1>14. ASSUME NEW m \in Modems, ResetPinFailed(m) PROVE PromptInv'
  <2>1. PICK type : type = obj[dlgModem].requiredPin
    OBVIOUS
  <2>3. PICK s : s = PukFailedSd(sd, pukRetries - 1)
    OBVIOUS
  <2>4. /\ enterPinState' = "enterPuk" /\ sd' = UpdatedSd(s, dlgModem, "enterPuk", type)
    BY <1>14, <2>1, <2>3 DEF ResetPinFailed
  <2>5. s \in SnapDecision /\ s.screen \in {sd.screen, Nothing}
    BY <1>type, <2>3, SdTypes, Screens DEF PukFailedSd, Popup, Callback
  <2>6. "enterPuk" \in EnterPinStates /\ "enterPuk" \notin {"initial", "enterPin"}
    BY DEF EnterPinStates
  <2>7. /\ PromptFits(UpdatedSd(s, dlgModem, "enterPuk", type).screen, dlgModem, "enterPuk")
        /\ ~shellUp => UpdatedSd(s, dlgModem, "enterPuk", type).screen = Nothing
    BY <1>type, <1>12, <1>14, <2>1, <2>5, <2>6, UpdatedFits
       DEF PromptSound, PromptFits, ScreenNeedsShell
  <2> QED
    BY <1>12, <1>14, <2>4, <2>7 DEF PromptInv, PromptSound, ScreenNeedsShell, PromptFits
<1>15. ASSUME NEW m \in Modems, ReplyIgnored(m) \/ OfonoAnswers(m) PROVE PromptInv'
  BY <1>15, PromptKept DEF ReplyIgnored, OfonoAnswers, dialogVars
<1>16. ASSUME enterPinState # "initial", NEW step \in {"enterNewPin", "confirmNewPin"},
              NEW puk, NEW pin, Advance(step, puk, pin), shellUp' = shellUp
       PROVE  PromptInv'
  <2>1. PICK type : type = obj[dlgModem].requiredPin
    OBVIOUS
  <2>2. /\ enterPinState' = step /\ sd' = UpdatedSd(sd, dlgModem, step, type)
        /\ UNCHANGED <<dlgModem, shellUp>>
    BY <1>16, <2>1 DEF Advance
  <2>3. step \in EnterPinStates /\ step \notin {"initial", "enterPin", "enterPuk"}
    BY DEF EnterPinStates
  <2>4. /\ PromptFits(UpdatedSd(sd, dlgModem, step, type).screen, dlgModem, step)
        /\ ~shellUp => UpdatedSd(sd, dlgModem, step, type).screen = Nothing
    BY <1>type, <1>16, <2>1, <2>3, UpdatedFits DEF ScreenNeedsShell
  <2> QED
    BY <2>2, <2>4 DEF PromptInv, PromptSound, ScreenNeedsShell, PromptFits
<1>17. CASE PinEntered
  <2>1. shellUp' = shellUp
    BY <1>17 DEF PinEntered
  <2>2. CASE PinEnteredInitial \/ SendThrows \/ SendEnterPin \/ SendResetPin
    BY <2>1, <2>2, PromptKept DEF PinEnteredInitial, SendThrows, SendEnterPin, SendResetPin,
       dialogVars
  <2>3. CASE \E puk, pin : /\ enterPinState # "initial"
                           /\ Advance("enterNewPin", puk, pin) \/ Advance("confirmNewPin", puk, pin)
    BY <1>16, <2>1, <2>3
  <2>4. \/ PinEnteredInitial \/ SendThrows \/ SendEnterPin \/ SendResetPin
        \/ \E puk, pin : /\ enterPinState # "initial"
                         /\ Advance("enterNewPin", puk, pin) \/ Advance("confirmNewPin", puk, pin)
    BY <1>17 DEF PinEntered
  <2> QED
    BY <2>2, <2>3, <2>4
<1>18. CASE PopupActivated
  <2>1. UNCHANGED <<dlgModem, enterPinState, shellUp>> /\ sd' = ResetActionStates(sd)
    BY <1>18 DEF PopupActivated, dialogVars
  <2>2. sd'.screen \in {sd.screen, Nothing}
    BY <1>type, <2>1, Screens
  <2> QED
    BY <1>type, <2>1, <2>2 DEF PromptInv, PromptSound, ScreenNeedsShell
<1>19. CASE UserAnswers
  BY <1>19, PromptKept DEF UserAnswers, dialogVars
<1>20. ASSUME NEW p \in Paths, CardChanged(p) PROVE PromptInv'
  BY <1>20, PromptKept DEF CardChanged, dialogVars
<1>21. ASSUME ShellStops \/ NotificationClosed PROVE PromptInv'
  <2>1. sd'.screen = Nothing
    BY <1>type, <1>21 DEF ShellStops, NotificationClosed, SnapDecision
  <2> QED
    BY <2>1 DEF PromptInv, PromptSound, ScreenNeedsShell
<1>22. CASE ShellStarts
  BY <1>type, <1>22 DEF ShellStarts, PromptInv, PromptSound, ScreenNeedsShell, dialogVars
<1>23. CASE Restart
  BY <1>23 DEF Restart, IdleSd, PromptInv, PromptSound, ScreenNeedsShell
<1>24. CASE UNCHANGED vars
  BY <1>24, PromptKept DEF vars, dialogVars
<1>25. CASE Handler
  BY <1>1, <1>2, <1>4, <1>7, <1>8, <1>10, <1>11, <1>13, <1>14, <1>15, <1>17, <1>18, <1>25
     DEF Handler
<1>26. CASE Environment
  BY <1>15, <1>19, <1>22, <1>26 DEF Environment
<1>27. ASSUME NEW kind \in FaultKinds, Fault(kind) PROVE PromptInv'
  BY <1>5, <1>7, <1>20, <1>21, <1>27 DEF Fault
<1> QED
  BY <1>3, <1>23, <1>24, <1>25, <1>26, <1>27 DEF Next, Regular

(* For any number of modems and whatever faults the shell and ofono add:   *)
(* the user is asked for what the dialog does with the answer, about the   *)
(* modem the dialog unlocks.                                               *)
THEOREM PromptCorrect == Spec => []PromptSound
<1>1. Init => PromptInv
  <2>1. IdleSd.screen = Nothing
    BY Zenon DEF IdleSd
  <2> QED
    BY <2>1 DEF Init, PromptInv, PromptSound, ScreenNeedsShell
<1>2. IInv /\ PromptInv /\ [Next]_vars => PromptInv'
  BY NextPrompt
<1>3. PromptInv => PromptSound
  BY DEF PromptInv
<1> QED
  BY Invariance, <1>1, <1>2, <1>3, PTL DEF Spec

-----------------------------------------------------------------------------
(* No request is lost.  Two facts are needed besides IInv: an object is    *)
(* held for its own path, and a modem that waits to become ready has an    *)
(* owner, so that no object is forgotten with its request.                 *)

LinksOwn == \A p \in Paths : links[p] \in Modems => PathOf[links[p]] = p

WaitersLive == \A m \in Modems : obj[m].shouldTriggerUnlock => Alive(m)

LiveInv == LinksOwn /\ WaitersLive

(* What RequestsKept says of one modem. *)
RequestKept(m) ==
    /\ InQueue(m) /\ ~InQueue(m)' =>
          dlgModem' = m \/ ~Linked(m)' \/ obj[m].requiredPin = "none"
    /\ obj[m].shouldTriggerUnlock /\ ~obj'[m].shouldTriggerUnlock =>
          dlgModem' = m \/ InQueue(m)' \/ ~Linked(m)'

AllKept == \A m \in Modems : RequestKept(m)

(* A step that moves no request. *)
LEMMA RequestsStill ==
    ASSUME LiveInv, UNCHANGED <<links, pendingUnlocks, dlgModem>>,
           \A m \in Modems : obj'[m].shouldTriggerUnlock = obj[m].shouldTriggerUnlock
    PROVE  LiveInv' /\ AllKept
BY DEF LiveInv, LinksOwn, WaitersLive, Alive, Linked, AllKept, RequestKept, InQueue

(* The objects with one of them changed, and its request not. *)
LEMMA WaitsAsBefore ==
    ASSUME NEW o \in [Modems -> Modem], NEW m \in Modems, NEW r,
           r.shouldTriggerUnlock = o[m].shouldTriggerUnlock
    PROVE  \A n \in Modems :
              [o EXCEPT ![m] = r][n].shouldTriggerUnlock = o[n].shouldTriggerUnlock
OBVIOUS

(* unlockModem() drops no request: the modem it is called for is in the    *)
(* dialog, in the queue or waiting.                                        *)
LEMMA RequestTaken ==
    ASSUME IInv, NEW n \in Modems, Linked(n), NEW o \in [Modems -> Modem],
           RequestUnlock(n, o), links' = links
    PROVE  /\ \A k \in Modems : InQueue(k) => InQueue(k)'
           /\ dlgModem' = dlgModem \/ dlgModem = NoModem
           /\ \A k \in Modems : k # n =>
                 obj'[k].shouldTriggerUnlock = o[k].shouldTriggerUnlock
           /\ o[n].shouldTriggerUnlock => obj'[n].shouldTriggerUnlock
           /\ dlgModem' = n \/ InQueue(n)' \/ obj'[n].shouldTriggerUnlock
<1>1. pendingUnlocks \in Seq(Modems)
  BY DEF IInv, TypeOK
<1>2. CASE UnlockNow(n) /\ obj' = o
  <2>1. dlgModem = NoModem /\ dlgModem' = n /\ pendingUnlocks' = pendingUnlocks
    BY <1>2 DEF UnlockNow, Unlock, IInv, DialogSound
  <2> QED
    BY <1>2, <2>1 DEF InQueue
<1>3. CASE /\ UnlockWhenReady(n)
           /\ obj' = [o EXCEPT ![n].shouldTriggerUnlock = TRUE]
           /\ UNCHANGED <<pendingUnlocks, dlgModem, dlgState, enterPinState, connections,
                          sd, newPin, pukCode>>
  <2>1. PICK r : r = [o[n] EXCEPT !.shouldTriggerUnlock = TRUE]
    OBVIOUS
  <2>2. r.shouldTriggerUnlock
    BY <2>1 DEF Modem
  <2>3. obj' = [o EXCEPT ![n] = r]
    BY <1>3, <2>1
  <2> QED
    BY <1>3, <2>2, <2>3 DEF InQueue
<1>4. CASE UnlockLater(n) /\ obj' = o
  <2>1. pendingUnlocks' = Append(pendingUnlocks, n) /\ dlgModem' = dlgModem
    BY <1>4 DEF UnlockLater
  <2>2. /\ Len(pendingUnlocks') = Len(pendingUnlocks) + 1 /\ Len(pendingUnlocks) \in Nat
        /\ \A i \in 1 .. Len(pendingUnlocks) : pendingUnlocks'[i] = pendingUnlocks[i]
        /\ pendingUnlocks'[Len(pendingUnlocks) + 1] = n
    BY <1>1, <2>1, AppendProperties
  <2>3. InQueue(n)'
    BY <2>2 DEF InQueue
  <2>4. \A k \in Modems : InQueue(k) => InQueue(k)'
    BY <2>2 DEF InQueue
  <2> QED
    BY <1>4, <2>1, <2>3, <2>4
<1>5. CASE /\ ~Eligible(n)
           /\ obj' = o
           /\ UNCHANGED <<pendingUnlocks, dlgModem, dlgState, enterPinState, connections,
                          sd, newPin, pukCode>>
  BY <1>5 DEF Eligible, InQueue
<1> QED
  BY <1>2, <1>3, <1>4, <1>5 DEF RequestUnlock

LEMMA RequestKeeps ==
    ASSUME IInv, LiveInv, NEW n \in Modems, Linked(n), RequestUnlock(n, obj), links' = links
    PROVE  LiveInv' /\ AllKept
<1>1. obj \in [Modems -> Modem]
  BY DEF IInv, TypeOK
<1>2. /\ \A k \in Modems : InQueue(k) => InQueue(k)'
      /\ dlgModem' = dlgModem \/ dlgModem = NoModem
      /\ \A k \in Modems : k # n => obj'[k].shouldTriggerUnlock = obj[k].shouldTriggerUnlock
      /\ obj[n].shouldTriggerUnlock => obj'[n].shouldTriggerUnlock
  BY <1>1, RequestTaken
<1>3. NoModem \notin Modems
  BY ConstantsAssumption
<1>4. \A k \in Modems : Alive(k) => Alive(k)'
  BY <1>2, <1>3 DEF Alive, Linked
<1>5. Alive(n)'
  BY DEF Alive, Linked
<1>6. LiveInv'
  BY <1>2, <1>4, <1>5 DEF LiveInv, LinksOwn, WaitersLive
<1>7. AllKept
  BY <1>2 DEF AllKept, RequestKept
<1> QED
  BY <1>6, <1>7

(* reset() takes the head of the queue off, into the dialog or because it  *)
(* needs no PIN any more.                                                  *)
LEMMA ResetKeeps ==
    ASSUME IInv, LiveInv, NEW s, Reset(s), links' = links,
           NEW o \in [Modems -> Modem], obj' = Released(o),
           \A m \in Modems : o[m].shouldTriggerUnlock = obj[m].shouldTriggerUnlock
    PROVE  LiveInv' /\ AllKept
<1>1. pendingUnlocks \in Seq(Modems) /\ pendingUnlocks' = RemainingUnlocks
  BY DEF IInv, TypeOK, Reset
<1>2. ASSUME NEW m \in Modems, InQueue(m), ~InQueue(m)'
      PROVE  dlgModem' = m \/ obj[m].requiredPin = "none"
  <2>1. PICK i \in 1 .. Len(pendingUnlocks) : pendingUnlocks[i] = m
    BY <1>2 DEF InQueue
  <2>2. pendingUnlocks # <<>> /\ pendingUnlocks' = Tail(pendingUnlocks)
    BY <1>1, <2>1 DEF RemainingUnlocks
  <2>3. /\ Len(pendingUnlocks) \in Nat \ {0}
        /\ Len(pendingUnlocks') = Len(pendingUnlocks) - 1
        /\ \A j \in 1 .. Len(pendingUnlocks') : pendingUnlocks'[j] = pendingUnlocks[j + 1]
        /\ Head(pendingUnlocks) = pendingUnlocks[1]
    BY <1>1, <2>2, HeadTailProperties, EmptySeq
  <2>4. i = 1
    <3>1. SUFFICES ASSUME i # 1 PROVE FALSE
      OBVIOUS
    <3>2. i - 1 \in 1 .. Len(pendingUnlocks') /\ pendingUnlocks'[i - 1] = m
      BY <2>1, <2>3, <3>1
    <3> QED
      BY <1>2, <3>2 DEF InQueue
  <2>5. m = Head(pendingUnlocks)
    BY <2>1, <2>3, <2>4
  <2> QED
    BY <2>2, <2>5 DEF Reset, ReadyUnlocks, Unlock
<1>3. ~Destroyed.shouldTriggerUnlock
  BY DEF Destroyed, Fresh
<1>4. CASE dlgModem \in Modems /\ ~Linked(dlgModem)
  <2>1. obj' = [o EXCEPT ![dlgModem] = Destroyed]
    BY <1>4 DEF Released
  <2>2. \A m \in Modems : obj'[m].shouldTriggerUnlock =>
                              obj[m].shouldTriggerUnlock /\ m # dlgModem
    BY <1>3, <2>1
  <2>3. \A m \in Modems : m # dlgModem => obj'[m].shouldTriggerUnlock = obj[m].shouldTriggerUnlock
    BY <2>1
  <2>5. LiveInv'
    <3>1. \A m \in Modems : Linked(m)' <=> Linked(m)
      BY DEF Linked
    <3>2. \A m \in Modems : Alive(m) /\ m # dlgModem => Linked(m)
      BY DEF Alive
    <3>3. LinksOwn'
      BY DEF LiveInv, LinksOwn
    <3>4. WaitersLive'
      BY <2>2, <3>1, <3>2 DEF LiveInv, WaitersLive, Alive
    <3> QED
      BY <3>3, <3>4 DEF LiveInv
  <2>6. AllKept
    <3> SUFFICES ASSUME NEW m \in Modems PROVE RequestKept(m)
      BY DEF AllKept
    <3>1. m = dlgModem => ~Linked(m)'
      BY <1>4 DEF Linked
    <3> QED
      BY <1>2, <2>3, <3>1 DEF RequestKept
  <2> QED
    BY <2>5, <2>6
<1>5. CASE ~(dlgModem \in Modems /\ ~Linked(dlgModem))
  <2>1. obj' = o
    BY <1>5 DEF Released
  <2>2. LiveInv'
    <3>1. \A m \in Modems : Linked(m)' <=> Linked(m)
      BY DEF Linked
    <3>2. \A m \in Modems : Alive(m) => Linked(m)
      BY <1>5 DEF Alive
    <3> QED
      BY <2>1, <3>1, <3>2 DEF LiveInv, LinksOwn, WaitersLive, Alive
  <2>3. AllKept
    BY <1>2, <2>1 DEF AllKept, RequestKept
  <2> QED
    BY <2>2, <2>3
<1> QED
  BY <1>4, <1>5

(* A new object for a path begins with no request. *)
LEMMA AddKeeps ==
    ASSUME IInv, LiveInv, NEW p \in Paths, ModemAdded(p)
    PROVE  LiveInv' /\ AllKept
<1>1. PICK m \in Modems, type \in RequiredPin :
          /\ PathOf[m] = p /\ ~Alive(m)
          /\ links' = [links EXCEPT ![p] = m]
          /\ obj' = [obj EXCEPT ![m] = Fresh(type)]
  BY DEF ModemAdded
<1>2. links[p] = Absent /\ UNCHANGED <<pendingUnlocks, dlgModem>>
  BY DEF ModemAdded, dialogVars
<1>3. ~Fresh(type).shouldTriggerUnlock
  BY DEF Fresh
<1>4. /\ links \in [Paths -> Modems \cup {Absent, Null}] /\ obj \in [Modems -> Modem]
      /\ Absent \notin Modems
  BY ConstantsAssumption DEF IInv, TypeOK
<1>5. LinksOwn'
  BY <1>1, <1>4 DEF LiveInv, LinksOwn
<1>6. \A k \in Modems : Linked(k) => Linked(k)'
  BY <1>1, <1>2, <1>4 DEF Linked
<1>7. \A k \in Modems : Alive(k) => Alive(k)'
  BY <1>2, <1>6 DEF Alive
<1>8. \A k \in Modems : obj'[k].shouldTriggerUnlock => obj[k].shouldTriggerUnlock
  BY <1>1, <1>3, <1>4
<1>9. WaitersLive'
  BY <1>7, <1>8 DEF LiveInv, WaitersLive
<1>10. AllKept
  <2> SUFFICES ASSUME NEW k \in Modems PROVE RequestKept(k)
    BY DEF AllKept
  <2>1. k # m => obj'[k] = obj[k]
    BY <1>1, <1>4
  <2>2. ~obj[m].shouldTriggerUnlock
    BY <1>1 DEF LiveInv, WaitersLive
  <2> QED
    BY <1>2, <2>1, <2>2 DEF RequestKept, InQueue
<1> QED
  BY <1>5, <1>9, <1>10 DEF LiveInv

(* A modem that goes leaves the queue; the others stay in it. *)
LEMMA RemoveKeeps ==
    ASSUME IInv, LiveInv, NEW p \in Paths, ModemRemoved(p)
    PROVE  LiveInv' /\ AllKept
<1>1. PICK m : m = links[p]
  OBVIOUS
<1>2. /\ links' = [links EXCEPT ![p] = Absent] /\ dlgModem' = dlgModem
      /\ obj' = IF m \in Modems /\ dlgModem # m
                THEN [obj EXCEPT ![m] = Destroyed] ELSE obj
      /\ pendingUnlocks' = IF m \in Modems /\ InQueue(m)
                           THEN RemoveAt(pendingUnlocks, QueueIndex(m)) ELSE pendingUnlocks
  BY <1>1 DEF ModemRemoved, dialogVars
<1>3. /\ links \in [Paths -> Modems \cup {Absent, Null}] /\ obj \in [Modems -> Modem]
      /\ pendingUnlocks \in Seq(Modems)
      /\ Absent \notin Modems /\ PathOf \in [Modems -> Paths]
  BY ConstantsAssumption DEF IInv, TypeOK
<1>4. m \in Modems => PathOf[m] = p /\ Linked(m)
  BY <1>1 DEF LiveInv, LinksOwn, Linked
<1>5. ASSUME NEW k \in Modems
      PROVE  /\ k = m => ~Linked(k)'
             /\ k # m => (Linked(k)' <=> Linked(k))
  BY <1>1, <1>2, <1>3, <1>4 DEF Linked
<1>6. ASSUME NEW k \in Modems, k # m, InQueue(k)
      PROVE  InQueue(k)'
  <2>1. CASE ~(m \in Modems /\ InQueue(m))
    BY <1>2, <1>6, <2>1 DEF InQueue
  <2>2. CASE m \in Modems /\ InQueue(m)
    <3>1. PICK q : q = QueueIndex(m)
      OBVIOUS
    <3>2. q \in 1 .. Len(pendingUnlocks) /\ pendingUnlocks[q] = m
      BY <2>2, <3>1 DEF QueueIndex, InQueue
    <3>3. pendingUnlocks' = RemoveAt(pendingUnlocks, q)
      BY <1>2, <2>2, <3>1
    <3>4. /\ Len(pendingUnlocks) \in Nat
          /\ Len(pendingUnlocks') = Len(pendingUnlocks) - 1
          /\ \A i \in 1 .. (Len(pendingUnlocks) - 1) :
                pendingUnlocks'[i] = pendingUnlocks[IF i < q THEN i ELSE i + 1]
      <4>1. PICK u : u = pendingUnlocks
        OBVIOUS
      <4>2. u \in Seq(Modems) /\ q \in 1 .. Len(u)
        BY <1>3, <3>2, <4>1
      <4>3. /\ Len(RemoveAt(u, q)) = Len(u) - 1
            /\ \A i \in 1 .. (Len(u) - 1) : RemoveAt(u, q)[i] = u[IF i < q THEN i ELSE i + 1]
        BY <4>2, RemoveAtProperties
      <4> QED
        BY <3>3, <4>1, <4>2, <4>3
    <3>5. PICK i \in 1 .. Len(pendingUnlocks) : pendingUnlocks[i] = k
      BY <1>6 DEF InQueue
    <3>6. i # q
      BY <1>6, <3>2, <3>5
    <3>7. CASE i < q
      <4>1. i \in 1 .. Len(pendingUnlocks') /\ pendingUnlocks'[i] = k
        BY <3>2, <3>4, <3>5, <3>7
      <4> QED
        BY <4>1 DEF InQueue
    <3>8. CASE ~(i < q)
      <4>1. i - 1 \in 1 .. Len(pendingUnlocks') /\ pendingUnlocks'[i - 1] = k
        BY <3>2, <3>4, <3>5, <3>6, <3>8
      <4> QED
        BY <4>1 DEF InQueue
    <3> QED
      BY <3>7, <3>8
  <2> QED
    BY <2>1, <2>2
<1>7. ~Destroyed.shouldTriggerUnlock
  BY DEF Destroyed, Fresh
<1>8. ASSUME NEW k \in Modems
      PROVE  /\ k # m => obj'[k] = obj[k]
             /\ obj'[k].shouldTriggerUnlock =>
                   obj[k].shouldTriggerUnlock /\ (k = m => dlgModem = m)
  BY <1>2, <1>3, <1>7
<1>9. LinksOwn'
  BY <1>2, <1>3 DEF LiveInv, LinksOwn
<1>10. WaitersLive'
  BY <1>2, <1>5, <1>8 DEF LiveInv, WaitersLive, Alive
<1>11. AllKept
  BY <1>5, <1>6, <1>8 DEF AllKept, RequestKept
<1> QED
  BY <1>9, <1>10, <1>11 DEF LiveInv

(* The throttled update: a modem stops waiting when it is taken up, or     *)
(* when another object, or none, is held for its path.                     *)
LEMMA FireKeeps ==
    ASSUME IInv, LiveInv, NEW m \in Modems, FireUpdate(m)
    PROVE  LiveInv' /\ AllKept
<1> DEFINE trigger == IsReadyToUnlock(m) /\ obj[m].shouldTriggerUnlock
           p == PathOf[m]
<1>0. /\ links \in [Paths -> Modems \cup {Absent, Null}] /\ obj \in [Modems -> Modem]
      /\ Absent \notin Modems /\ Null \notin Modems /\ NoModem \notin Modems
      /\ p \in Paths
  BY ConstantsAssumption DEF IInv, TypeOK
<1>1. PICK waits \in BOOLEAN : waits <=> obj[m].shouldTriggerUnlock /\ ~trigger
  BY Zenon
<1>2. PICK r : r = [obj[m] EXCEPT !.updatedTimer = FALSE, !.shouldTriggerUnlock = waits]
  OBVIOUS
<1>3. PICK o : o = [obj EXCEPT ![m] = r]
  OBVIOUS
<1>4. r \in Modem /\ (r.shouldTriggerUnlock <=> waits)
  BY <1>0, <1>2 DEF Modem
<1>5. /\ o \in [Modems -> Modem]
      /\ o[m] = r
      /\ \A k \in Modems : k # m => o[k] = obj[k]
  BY <1>0, <1>3, <1>4
<1>6. /\ links' = IF trigger /\ links[p] = Absent THEN [links EXCEPT ![p] = Null] ELSE links
      /\ IF trigger /\ links[p] \in Modems
         THEN RequestUnlock(links[p], o)
         ELSE obj' = o /\ UNCHANGED <<pendingUnlocks, dlgModem>>
  <2>1. waits = (obj[m].shouldTriggerUnlock /\ ~trigger)
    BY <1>0, <1>1 DEF Modem, IsReadyToUnlock
  <2>2. o = [obj EXCEPT ![m] = [@ EXCEPT !.updatedTimer = FALSE,
                                         !.shouldTriggerUnlock = waits]]
    BY <1>2, <1>3
  <2> QED
    BY <2>1, <2>2, Zenon DEF FireUpdate
<1>7. CASE trigger /\ links[p] \in Modems
  <2>1. PICK n \in Modems : n = links[p]
    BY <1>7
  <2>2. Linked(n) /\ links' = links /\ RequestUnlock(n, o)
    BY <1>0, <1>6, <1>7, <2>1 DEF LiveInv, LinksOwn, Linked
  <2>3. /\ \A k \in Modems : InQueue(k) => InQueue(k)'
        /\ dlgModem' = dlgModem \/ dlgModem = NoModem
        /\ \A k \in Modems : k # n =>
              obj'[k].shouldTriggerUnlock = o[k].shouldTriggerUnlock
        /\ o[n].shouldTriggerUnlock => obj'[n].shouldTriggerUnlock
        /\ dlgModem' = n \/ InQueue(n)' \/ obj'[n].shouldTriggerUnlock
    BY <1>5, <2>2, RequestTaken
  <2>4. \A k \in Modems : Alive(k) => Alive(k)'
    BY <1>0, <2>2, <2>3 DEF Alive, Linked
  <2>5. Alive(n)'
    BY <2>2 DEF Alive, Linked
  <2>6. ~o[m].shouldTriggerUnlock
    BY <1>1, <1>4, <1>5, <1>7
  <2>7. LiveInv'
    BY <1>5, <2>2, <2>3, <2>4, <2>5, <2>6 DEF LiveInv, LinksOwn, WaitersLive
  <2>8. m # n => ~Linked(m)'
    BY <2>1, <2>2 DEF Linked
  <2>9. AllKept
    <3> SUFFICES ASSUME NEW k \in Modems PROVE RequestKept(k)
      BY DEF AllKept
    <3>1. CASE k = m
      BY <2>3, <2>8, <3>1 DEF RequestKept
    <3>2. CASE k # m
      BY <1>5, <2>3, <3>2 DEF RequestKept
    <3> QED
      BY <3>1, <3>2
  <2> QED
    BY <2>7, <2>9
<1>8. CASE ~(trigger /\ links[p] \in Modems)
  <2>1. obj' = o /\ UNCHANGED <<pendingUnlocks, dlgModem>>
    BY <1>6, <1>8
  <2>2. \A k \in Modems : Linked(k) <=> Linked(k)'
    BY <1>0, <1>6 DEF Linked
  <2>3. LinksOwn'
    BY <1>0, <1>6 DEF LiveInv, LinksOwn
  <2>4. \A k \in Modems : obj'[k].shouldTriggerUnlock => obj[k].shouldTriggerUnlock
    BY <1>1, <1>4, <1>5, <2>1
  <2>5. WaitersLive'
    BY <2>1, <2>2, <2>4 DEF LiveInv, WaitersLive, Alive
  <2>6. ASSUME obj[m].shouldTriggerUnlock, ~obj'[m].shouldTriggerUnlock
        PROVE  ~Linked(m)'
    <3>1. trigger
      BY <1>1, <1>4, <1>5, <2>1, <2>6
    <3> QED
      BY <1>8, <2>2, <3>1 DEF Linked
  <2>7. AllKept
    BY <1>5, <2>1, <2>6 DEF AllKept, RequestKept, InQueue
  <2> QED
    BY <2>3, <2>5, <2>7 DEF LiveInv
<1> QED
  BY <1>7, <1>8

(* Every step keeps every request. *)
LEMMA NextKept ==
    ASSUME IInv, LiveInv, [Next]_vars
    PROVE  LiveInv' /\ (crashed = "no" => AllKept)
<1>type. obj \in [Modems -> Modem]
  BY DEF IInv, TypeOK
<1>1. ASSUME NEW m \in Modems, NEW r, obj' = [obj EXCEPT ![m] = r],
             r.shouldTriggerUnlock = obj[m].shouldTriggerUnlock,
             UNCHANGED <<links, pendingUnlocks, dlgModem>>
      PROVE  LiveInv' /\ AllKept
  BY <1>type, <1>1, WaitsAsBefore, RequestsStill
<1>2. ASSUME UNCHANGED <<obj, links, pendingUnlocks, dlgModem>>
      PROVE  LiveInv' /\ AllKept
  BY <1>2, RequestsStill
<1>3. ASSUME NEW m \in Modems, UnlockModem(m) PROVE LiveInv' /\ AllKept
  BY <1>3, RequestKeeps DEF UnlockModem
<1>4. CASE unlockAll # <<>> /\ UnlockAllStep
  <2>0. Head(unlockAll) \in Paths
    BY <1>4, HeadTailProperties DEF IInv, TypeOK
  <2>1. links' = links
    BY <1>4 DEF UnlockAllStep
  <2>2. ASSUME Head(unlockAll) \in Paths, links[Head(unlockAll)] \in Modems,
               RequestUnlock(links[Head(unlockAll)], obj)
        PROVE  LiveInv' /\ AllKept
    <3>1. PICK m \in Modems : m = links[Head(unlockAll)]
      BY <2>2
    <3>2. Linked(m)
      BY <2>2, <3>1 DEF LiveInv, LinksOwn, Linked
    <3> QED
      BY <2>1, <2>2, <3>1, <3>2, RequestKeeps
  <2>3. CASE UNCHANGED <<obj, pendingUnlocks, dlgModem>>
    BY <1>2, <2>1, <2>3
  <2> QED
    BY <1>4, <2>0, <2>2, <2>3 DEF UnlockAllStep
<1>5. ASSUME NEW p \in Paths, ModemAdded(p) PROVE LiveInv' /\ AllKept
  BY <1>5, AddKeeps
<1>6. ASSUME NEW p \in Paths, ModemRemoved(p) PROVE LiveInv' /\ AllKept
  BY <1>6, RemoveKeeps
<1>7. ASSUME NEW m \in Modems,
             \/ PinRequiredChanged(m) \/ SimManagerAdded(m) \/ SimManagerRemoved(m)
             \/ OtherPropertyChanged(m) \/ \E r : PinRetriesChanged(m, r)
      PROVE  LiveInv' /\ AllKept
  <2>1. UNCHANGED <<links, pendingUnlocks, dlgModem>>
    BY <1>7 DEF PinRequiredChanged, SimManagerAdded, SimManagerRemoved,
       OtherPropertyChanged, PinRetriesChanged, ModemUnchanged, managerVars
  <2>2. obj[m] \in Modem
    BY <1>type
  <2>3. CASE PinRequiredChanged(m)
    <3>1. PICK r : r = [obj[m] EXCEPT !.requiredPin = card[PathOf[m]].lock,
                                      !.updatedTimer = TRUE]
      OBVIOUS
    <3>2. r.shouldTriggerUnlock = obj[m].shouldTriggerUnlock
      BY <2>2, <3>1 DEF Modem
    <3>3. obj' = [obj EXCEPT ![m] = r]
      BY <2>3, <3>1 DEF PinRequiredChanged
    <3> QED
      BY <1>1, <2>1, <3>2, <3>3
  <2>4. CASE SimManagerAdded(m)
    <3>1. PICK r : r = [obj[m] EXCEPT !.simManager = TRUE, !.requiredPin = "none",
                                      !.retries = EmptyRetries(TRUE), !.updatedTimer = TRUE]
      OBVIOUS
    <3>2. r.shouldTriggerUnlock = obj[m].shouldTriggerUnlock
      BY <2>2, <3>1 DEF Modem
    <3>3. obj' = [obj EXCEPT ![m] = r]
      BY <2>4, <3>1 DEF SimManagerAdded
    <3> QED
      BY <1>1, <2>1, <3>2, <3>3
  <2>5. CASE SimManagerRemoved(m)
    <3>1. PICK r : r = [obj[m] EXCEPT !.simManager = FALSE, !.requiredPin = "none",
                                      !.retries = EmptyRetries(FALSE),
                                      !.updatedTimer = TRUE,
                                      !.calls = <<>>, !.replies = <<>>]
      OBVIOUS
    <3>2. r.shouldTriggerUnlock = obj[m].shouldTriggerUnlock
      BY <2>2, <3>1 DEF Modem
    <3>3. obj' = [obj EXCEPT ![m] = r]
      BY <2>5, <3>1 DEF SimManagerRemoved
    <3> QED
      BY <1>1, <2>1, <3>2, <3>3
  <2>6. CASE OtherPropertyChanged(m)
    <3>1. PICK type : type = IF obj[m].simManager THEN obj[m].requiredPin ELSE "none"
      OBVIOUS
    <3>2. PICK r : r = [obj[m] EXCEPT !.requiredPin = type, !.updatedTimer = TRUE]
      OBVIOUS
    <3>3. r.shouldTriggerUnlock = obj[m].shouldTriggerUnlock
      BY <2>2, <3>2 DEF Modem
    <3>4. obj' = [obj EXCEPT ![m] = r]
      BY <2>6, <3>1, <3>2 DEF OtherPropertyChanged
    <3> QED
      BY <1>1, <2>1, <3>3, <3>4
  <2>7. ASSUME NEW retries, PinRetriesChanged(m, retries)
        PROVE  LiveInv' /\ AllKept
    <3>1. PICK r : r = [obj[m] EXCEPT !.retries = retries, !.updatedTimer = TRUE]
      OBVIOUS
    <3>2. r.shouldTriggerUnlock = obj[m].shouldTriggerUnlock
      BY <2>2, <3>1 DEF Modem
    <3>3. obj' = [obj EXCEPT ![m] = r]
      BY <2>7, <3>1 DEF PinRetriesChanged
    <3> QED
      BY <1>1, <2>1, <3>2, <3>3
  <2> QED
    BY <1>7, <2>3, <2>4, <2>5, <2>6, <2>7
<1>8. ASSUME NEW m \in Modems, FireUpdate(m) PROVE LiveInv' /\ AllKept
  BY <1>8, FireKeeps
<1>9. ASSUME NEW m \in Modems
      PROVE  /\ TakeReply(m) \in [Modems -> Modem] \/ obj[m].replies = <<>>
             /\ \A n \in Modems :
                   TakeReply(m)[n].shouldTriggerUnlock = obj[n].shouldTriggerUnlock
             /\ \E r : /\ TakeReply(m) = [obj EXCEPT ![m] = r]
                       /\ r.shouldTriggerUnlock = obj[m].shouldTriggerUnlock
  <2>1. obj[m] \in Modem /\ obj[m].replies \in Seq(Reply)
    BY <1>type DEF Modem
  <2>2. PICK r : r = [obj[m] EXCEPT !.replies = Tail(obj[m].replies)]
    OBVIOUS
  <2>3. r.shouldTriggerUnlock = obj[m].shouldTriggerUnlock
    BY <2>1, <2>2 DEF Modem
  <2>4. TakeReply(m) = [obj EXCEPT ![m] = r]
    BY <2>2 DEF TakeReply
  <2>5. obj[m].replies # <<>> => r \in Modem
    <3>1. obj[m].replies # <<>> => Tail(obj[m].replies) \in Seq(Reply)
      BY <2>1, HeadTailProperties
    <3> QED
      BY <2>1, <2>2, <3>1 DEF Modem
  <2> QED
    BY <1>type, <2>3, <2>4, <2>5, WaitsAsBefore
<1>10. ASSUME NEW m \in Modems, PinSuccess(m) PROVE LiveInv' /\ AllKept
  <2>1. PICK o : o = TakeReply(m)
    OBVIOUS
  <2>2. o \in [Modems -> Modem] /\ obj' = Released(o) /\ Reset(CloseSd(sd)) /\ links' = links
    BY <1>9, <1>10, <2>1 DEF PinSuccess
  <2> QED
    BY <1>9, <2>1, <2>2, ResetKeeps
<1>11. CASE Cancelled
  BY <1>type, <1>11, ResetKeeps DEF Cancelled
<1>12. ASSUME NEW m \in Modems, EnterPinFailed(m) \/ ResetPinFailed(m) \/ ReplyIgnored(m)
       PROVE  LiveInv' /\ AllKept
  <2>1. obj' = TakeReply(m) /\ UNCHANGED <<links, pendingUnlocks, dlgModem>>
    BY <1>12 DEF EnterPinFailed, ResetPinFailed, ReplyIgnored, managerVars, dialogVars
  <2> QED
    BY <1>9, <2>1, RequestsStill
<1>13. CASE PinEntered
  <2>1. UNCHANGED <<links, pendingUnlocks, dlgModem>>
    BY <1>13 DEF PinEntered, PinEnteredInitial, SendThrows, SendEnterPin, SendResetPin,
       Advance, managerVars, dialogVars
  <2>2. CASE obj' = obj
    BY <1>2, <2>1, <2>2
  <2>3. CASE SendEnterPin \/ SendResetPin
    <3>1. PICK r : /\ \E op : r = [obj[dlgModem] EXCEPT !.calls = Append(@, op)]
                   /\ obj' = [obj EXCEPT ![dlgModem] = r]
      BY <2>3 DEF SendEnterPin, SendResetPin
    <3>2. ASSUME dlgModem \in Modems
          PROVE  LiveInv' /\ AllKept
      <4>1. obj[dlgModem] \in Modem
        BY <1>type, <3>2
      <4>2. r.shouldTriggerUnlock = obj[dlgModem].shouldTriggerUnlock
        BY <3>1, <4>1 DEF Modem
      <4> QED
        BY <1>1, <2>1, <3>1, <3>2, <4>2
    <3>3. CASE dlgModem \notin Modems
      <4>1. obj' = obj
        BY <1>type, <3>1, <3>3
      <4> QED
        BY <1>2, <2>1, <4>1
    <3> QED
      BY <3>2, <3>3
  <2>4. \/ obj' = obj \/ SendEnterPin \/ SendResetPin
    BY <1>13 DEF PinEntered, PinEnteredInitial, SendThrows, Advance
  <2> QED
    BY <2>2, <2>3, <2>4
<1>14. ASSUME NEW m \in Modems, OfonoAnswers(m) PROVE LiveInv' /\ AllKept
  <2>1. UNCHANGED <<links, pendingUnlocks, dlgModem>>
    BY <1>14 DEF OfonoAnswers, managerVars, dialogVars
  <2>2. PICK op, ok : obj' = [obj EXCEPT ![m] = Answered(obj[m], op, ok)]
    BY <1>14 DEF OfonoAnswers
  <2>3. PICK r : r = Answered(obj[m], op, ok)
    OBVIOUS
  <2>4. r.shouldTriggerUnlock = obj[m].shouldTriggerUnlock
    BY <1>type, <2>3 DEF Answered, Modem
  <2> QED
    BY <1>1, <2>1, <2>2, <2>3, <2>4
<1>15. ASSUME \/ UnlockAllModems \/ PopupActivated \/ UserAnswers \/ ShellStarts \/ ShellStops
              \/ NotificationClosed \/ (\E p \in Paths : CardChanged(p)) \/ UNCHANGED vars
       PROVE  LiveInv' /\ AllKept
  BY <1>2, <1>15 DEF UnlockAllModems, PopupActivated, UserAnswers, ShellStarts, ShellStops,
     NotificationClosed, CardChanged, vars, managerVars, dialogVars
<1>16. ASSUME Restart PROVE LiveInv' /\ crashed # "no"
  <2>1. ~Destroyed.shouldTriggerUnlock
    BY DEF Destroyed, Fresh
  <2>2. /\ crashed # "no" /\ links' = [p \in Paths |-> Absent]
        /\ obj' = [m \in Modems |-> Destroyed]
    BY <1>16 DEF Restart
  <2> QED
    BY <2>1, <2>2, ConstantsAssumption DEF LiveInv, LinksOwn, WaitersLive
<1>17. CASE Handler
  BY <1>3, <1>5, <1>7, <1>8, <1>10, <1>11, <1>12, <1>13, <1>15, <1>17 DEF Handler
<1>18. CASE Environment
  BY <1>14, <1>15, <1>18 DEF Environment
<1>19. ASSUME NEW kind \in FaultKinds, Fault(kind) PROVE LiveInv' /\ AllKept
  BY <1>6, <1>7, <1>15, <1>19 DEF Fault
<1> QED
  BY <1>4, <1>15, <1>16, <1>17, <1>18, <1>19 DEF Next, Regular

(* No request to unlock a modem is lost, for any number of modems and      *)
(* whatever faults happen between: m_pendingUnlocks gives a modem up only  *)
(* to the dialog, because it is gone or because it needs no PIN any more,  *)
(* and notifyWhenReadyToUnlock() is forgotten only for the dialog, the     *)
(* queue or a modem that is gone.                                          *)
THEOREM RequestsAreKept == Spec => RequestsKept
<1>1. Init => LiveInv
  <2>1. ~Destroyed.shouldTriggerUnlock
    BY DEF Destroyed, Fresh
  <2> QED
    BY <2>1, ConstantsAssumption DEF Init, LiveInv, LinksOwn, WaitersLive
<1>2. IInv /\ LiveInv /\ [Next]_vars => (IInv /\ LiveInv)'
  BY NextIInv, NextKept
<1>3. IInv /\ LiveInv /\ [Next]_vars =>
        [crashed = "no" =>
           \A m \in Modems :
             /\ InQueue(m) /\ ~InQueue(m)' =>
                   dlgModem' = m \/ ~Linked(m)' \/ obj[m].requiredPin = "none"
             /\ obj[m].shouldTriggerUnlock /\ ~obj'[m].shouldTriggerUnlock =>
                   dlgModem' = m \/ InQueue(m)' \/ ~Linked(m)']_vars
  BY NextKept, Zenon DEF AllKept, RequestKept
<1> QED
  BY InitIInv, <1>1, <1>2, <1>3, PTL DEF Spec, RequestsKept
=============================================================================
