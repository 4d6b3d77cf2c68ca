------------------------- MODULE SecretAgentProofs -------------------------
(***************************************************************************)
(* SecretAgent implements SecretCalls, answers with what was typed, and    *)
(* finds in the keyring what was saved, for any number of connections,     *)
(* calls, restarts and keyring errors.                                     *)
(***************************************************************************)
EXTENDS SecretAgent, TLAPS, SequenceTheorems

Mgmts == {"wpa-psk", "wpa-none", "none", "ieee8021x"}

CallRecords ==
    [state : {"idle", "waiting", "withdrawn"}, conn : Conns \cup {"none"},
     mgmt : Mgmts,
     flags : SUBSET {"ALLOW_INTERACTION", "REQUEST_NEW", "USER_REQUESTED"}]

Messages ==
    [method : {"GetSecrets"}, call : Calls]
    \cup [method : {"CancelGetSecrets", "DeleteSecrets"},
          conn : Conns \cup {"none"}]
    \cup [method : {"serviceOwnerChanged"}]
    \cup {Saving(conn, key, text) :
             conn \in Wifis, key \in {"psk", "wep-key0"}, text \in Passwords}
    \cup {Saving(conn, "password", text) : conn \in Vpns, text \in Passwords}

-----------------------------------------------------------------------------
(* The inductive invariant.  That a call is answered at most once is not   *)
(* inductive: it needs to know that a call is in one place only.  And that *)
(* a cancel drops no call but the withdrawn one, although it names a       *)
(* connection and not a call, depends on the order of the inbox.           *)

TypeInv ==
    /\ nm \in [registered : BOOLEAN, call : [Calls -> CallRecords]]
    /\ inbox \in Seq(Messages)
    /\ replies = [c \in Calls |-> replies[c]]

RequestType ==
    \A r \in request :
        /\ r.call \in Calls
        /\ r = [call |-> r.call, path |-> r.path, password |-> r.password,
                id |-> r.id]

(* One dialog at a time: m_request. *)
OneDialog == \A r, s \in request : r = s

(* A call is on its way, with the dialog, or answered; one of these. *)
OnePlace ==
    \A c \in Calls :
        /\ replies[c] = <<>> \/ Len(replies[c]) = 1
        /\ nm.call[c].state = "idle" => ~Pending(c) /\ ~OfDialog(c) /\ replies[c] = <<>>
        /\ Pending(c) => ~OfDialog(c) /\ replies[c] = <<>>
        /\ OfDialog(c) => replies[c] = <<>>

GetAt(i, c) == inbox[i].method = "GetSecrets" /\ inbox[i].call = c

PendingOnce ==
    \A c \in Calls : \A i, j \in DOMAIN inbox :
        GetAt(i, c) /\ GetAt(j, c) => i = j

(* Calls are numbered in the order they are made. *)
Numbered ==
    \A c, d \in Calls :
        d < c /\ nm.call[c].state # "idle" => nm.call[d].state # "idle"

(* Of the calls for a connection only the last one may be waited for. *)
LastWaits ==
    \A c, d \in Calls :
        (/\ d < c
         /\ nm.call[c].state # "idle"
         /\ nm.call[d].conn = nm.call[c].conn) => ~Waits(d)

(* A call that is waited for and was made before a cancel of its           *)
(* connection does not exist: it is behind the cancel in the inbox.        *)
CancelsHold ==
    \A i \in DOMAIN inbox :
        inbox[i].method = "CancelGetSecrets" =>
            \A d \in Calls :
                (nm.call[d].conn = inbox[i].conn /\ Waits(d)) =>
                    \E j \in DOMAIN inbox : i < j /\ GetAt(j, d)

IInv == /\ TypeInv /\ RequestType /\ OneDialog /\ OnePlace
        /\ PendingOnce /\ Numbered /\ LastWaits /\ CancelsHold

-----------------------------------------------------------------------------
(* The inbox *)

(* Sending a message: it is behind all others. *)
LEMMA Sent ==
    ASSUME NEW m \in Messages, TypeInv, inbox' = Append(inbox, m)
    PROVE  /\ inbox' \in Seq(Messages)
           /\ Len(inbox) \in Nat
           /\ DOMAIN inbox = 1 .. Len(inbox)
           /\ DOMAIN inbox' = 1 .. (Len(inbox) + 1)
           /\ \A i \in DOMAIN inbox : inbox'[i] = inbox[i]
           /\ inbox'[Len(inbox) + 1] = m
BY AppendProperties DEF TypeInv

(* Taking a message: those behind it move up. *)
LEMMA Taken ==
    ASSUME TypeInv, Take
    PROVE  /\ inbox' \in Seq(Messages)
           /\ Head(inbox) \in Messages
           /\ Len(inbox) \in Nat \ {0}
           /\ DOMAIN inbox = 1 .. Len(inbox)
           /\ DOMAIN inbox' = 1 .. (Len(inbox) - 1)
           /\ \A i \in DOMAIN inbox' : inbox'[i] = inbox[i + 1]
           /\ Head(inbox) = inbox[1]
<1>1. inbox \in Seq(Messages) /\ inbox # <<>>
  BY DEF TypeInv, Take
<1>2. Len(inbox) \in Nat \ {0}
  BY <1>1, EmptySeq, LenProperties
<1> QED
  BY <1>1, <1>2, HeadTailProperties, LenProperties DEF Take

LEMMA SentPending ==
    ASSUME NEW m \in Messages, TypeInv, inbox' = Append(inbox, m), NEW c \in Calls
    PROVE  Pending(c)' <=> Pending(c) \/ (m.method = "GetSecrets" /\ m.call = c)
<1>1. Pending(c) => Pending(c)'
  BY Sent DEF Pending
<1>2. m.method = "GetSecrets" /\ m.call = c => Pending(c)'
  BY Sent DEF Pending
<1>3. ASSUME Pending(c)', ~Pending(c)
      PROVE  m.method = "GetSecrets" /\ m.call = c
  <2>1. PICK i \in DOMAIN inbox' : inbox'[i].method = "GetSecrets" /\ inbox'[i].call = c
    BY <1>3 DEF Pending
  <2>2. i \notin DOMAIN inbox
    BY <1>3, <2>1, Sent DEF Pending
  <2> QED
    BY <2>1, <2>2, Sent
<1> QED
  BY <1>1, <1>2, <1>3

LEMMA TakenPending ==
    ASSUME TypeInv, PendingOnce, Take, NEW c \in Calls
    PROVE  Pending(c)' <=>
               Pending(c) /\ ~(Head(inbox).method = "GetSecrets" /\ Head(inbox).call = c)
<1>1. ASSUME Pending(c)'
      PROVE  /\ Pending(c)
             /\ ~(Head(inbox).method = "GetSecrets" /\ Head(inbox).call = c)
  <2>1. PICK i \in DOMAIN inbox' : inbox'[i].method = "GetSecrets" /\ inbox'[i].call = c
    BY <1>1 DEF Pending
  <2>2. i + 1 \in DOMAIN inbox /\ GetAt(i + 1, c) /\ i + 1 # 1 /\ 1 \in DOMAIN inbox
    BY <2>1, Taken DEF GetAt
  <2> QED
    BY <2>2, Taken DEF Pending, PendingOnce, GetAt
<1>2. ASSUME Pending(c), ~(Head(inbox).method = "GetSecrets" /\ Head(inbox).call = c)
      PROVE  Pending(c)'
  <2>1. PICK i \in DOMAIN inbox : inbox[i].method = "GetSecrets" /\ inbox[i].call = c
    BY <1>2 DEF Pending
  <2>2. i # 1
    BY <1>2, <2>1, Taken
  <2>3. i - 1 \in DOMAIN inbox' /\ inbox'[i - 1] = inbox[i]
    BY <2>1, <2>2, Taken
  <2> QED
    BY <2>1, <2>3 DEF Pending
<1> QED
  BY <1>1, <1>2

(* The order of the inbox survives the taking of a message, *)
LEMMA TakenOrder ==
    ASSUME TypeInv, PendingOnce, CancelsHold, Take,
           \A d \in Calls : nm'.call[d].conn = nm.call[d].conn /\ (Waits(d)' => Waits(d))
    PROVE  PendingOnce' /\ CancelsHold'
<1>1. PendingOnce'
  <2> SUFFICES ASSUME NEW c \in Calls, NEW i \in DOMAIN inbox', NEW j \in DOMAIN inbox',
                      GetAt(i, c)', GetAt(j, c)'
               PROVE  i = j
    BY DEF PendingOnce, GetAt
  <2>1. /\ i + 1 \in DOMAIN inbox /\ j + 1 \in DOMAIN inbox
        /\ GetAt(i + 1, c) /\ GetAt(j + 1, c)
    BY Taken DEF GetAt
  <2>2. i + 1 = j + 1
    BY <2>1 DEF PendingOnce
  <2> QED
    BY <2>2, Taken
<1>2. CancelsHold'
  <2> SUFFICES ASSUME NEW i \in DOMAIN inbox', inbox'[i].method = "CancelGetSecrets",
                      NEW d \in Calls, nm'.call[d].conn = inbox'[i].conn, Waits(d)'
               PROVE  \E j \in DOMAIN inbox' : i < j /\ GetAt(j, d)'
    BY DEF CancelsHold, GetAt
  <2>1. i + 1 \in DOMAIN inbox /\ inbox[i + 1] = inbox'[i]
    BY Taken
  <2>2. PICK j \in DOMAIN inbox : i + 1 < j /\ GetAt(j, d)
    BY <2>1 DEF CancelsHold
  <2>3. j - 1 \in DOMAIN inbox' /\ inbox'[j - 1] = inbox[j] /\ i < j - 1
    BY <2>2, Taken
  <2> QED
    BY <2>2, <2>3 DEF GetAt
<1> QED
  BY <1>1, <1>2

(* and the sending of a message that asks for nothing and cancels nothing. *)
LEMMA SentOrder ==
    ASSUME NEW m \in Messages, m.method \notin {"GetSecrets", "CancelGetSecrets"},
           TypeInv, PendingOnce, CancelsHold, inbox' = Append(inbox, m),
           \A d \in Calls : nm'.call[d].conn = nm.call[d].conn /\ (Waits(d)' => Waits(d))
    PROVE  PendingOnce' /\ CancelsHold'
<1>1. PendingOnce'
  <2> SUFFICES ASSUME NEW c \in Calls, NEW i \in DOMAIN inbox', NEW j \in DOMAIN inbox',
                      GetAt(i, c)', GetAt(j, c)'
               PROVE  i = j
    BY DEF PendingOnce, GetAt
  <2>1. i \in DOMAIN inbox /\ j \in DOMAIN inbox
    BY Sent DEF GetAt
  <2> QED
    BY <2>1, Sent DEF PendingOnce, GetAt
<1>2. CancelsHold'
  <2> SUFFICES ASSUME NEW i \in DOMAIN inbox', inbox'[i].method = "CancelGetSecrets",
                      NEW d \in Calls, nm'.call[d].conn = inbox'[i].conn, Waits(d)'
               PROVE  \E j \in DOMAIN inbox' : i < j /\ GetAt(j, d)'
    BY DEF CancelsHold, GetAt
  <2>1. i \in DOMAIN inbox /\ inbox[i] = inbox'[i]
    BY Sent
  <2>2. PICK j \in DOMAIN inbox : i < j /\ GetAt(j, d)
    BY <2>1 DEF CancelsHold
  <2> QED
    BY <2>2, Sent DEF GetAt
<1> QED
  BY <1>1, <1>2

-----------------------------------------------------------------------------
(* Steps, and the steps of SecretCalls they are *)

MapsTo == Abstract!Next \/ UNCHANGED Abstract!scVars

(* What EndOf says, one place at a time. *)
EndIs(c) ==
    /\ OfDialog(c) => EndOf(c) = "open"
    /\ Len(replies[c]) = 1 => EndOf(c) = "answered"
    /\ (replies[c] = <<>> /\ ~OfDialog(c)) =>
          EndOf(c) = IF nm.call[c].state = "idle" \/ Pending(c) THEN "none" ELSE "dropped"

Ends == \A c \in Calls : EndIs(c)

LEMMA EndsAre == OnePlace => Ends
<1> SUFFICES ASSUME OnePlace, NEW c \in Calls
             PROVE  EndIs(c)
  BY DEF Ends
<1>1. replies[c] = <<>> => Len(replies[c]) = 0
  OBVIOUS
<1>2. CASE Len(replies[c]) = 1
  <2>1. replies[c] # <<>> /\ ~OfDialog(c)
    BY <1>1, <1>2 DEF OnePlace
  <2>2. EndOf(c) = "answered"
    BY <1>2, <2>1, <1>1 DEF EndOf, OnePlace
  <2> QED
    BY <2>1, <2>2 DEF EndIs
<1>3. CASE replies[c] = <<>> /\ OfDialog(c)
  <2>1. ~Pending(c) /\ nm.call[c].state # "idle"
    BY <1>3 DEF OnePlace
  <2>2. EndOf(c) = "open"
    BY <1>3, <2>1, <1>1 DEF EndOf
  <2> QED
    BY <1>1, <1>3, <2>2 DEF EndIs
<1>4. CASE replies[c] = <<>> /\ ~OfDialog(c)
  <2>1. EndOf(c) = IF nm.call[c].state = "idle" \/ Pending(c) THEN "none" ELSE "dropped"
    BY <1>1, <1>4 DEF EndOf
  <2> QED
    BY <1>1, <1>4, <2>1 DEF EndIs
<1> QED
  BY <1>2, <1>3, <1>4 DEF OnePlace

LEMMA EndsAreNext == OnePlace' => Ends'
BY EndsAre, PTL

(* A step that moves no call. *)
LEMMA Still ==
    ASSUME IInv,
           nm' \in [registered : BOOLEAN, call : [Calls -> CallRecords]],
           nm'.call = nm.call, UNCHANGED replies, UNCHANGED runs,
           inbox' \in Seq(Messages),
           \A c \in Calls : (Pending(c)' <=> Pending(c)) /\ (OfDialog(c)' <=> OfDialog(c)),
           RequestType', OneDialog', PendingOnce', CancelsHold'
    PROVE  IInv' /\ MapsTo
<1>1. TypeInv'
  BY DEF IInv, TypeInv
<1>2. OnePlace'
  BY DEF IInv, OnePlace
<1>3. Numbered' /\ LastWaits'
  BY DEF IInv, Numbered, LastWaits, Waits
<1>4. \A c \in Calls : EndOf(c)' = EndOf(c)
  BY DEF EndOf
<1>5. UNCHANGED Abstract!scVars
  BY <1>4 DEF Abstract!scVars
<1> QED
  BY <1>1, <1>2, <1>3, <1>5 DEF IInv, MapsTo

(* The same, when the requests stay as they are. *)
LEMMA SameDialog ==
    ASSUME RequestType, OneDialog, UNCHANGED request
    PROVE  /\ RequestType' /\ OneDialog'
           /\ \A c \in Calls : OfDialog(c)' <=> OfDialog(c)
BY DEF RequestType, OneDialog, OfDialog

LEMMA SameInbox ==
    ASSUME IInv, UNCHANGED inbox,
           \A d \in Calls : nm'.call[d].conn = nm.call[d].conn /\ (Waits(d)' => Waits(d))
    PROVE  /\ PendingOnce' /\ CancelsHold' /\ inbox' \in Seq(Messages)
           /\ \A c \in Calls : Pending(c)' <=> Pending(c)
BY DEF IInv, TypeInv, PendingOnce, CancelsHold, Pending, GetAt

(* The message taken is not a GetSecrets call. *)
LEMMA OtherTaken ==
    ASSUME IInv, Take, Head(inbox).method # "GetSecrets",
           \A d \in Calls : nm'.call[d].conn = nm.call[d].conn /\ (Waits(d)' => Waits(d))
    PROVE  /\ PendingOnce' /\ CancelsHold' /\ inbox' \in Seq(Messages)
           /\ \A c \in Calls : Pending(c)' <=> Pending(c)
BY Taken, TakenOrder, TakenPending DEF IInv

(* SaveSecrets, DeleteSecrets and the registration concern no call. *)
LEMMA KeyringStep ==
    ASSUME IInv, SaveSecrets \/ DeleteSecrets \/ serviceOwnerChanged
    PROVE  IInv' /\ MapsTo
<1>1. Take /\ Head(inbox).method # "GetSecrets" /\ UNCHANGED <<replies, request, runs>>
  BY DEF SaveSecrets, DeleteSecrets, serviceOwnerChanged
<1>2. /\ nm' \in [registered : BOOLEAN, call : [Calls -> CallRecords]]
      /\ nm'.call = nm.call
  BY DEF IInv, TypeInv, SaveSecrets, DeleteSecrets, serviceOwnerChanged
<1>3. \A d \in Calls : nm'.call[d].conn = nm.call[d].conn /\ (Waits(d)' => Waits(d))
  BY <1>1, <1>2 DEF Waits
<1> QED
  BY <1>1, <1>2, <1>3, OtherTaken, SameDialog, Still DEF IInv

(* The keyring is written and cleared at NetworkManager's request. *)
LEMMA SavingSent ==
    ASSUME IInv,
           \/ \E conn \in Wifis, key \in {"psk", "wep-key0"}, text \in Passwords :
                  NMSaves(conn, key, text)
           \/ \E conn \in Vpns, text \in Passwords : NMSaves(conn, "password", text)
           \/ \E conn \in Conns : NMDeletes(conn)
    PROVE  IInv' /\ MapsTo
<1>1. UNCHANGED <<nm, replies, request, runs>>
  BY DEF NMSaves, NMDeletes
<1>2. PICK m \in Messages : /\ m.method \notin {"GetSecrets", "CancelGetSecrets"}
                            /\ inbox' = Append(inbox, m)
  <2>1. ASSUME NEW conn, NEW key, NEW text, NMSaves(conn, key, text),
               \/ conn \in Wifis /\ key \in {"psk", "wep-key0"} /\ text \in Passwords
               \/ conn \in Vpns /\ key = "password" /\ text \in Passwords
        PROVE  \E m \in Messages : /\ m.method \notin {"GetSecrets", "CancelGetSecrets"}
                                   /\ inbox' = Append(inbox, m)
    <3>1. Saving(conn, key, text).method = "SaveSecrets"
      BY DEF Saving
    <3>2. Saving(conn, key, text) \in Messages
      BY <2>1 DEF Messages
    <3> QED
      BY <2>1, <3>1, <3>2 DEF NMSaves, Send
  <2>2. ASSUME NEW conn \in Conns, NMDeletes(conn)
        PROVE  \E m \in Messages : /\ m.method \notin {"GetSecrets", "CancelGetSecrets"}
                                   /\ inbox' = Append(inbox, m)
    BY <2>2 DEF NMDeletes, Send, Messages
  <2> QED
    BY <2>1, <2>2
<1>3. \A d \in Calls : nm'.call[d].conn = nm.call[d].conn /\ (Waits(d)' => Waits(d))
  BY <1>1 DEF Waits
<1>4. PendingOnce' /\ CancelsHold' /\ inbox' \in Seq(Messages)
  BY <1>2, <1>3, Sent, SentOrder DEF IInv
<1>5. \A c \in Calls : Pending(c)' <=> Pending(c)
  BY <1>2, SentPending DEF IInv
<1>6. /\ nm' \in [registered : BOOLEAN, call : [Calls -> CallRecords]]
      /\ nm'.call = nm.call
  BY <1>1 DEF IInv, TypeInv
<1> QED
  BY <1>1, <1>4, <1>5, <1>6, SameDialog, Still DEF IInv

(* What the user does, and the text field. *)
LEMMA UserStep ==
    ASSUME IInv, User
    PROVE  IInv' /\ MapsTo
<1>1. UNCHANGED <<nm, inbox, replies, request, runs>>
  BY DEF User, UserTypes, UserChooses
<1>2. /\ nm' \in [registered : BOOLEAN, call : [Calls -> CallRecords]]
      /\ nm'.call = nm.call
  BY <1>1 DEF IInv, TypeInv
<1>3. \A d \in Calls : nm'.call[d].conn = nm.call[d].conn /\ (Waits(d)' => Waits(d))
  BY <1>1 DEF Waits
<1> QED
  BY <1>1, <1>2, <1>3, SameInbox, SameDialog, Still DEF IInv

LEMMA TextStep ==
    ASSUME IInv, passwordChanged
    PROVE  IInv' /\ MapsTo
<1>1. UNCHANGED <<nm, inbox, replies, runs>>
  BY DEF passwordChanged
<1>2. /\ nm' \in [registered : BOOLEAN, call : [Calls -> CallRecords]]
      /\ nm'.call = nm.call
  BY <1>1 DEF IInv, TypeInv
<1>3. \A d \in Calls : nm'.call[d].conn = nm.call[d].conn /\ (Waits(d)' => Waits(d))
  BY <1>1 DEF Waits
<1> DEFINE typing(r) == IF r.path = Head(pw).path
                        THEN [r EXCEPT !.password = Head(pw).text] ELSE r
<1>4. request' = {typing(r) : r \in request}
  BY DEF passwordChanged
<1>5. \A r \in request : /\ typing(r).call = r.call
                         /\ typing(r) = [call |-> typing(r).call, path |-> typing(r).path,
                                         password |-> typing(r).password, id |-> typing(r).id]
  <2> SUFFICES ASSUME NEW r \in request
               PROVE  /\ typing(r).call = r.call
                      /\ typing(r) = [call |-> typing(r).call, path |-> typing(r).path,
                                      password |-> typing(r).password, id |-> typing(r).id]
    OBVIOUS
  <2>1. r = [call |-> r.call, path |-> r.path, password |-> r.password, id |-> r.id]
    BY DEF IInv, RequestType
  <2>2. [r EXCEPT !.password = Head(pw).text]
            = [call |-> r.call, path |-> r.path, password |-> Head(pw).text, id |-> r.id]
    BY <2>1
  <2> QED
    BY <2>1, <2>2
<1> HIDE DEF typing
<1>6. RequestType' /\ OneDialog'
  BY <1>4, <1>5 DEF IInv, RequestType, OneDialog
<1>7. \A c \in Calls : OfDialog(c)' <=> OfDialog(c)
  BY <1>4, <1>5 DEF OfDialog
<1> QED
  BY <1>1, <1>2, <1>3, <1>6, <1>7, SameInbox, Still

(* A GetSecrets call that leaves the inbox was in no other place. *)
LEMMA Arrives ==
    ASSUME IInv, Take, Head(inbox).method = "GetSecrets"
    PROVE  /\ Head(inbox).call \in Calls
           /\ Pending(Head(inbox).call)
           /\ nm.call[Head(inbox).call].state # "idle"
           /\ ~OfDialog(Head(inbox).call)
           /\ replies[Head(inbox).call] = <<>>
<1>1. Head(inbox).call \in Calls
  <2>1. Head(inbox) \in Messages
    BY Taken DEF IInv
  <2>2. \A conn, key, text : Saving(conn, key, text).method = "SaveSecrets"
    BY DEF Saving
  <2> QED
    BY <2>1, <2>2 DEF Messages
<1>2. Pending(Head(inbox).call)
  BY Taken DEF IInv, Pending
<1> QED
  BY <1>1, <1>2 DEF IInv, OnePlace

(* A call for the user opens its dialog; the call of the dialog that is    *)
(* destroyed for it ends without an answer.                                *)
LEMMA UserAsked ==
    ASSUME IInv, Take, Head(inbox).method = "GetSecrets", UNCHANGED <<nm, runs>>,
           NEW works \in BOOLEAN, GetFromUser(Head(inbox).call, works)
    PROVE  IInv' /\ MapsTo
<1>0. PICK c0 \in Calls : c0 = Head(inbox).call
  BY Arrives
<1>1. /\ Pending(c0) /\ nm.call[c0].state # "idle"
      /\ ~OfDialog(c0) /\ replies[c0] = <<>>
  BY <1>0, Arrives
<1>2. /\ request' = {NewRequest(c0, request, works)}
      /\ UNCHANGED replies
  BY <1>0 DEF GetFromUser
<1>3. /\ RequestType' /\ OneDialog'
      /\ \A c \in Calls : OfDialog(c)' <=> c = c0
  <2>1. PICK r : r = NewRequest(c0, request, works)
    OBVIOUS
  <2>2. r = [call |-> c0, path |-> FreePath(request), password |-> NoText,
             id |-> IF works THEN c0 ELSE 0]
    BY <2>1 DEF NewRequest
  <2>3. /\ r.call = c0
        /\ r = [call |-> r.call, path |-> r.path, password |-> r.password, id |-> r.id]
    BY <2>2
  <2>4. request' = {r}
    BY <1>2, <2>1
  <2> QED
    BY <1>0, <2>3, <2>4 DEF RequestType, OneDialog, OfDialog
<1>4. \A c \in Calls : Pending(c)' <=> Pending(c) /\ c # c0
  BY <1>0, TakenPending DEF IInv
<1>5. PendingOnce' /\ CancelsHold'
  BY <1>2, TakenOrder DEF IInv, Waits
<1>6. TypeInv'
  BY <1>2, Taken DEF IInv, TypeInv
<1>7. OnePlace'
  BY <1>1, <1>2, <1>3, <1>4 DEF IInv, OnePlace
<1>8. Numbered' /\ LastWaits'
  BY <1>2 DEF IInv, Numbered, LastWaits, Waits
<1>9. Abstract!Open(c0)
  <2>1. Ends /\ Ends'
    BY <1>7, EndsAre, EndsAreNext DEF IInv
  <2>2. EndOf(c0) = "none" /\ EndOf(c0)' = "open"
    BY <1>1, <1>3, <2>1 DEF Ends, EndIs
  <2>3. ASSUME NEW d \in Calls, d # c0
        PROVE  EndOf(d)' = IF EndOf(d) = "open" THEN "dropped" ELSE EndOf(d)
    <3>1. CASE OfDialog(d)
      <4>1. replies[d] = <<>> /\ ~Pending(d) /\ nm.call[d].state # "idle"
        BY <3>1 DEF IInv, OnePlace
      <4>2. EndOf(d) = "open"
        BY <3>1, <2>1 DEF Ends, EndIs
      <4>3. EndOf(d)' = "dropped"
        BY <4>1, <1>2, <1>3, <1>4, <2>1, <2>3 DEF Ends, EndIs
      <4> QED
        BY <4>2, <4>3
    <3>2. CASE ~OfDialog(d)
      <4>1. EndOf(d) # "open"
        BY <3>2, <2>1 DEF Ends, EndIs, IInv, OnePlace
      <4>2. ~OfDialog(d)' /\ (Pending(d)' <=> Pending(d))
        BY <2>3, <1>3, <1>4
      <4>3. EndOf(d)' = EndOf(d)
        BY <3>2, <4>2, <1>2, <2>1 DEF Ends, EndIs, IInv, OnePlace
      <4> QED
        BY <4>1, <4>3
    <3> QED
      BY <3>1, <3>2
  <2> QED
    BY <1>1, <2>2, <2>3 DEF Abstract!Open, Abstract!Arrived
<1> QED
  BY <1>1, <1>3, <1>5, <1>6, <1>7, <1>8, <1>9 DEF IInv, MapsTo, Abstract!Next

(* A reply to a call that has none, while the dialogs and the inbox keep   *)
(* every other call where it is.                                           *)
LEMMA Replied ==
    ASSUME IInv, NEW c0 \in Calls, NEW kind, NEW secrets, Reply(c0, kind, secrets),
           replies[c0] = <<>>, nm.call[c0].state # "idle",
           UNCHANGED <<nm, runs>>, inbox' \in Seq(Messages),
           \A c \in Calls : c # c0 => (Pending(c)' <=> Pending(c)) /\ (OfDialog(c)' <=> OfDialog(c)),
           ~Pending(c0)', ~OfDialog(c0)',
           RequestType', OneDialog', PendingOnce', CancelsHold'
    PROVE  /\ IInv'
           /\ EndOf(c0)' = "answered"
           /\ \A c \in Calls : c # c0 => EndOf(c)' = EndOf(c)
<1>1. /\ replies' = [c \in Calls |-> replies'[c]]
      /\ Len(replies'[c0]) = 1
      /\ \A c \in Calls : c # c0 => replies'[c] = replies[c]
  <2>1. replies' = [replies EXCEPT ![c0] = Append(replies[c0], [kind |-> kind, secrets |-> secrets])]
    BY DEF Reply
  <2>2. replies = [c \in Calls |-> replies[c]]
    BY DEF IInv, TypeInv
  <2>3. Len(Append(<<>>, [kind |-> kind, secrets |-> secrets])) = 1
    OBVIOUS
  <2> QED
    BY <2>1, <2>2, <2>3
<1>2. TypeInv'
  BY <1>1 DEF IInv, TypeInv
<1>3. OnePlace'
  BY <1>1 DEF IInv, OnePlace
<1>4. \A c \in Calls : Waits(c)' => Waits(c)
  BY <1>1 DEF Waits
<1>5. Numbered' /\ LastWaits'
  BY <1>4 DEF IInv, Numbered, LastWaits
<1>6. Ends /\ Ends'
  BY <1>3, EndsAre, EndsAreNext DEF IInv
<1>7. EndOf(c0)' = "answered"
  BY <1>1, <1>6 DEF Ends, EndIs
<1>8. \A c \in Calls : c # c0 => EndOf(c)' = EndOf(c)
  BY <1>1, <1>6 DEF Ends, EndIs, IInv, OnePlace
<1> QED
  BY <1>2, <1>3, <1>5, <1>7, <1>8 DEF IInv

(* A reply makes no call wait. *)
LEMMA ReplyWaits ==
    ASSUME IInv, NEW c0 \in Calls, NEW kind, NEW secrets, Reply(c0, kind, secrets),
           replies[c0] = <<>>, UNCHANGED nm
    PROVE  \A d \in Calls : nm'.call[d].conn = nm.call[d].conn /\ (Waits(d)' => Waits(d))
BY DEF IInv, TypeInv, Reply, Waits

(* A call answered as it arrives. *)
LEMMA AnsweredAtOnce ==
    ASSUME IInv, Take, Head(inbox).method = "GetSecrets", UNCHANGED <<nm, request, runs>>,
           NEW kind, NEW secrets, Reply(Head(inbox).call, kind, secrets)
    PROVE  IInv' /\ MapsTo
<1>0. PICK c0 \in Calls : c0 = Head(inbox).call
  BY Arrives
<1>1. /\ Pending(c0) /\ nm.call[c0].state # "idle"
      /\ ~OfDialog(c0) /\ replies[c0] = <<>>
  BY <1>0, Arrives
<1>2. \A c \in Calls : Pending(c)' <=> Pending(c) /\ c # c0
  BY <1>0, TakenPending DEF IInv
<1>6. Reply(c0, kind, secrets)
  BY <1>0
<1>3. \A d \in Calls : nm'.call[d].conn = nm.call[d].conn /\ (Waits(d)' => Waits(d))
  BY <1>1, <1>6, ReplyWaits
<1>4. PendingOnce' /\ CancelsHold' /\ inbox' \in Seq(Messages)
  BY <1>3, Taken, TakenOrder DEF IInv
<1>5. RequestType' /\ OneDialog' /\ \A c \in Calls : OfDialog(c)' <=> OfDialog(c)
  BY SameDialog DEF IInv
<1>7. /\ IInv'
      /\ EndOf(c0)' = "answered"
      /\ \A c \in Calls : c # c0 => EndOf(c)' = EndOf(c)
  BY <1>1, <1>2, <1>4, <1>5, <1>6, Replied
<1>8. EndOf(c0) = "none"
  BY <1>1, EndsAre DEF IInv, Ends, EndIs
<1>9. Abstract!AnswerAtOnce(c0)
  BY <1>1, <1>7, <1>8 DEF Abstract!AnswerAtOnce, Abstract!Arrived
<1> QED
  BY <1>1, <1>7, <1>9 DEF MapsTo, Abstract!Next

LEMMA GetStep ==
    ASSUME IInv, GetSecrets
    PROVE  IInv' /\ MapsTo
<1>1. /\ Take /\ Head(inbox).method = "GetSecrets" /\ UNCHANGED <<nm, runs>>
  BY DEF GetSecrets
<1>2. PICK works \in BOOLEAN : \/ GetFromUser(Head(inbox).call, works)
                              \/ GetFromKeyring(Head(inbox).call, ~works)
                              \/ GetRefused(Head(inbox).call)
  BY DEF GetSecrets
<1>3. CASE GetFromUser(Head(inbox).call, works)
  BY <1>1, <1>3, UserAsked
<1>4. CASE GetFromKeyring(Head(inbox).call, ~works)
  <2>1. /\ UNCHANGED request
        /\ \E kind, secrets : Reply(Head(inbox).call, kind, secrets)
    BY <1>4 DEF GetFromKeyring
  <2> QED
    BY <1>1, <2>1, AnsweredAtOnce
<1>5. CASE GetRefused(Head(inbox).call)
  <2>1. UNCHANGED request /\ Reply(Head(inbox).call, "NoSecrets", NoKeys)
    BY <1>5 DEF GetRefused
  <2> QED
    BY <1>1, <2>1, AnsweredAtOnce
<1> QED
  BY <1>2, <1>3, <1>4, <1>5

(* The dialog's call is answered, and the request goes with the answer. *)
LEMMA DialogAnswered ==
    ASSUME IInv, NEW r \in request, NEW error, NEW secrets, FinishGetSecrets(r, error, secrets),
           UNCHANGED <<nm, inbox, runs>>
    PROVE  IInv' /\ MapsTo
<1>1. /\ r.call \in Calls
      /\ \A c \in Calls : OfDialog(c) <=> c = r.call
  BY DEF IInv, RequestType, OneDialog, OfDialog
<1>2. PICK c0 \in Calls : c0 = r.call
  BY <1>1
<1>3. /\ ~Pending(c0) /\ nm.call[c0].state # "idle"
      /\ OfDialog(c0) /\ replies[c0] = <<>>
  BY <1>1, <1>2 DEF IInv, OnePlace
<1>4. PICK kind : Reply(c0, kind, secrets)
  BY <1>2 DEF FinishGetSecrets
<1>5. request' = {}
  BY DEF FinishGetSecrets
<1>6. RequestType' /\ OneDialog' /\ \A c \in Calls : ~OfDialog(c)'
  BY <1>5 DEF RequestType, OneDialog, OfDialog
<1>7. \A d \in Calls : nm'.call[d].conn = nm.call[d].conn /\ (Waits(d)' => Waits(d))
  BY <1>3, <1>4, ReplyWaits
<1>8. /\ PendingOnce' /\ CancelsHold' /\ inbox' \in Seq(Messages)
      /\ \A c \in Calls : Pending(c)' <=> Pending(c)
  BY <1>7, SameInbox
<1>9. /\ IInv'
      /\ EndOf(c0)' = "answered"
      /\ \A c \in Calls : c # c0 => EndOf(c)' = EndOf(c)
  BY <1>1, <1>2, <1>3, <1>4, <1>6, <1>8, Replied
<1>10. EndOf(c0) = "open"
  BY <1>3, EndsAre DEF IInv, Ends, EndIs
<1>11. Abstract!Answer(c0)
  BY <1>9, <1>10 DEF Abstract!Answer
<1> QED
  BY <1>9, <1>11 DEF MapsTo, Abstract!Next

(* A signal of the notification server: of the request's notification, or  *)
(* of one that is gone.                                                    *)
LEMMA SignalStep ==
    ASSUME IInv, HandleNotification
    PROVE  IInv' /\ MapsTo
<1>1. UNCHANGED <<nm, inbox, runs>>
  BY DEF HandleNotification
<1>2. CASE \E r \in request : \E error, secrets : FinishGetSecrets(r, error, secrets)
  BY <1>1, <1>2, DialogAnswered
<1>3. CASE UNCHANGED <<request, replies>>
  <2>1. /\ nm' \in [registered : BOOLEAN, call : [Calls -> CallRecords]]
        /\ nm'.call = nm.call
    BY <1>1 DEF IInv, TypeInv
  <2>2. \A d \in Calls : nm'.call[d].conn = nm.call[d].conn /\ (Waits(d)' => Waits(d))
    BY <1>1, <1>3 DEF Waits
  <2> QED
    BY <1>1, <1>3, <2>1, <2>2, SameInbox, SameDialog, Still DEF IInv
<1> QED
  BY <1>2, <1>3 DEF HandleNotification, actionInvoked, notificationClosed

(* A cancel names a connection, and the dialog's call is dropped if it is  *)
(* of that connection: the call is then withdrawn.                         *)
LEMMA CancelStep ==
    ASSUME IInv, HandleCancel
    PROVE  IInv' /\ MapsTo
<1>1. /\ Take /\ Head(inbox).method = "CancelGetSecrets"
      /\ UNCHANGED <<nm, replies, runs>>
      /\ request' = request \ {r \in request : nm.call[r.call].conn = Head(inbox).conn}
  BY DEF HandleCancel, CancelGetSecrets
<1>2. \A d \in Calls : nm'.call[d].conn = nm.call[d].conn /\ (Waits(d)' => Waits(d))
  BY <1>1 DEF Waits
<1>3. /\ PendingOnce' /\ CancelsHold' /\ inbox' \in Seq(Messages)
      /\ \A c \in Calls : Pending(c)' <=> Pending(c)
  BY <1>1, <1>2, OtherTaken
<1>4. /\ nm' \in [registered : BOOLEAN, call : [Calls -> CallRecords]]
      /\ nm'.call = nm.call
  BY <1>1 DEF IInv, TypeInv
<1>5. CASE \A r \in request : nm.call[r.call].conn # Head(inbox).conn
  <2>1. UNCHANGED request
    BY <1>1, <1>5
  <2> QED
    BY <1>1, <1>3, <1>4, <2>1, SameDialog, Still DEF IInv
<1>6. CASE \E r \in request : nm.call[r.call].conn = Head(inbox).conn
  <2>1. PICK r \in request : nm.call[r.call].conn = Head(inbox).conn
    BY <1>6
  <2>2. /\ r.call \in Calls
        /\ \A c \in Calls : OfDialog(c) <=> c = r.call
        /\ request' = {}
    BY <1>1, <2>1 DEF IInv, RequestType, OneDialog, OfDialog
  <2>3. PICK c0 \in Calls : c0 = r.call
    BY <2>2
  <2>4. /\ ~Pending(c0) /\ nm.call[c0].state # "idle"
        /\ OfDialog(c0) /\ replies[c0] = <<>>
    BY <2>2, <2>3 DEF IInv, OnePlace
  <2>5. ~Waits(c0)
    <3>1. 1 \in DOMAIN inbox /\ inbox[1] = Head(inbox)
      BY <1>1, Taken DEF IInv
    <3>2. Waits(c0) => \E j \in DOMAIN inbox : GetAt(j, c0)
      BY <1>1, <2>1, <2>3, <3>1 DEF IInv, CancelsHold
    <3> QED
      BY <2>4, <3>2 DEF GetAt, Pending
  <2>6. nm.call[c0].state = "withdrawn"
    BY <2>4, <2>5 DEF Waits, IInv, TypeInv, CallRecords
  <2>7. RequestType' /\ OneDialog' /\ \A c \in Calls : ~OfDialog(c)'
    BY <2>2 DEF RequestType, OneDialog, OfDialog
  <2>8. TypeInv' /\ OnePlace' /\ Numbered' /\ LastWaits'
    <3>1. TypeInv' /\ Numbered' /\ LastWaits'
      BY <1>1, <1>2, <1>3 DEF IInv, TypeInv, Numbered, LastWaits
    <3>2. OnePlace'
      BY <1>1, <1>3, <2>7 DEF IInv, OnePlace
    <3> QED
      BY <3>1, <3>2
  <2>9. Ends /\ Ends'
    BY <2>8, EndsAre, EndsAreNext DEF IInv
  <2>10. EndOf(c0) = "open" /\ EndOf(c0)' = "dropped"
    BY <1>1, <1>3, <2>4, <2>7, <2>9 DEF Ends, EndIs
  <2>11. \A c \in Calls : c # c0 => EndOf(c)' = EndOf(c)
    BY <1>1, <1>3, <2>2, <2>3, <2>7, <2>9 DEF Ends, EndIs, IInv, OnePlace
  <2>12. Abstract!Drop(c0)
    BY <1>1, <2>6, <2>10, <2>11 DEF Abstract!Drop
  <2> QED
    BY <1>3, <2>7, <2>8, <2>12 DEF IInv, MapsTo, Abstract!Next
<1> QED
  BY <1>5, <1>6

LEMMA CallsAreNumbers == Calls \subseteq Nat
BY BoundsAssumption DEF Calls

(* A new call goes behind everything in the inbox. *)
LEMMA AskStep ==
    ASSUME IInv, NEW c0 \in Calls, NEW conn \in Conns, NEW mgmt \in Mgmts,
           NEW flags \in Flags, NMAsks(c0, conn, mgmt, flags)
    PROVE  IInv' /\ MapsTo
<1> DEFINE call == [state |-> "waiting", conn |-> conn, mgmt |-> mgmt, flags |-> flags]
           m == [method |-> "GetSecrets", call |-> c0]
<1>1. /\ nm.call[c0].state = "idle"
      /\ \A d \in Calls : d < c0 => nm.call[d].state # "idle"
      /\ \A d \in Calls : nm.call[d].conn = conn => ~Waits(d)
      /\ UNCHANGED <<request, replies, runs>>
      /\ inbox' = Append(inbox, m)
  BY CallsAreNumbers DEF NMAsks, Send, Calls
<1>2. /\ nm' \in [registered : BOOLEAN, call : [Calls -> CallRecords]]
      /\ nm'.call = [nm.call EXCEPT ![c0] = call]
  <2>1. call \in CallRecords
    BY FlagsAssumption DEF CallRecords
  <2>2. nm' = [nm EXCEPT !.call = [nm.call EXCEPT ![c0] = call]]
    BY DEF NMAsks, IInv, TypeInv
  <2> QED
    BY <2>1, <2>2 DEF IInv, TypeInv
<1>3. /\ nm'.call[c0] = call
      /\ \A d \in Calls : d # c0 => nm'.call[d] = nm.call[d]
  BY <1>2 DEF IInv, TypeInv
<1>4. /\ call.state = "waiting" /\ call.conn = conn
      /\ m \in Messages /\ m.method = "GetSecrets" /\ m.call = c0
  BY DEF Messages
<1> HIDE DEF call, m
<1>5. /\ ~Pending(c0) /\ ~OfDialog(c0) /\ replies[c0] = <<>>
  BY <1>1 DEF IInv, OnePlace
<1>6. \A c \in Calls : Pending(c)' <=> Pending(c) \/ c = c0
  BY <1>1, <1>4, SentPending DEF IInv
<1>7. RequestType' /\ OneDialog' /\ \A c \in Calls : OfDialog(c)' <=> OfDialog(c)
  BY <1>1, SameDialog DEF IInv
<1>8. TypeInv'
  BY <1>1, <1>2, <1>4, Sent DEF IInv, TypeInv
<1>9. OnePlace'
  BY <1>1, <1>3, <1>4, <1>5, <1>6, <1>7 DEF IInv, OnePlace
<1>10. Numbered'
  BY <1>1, <1>3, <1>4 DEF IInv, Numbered
<1>11. \A d \in Calls : d # c0 => (Waits(d)' <=> Waits(d))
  BY <1>1, <1>3 DEF Waits
<1>12. LastWaits'
  <2> SUFFICES ASSUME NEW c \in Calls, NEW d \in Calls, d < c,
                      nm'.call[c].state # "idle", nm'.call[d].conn = nm'.call[c].conn
               PROVE  ~Waits(d)'
    BY DEF LastWaits
  <2>1. d # c
    <3>1. c \in Nat /\ d \in Nat
      BY CallsAreNumbers
    <3> QED
      BY <3>1
  <2>2. CASE c = c0
    BY <1>1, <1>3, <1>4, <1>11, <2>1, <2>2
  <2>3. CASE d = c0
    BY <1>1, <1>3, <2>1, <2>3 DEF IInv, Numbered
  <2>4. CASE c # c0 /\ d # c0
    BY <1>3, <1>11, <2>4 DEF IInv, LastWaits
  <2> QED
    BY <2>2, <2>3, <2>4
<1>13. PendingOnce'
  <2> SUFFICES ASSUME NEW c \in Calls, NEW i \in DOMAIN inbox', NEW j \in DOMAIN inbox',
                      GetAt(i, c)', GetAt(j, c)'
               PROVE  i = j
    BY DEF PendingOnce, GetAt
  <2>1. CASE c = c0
    <3>1. i \notin DOMAIN inbox /\ j \notin DOMAIN inbox
      BY <1>1, <1>4, <1>5, <2>1, Sent DEF IInv, Pending, GetAt
    <3> QED
      BY <1>1, <1>4, <3>1, Sent DEF IInv
  <2>2. CASE c # c0
    <3>1. i \in DOMAIN inbox /\ j \in DOMAIN inbox
      BY <1>1, <1>4, <2>2, Sent DEF IInv, GetAt
    <3> QED
      BY <1>1, <1>4, <3>1, Sent DEF IInv, GetAt, PendingOnce
  <2> QED
    BY <2>1, <2>2
<1>14. CancelsHold'
  <2> SUFFICES ASSUME NEW i \in DOMAIN inbox', inbox'[i].method = "CancelGetSecrets",
                      NEW d \in Calls, nm'.call[d].conn = inbox'[i].conn, Waits(d)'
               PROVE  \E j \in DOMAIN inbox' : i < j /\ GetAt(j, d)'
    BY DEF CancelsHold, GetAt
  <2>1. i \in DOMAIN inbox /\ inbox[i] = inbox'[i]
    BY <1>1, <1>4, Sent DEF IInv
  <2>2. CASE d = c0
    BY <1>1, <1>4, <2>1, <2>2, Sent DEF IInv, GetAt
  <2>3. CASE d # c0
    <3>1. PICK j \in DOMAIN inbox : i < j /\ GetAt(j, d)
      BY <1>3, <1>11, <2>1, <2>3 DEF IInv, CancelsHold
    <3> QED
      BY <1>1, <1>4, <3>1, Sent DEF IInv, GetAt
  <2> QED
    BY <2>2, <2>3
<1>15. Abstract!Ask(c0)
  <2>1. Ends /\ Ends'
    BY <1>9, EndsAre, EndsAreNext DEF IInv
  <2>2. EndOf(c0) = "none" /\ EndOf(c0)' = "none"
    BY <1>1, <1>5, <1>6, <1>7, <2>1 DEF Ends, EndIs
  <2>3. \A c \in Calls : c # c0 => EndOf(c)' = EndOf(c)
    BY <1>1, <1>3, <1>6, <1>7, <2>1 DEF Ends, EndIs, IInv, OnePlace
  <2> QED
    BY <1>1, <1>3, <1>4, <2>2, <2>3 DEF Abstract!Ask
<1> QED
  BY <1>7, <1>8, <1>9, <1>10, <1>12, <1>13, <1>14, <1>15 DEF IInv, MapsTo, Abstract!Next

(* Calls are withdrawn, and a message that asks for nothing tells of it. *)
LEMMA Withdrawn ==
    ASSUME IInv, NEW C \in SUBSET Calls, \A c \in C : nm.call[c].state = "waiting",
           nm' \in [registered : BOOLEAN, call : [Calls -> CallRecords]],
           \A c \in Calls : /\ nm'.call[c].conn = nm.call[c].conn
                            /\ nm'.call[c].state = IF c \in C THEN "withdrawn"
                                                   ELSE nm.call[c].state,
           UNCHANGED <<request, replies, runs>>,
           NEW m \in Messages, m.method # "GetSecrets", inbox' = Append(inbox, m),
           PendingOnce', CancelsHold'
    PROVE  IInv' /\ MapsTo
<1>1. \A c \in Calls : Pending(c)' <=> Pending(c)
  BY SentPending DEF IInv
<1>2. RequestType' /\ OneDialog' /\ \A c \in Calls : OfDialog(c)' <=> OfDialog(c)
  BY SameDialog DEF IInv
<1>3. \A c \in Calls : Waits(c)' => Waits(c)
  BY DEF Waits
<1>4. \A c \in Calls : nm'.call[c].state = "idle" <=> nm.call[c].state = "idle"
  OBVIOUS
<1>5. TypeInv'
  BY Sent DEF IInv, TypeInv
<1>6. OnePlace'
  BY <1>1, <1>2, <1>4 DEF IInv, OnePlace
<1>7. Numbered'
  BY <1>4 DEF IInv, Numbered
<1>8. LastWaits'
  BY <1>3, <1>4 DEF IInv, LastWaits
<1>9. Ends /\ Ends'
  BY <1>6, EndsAre, EndsAreNext DEF IInv
<1>10. \A c \in Calls : EndOf(c)' = EndOf(c)
  BY <1>1, <1>2, <1>4, <1>9 DEF Ends, EndIs, IInv, OnePlace
<1>11. Abstract!Withdraw(C)
  BY <1>10 DEF Abstract!Withdraw
<1> QED
  BY <1>2, <1>5, <1>6, <1>7, <1>8, <1>11 DEF IInv, MapsTo, Abstract!Next

(* One call is cancelled, by its connection: it is the last of that        *)
(* connection, and the ones before it are not waited for.                  *)
LEMMA GiveUpStep ==
    ASSUME IInv, NEW c0 \in Calls, NMCancels(c0)
    PROVE  IInv' /\ MapsTo
<1> DEFINE call == [nm.call[c0] EXCEPT !.state = "withdrawn"]
           m == [method |-> "CancelGetSecrets", conn |-> nm.call[c0].conn]
<1>1. /\ nm.call[c0].state = "waiting"
      /\ \A d \in Calls : c0 < d => nm.call[d].conn # nm.call[c0].conn
      /\ UNCHANGED <<request, replies, runs>>
      /\ inbox' = Append(inbox, m)
  BY BoundsAssumption DEF NMCancels, Send, Calls
<1>2. /\ nm' \in [registered : BOOLEAN, call : [Calls -> CallRecords]]
      /\ nm'.call = [nm.call EXCEPT ![c0] = call]
      /\ nm.call[c0] \in CallRecords
  <2>1. call \in CallRecords /\ nm.call[c0] \in CallRecords
    BY DEF CallRecords, IInv, TypeInv
  <2>2. nm' = [nm EXCEPT !.call = [nm.call EXCEPT ![c0] = call]]
    BY DEF NMCancels, IInv, TypeInv
  <2> QED
    BY <2>1, <2>2 DEF IInv, TypeInv
<1>3. /\ nm'.call[c0] = call
      /\ \A d \in Calls : d # c0 => nm'.call[d] = nm.call[d]
  BY <1>2 DEF IInv, TypeInv
<1>4. /\ call.state = "withdrawn" /\ call.conn = nm.call[c0].conn
      /\ m \in Messages /\ m.method = "CancelGetSecrets" /\ m.conn = nm.call[c0].conn
  BY <1>2 DEF Messages, CallRecords
<1> HIDE DEF call
<1>5. PendingOnce'
  <2> SUFFICES ASSUME NEW c \in Calls, NEW i \in DOMAIN inbox', NEW j \in DOMAIN inbox',
                      GetAt(i, c)', GetAt(j, c)'
               PROVE  i = j
    BY DEF PendingOnce, GetAt
  <2>1. i \in DOMAIN inbox /\ j \in DOMAIN inbox
    BY <1>1, <1>4, Sent DEF IInv, GetAt
  <2> QED
    BY <1>1, <1>4, <2>1, Sent DEF IInv, GetAt, PendingOnce
<1>6. \A d \in Calls : /\ nm'.call[d].conn = nm.call[d].conn
                       /\ Waits(d)' => Waits(d) /\ d # c0
  BY <1>1, <1>3, <1>4 DEF Waits
<1>7. CancelsHold'
  <2> SUFFICES ASSUME NEW i \in DOMAIN inbox', inbox'[i].method = "CancelGetSecrets",
                      NEW d \in Calls, nm'.call[d].conn = inbox'[i].conn, Waits(d)'
               PROVE  \E j \in DOMAIN inbox' : i < j /\ GetAt(j, d)'
    BY DEF CancelsHold, GetAt
  <2>1. CASE i \in DOMAIN inbox
    <3>1. PICK j \in DOMAIN inbox : i < j /\ GetAt(j, d)
      BY <1>1, <1>4, <1>6, <2>1, Sent DEF IInv, CancelsHold
    <3> QED
      BY <1>1, <1>4, <3>1, Sent DEF IInv, GetAt
  <2>2. CASE i \notin DOMAIN inbox
    <3>1. inbox'[i] = m
      BY <1>1, <1>4, <2>2, Sent DEF IInv
    <3>2. nm.call[d].conn = nm.call[c0].conn /\ Waits(d) /\ d # c0
      BY <1>4, <1>6, <3>1
    <3>3. d < c0
      BY <1>1, <3>2, CallsAreNumbers
    <3> QED
      BY <1>1, <3>2, <3>3 DEF IInv, LastWaits
  <2> QED
    BY <2>1, <2>2
<1>8. \A c \in Calls : nm'.call[c].state = IF c \in {c0} THEN "withdrawn" ELSE nm.call[c].state
  BY <1>3, <1>4
<1>9. /\ \A c \in Calls : nm'.call[c].conn = nm.call[c].conn
      /\ {c0} \in SUBSET Calls /\ \A c \in {c0} : nm.call[c].state = "waiting"
      /\ m.method # "GetSecrets"
  BY <1>1, <1>4, <1>6
<1> HIDE DEF m
<1> QED
  BY <1>1, <1>2, <1>4, <1>5, <1>7, <1>8, <1>9, Withdrawn

(* NetworkManager forgets its calls. *)
LEMMA ForgetStep ==
    ASSUME IInv, NMRestarts
    PROVE  IInv' /\ MapsTo
<1> DEFINE C == {c \in Calls : nm.call[c].state = "waiting"}
           m == [method |-> "serviceOwnerChanged"]
<1>1. /\ UNCHANGED <<request, replies, runs>>
      /\ inbox' = Append(inbox, m)
      /\ m \in Messages /\ m.method = "serviceOwnerChanged"
  BY DEF NMRestarts, Send, Messages
<1>2. ASSUME NEW c \in Calls
      PROVE  /\ nm'.call[c] \in CallRecords
             /\ nm'.call[c].conn = nm.call[c].conn
             /\ nm'.call[c].state = IF c \in C THEN "withdrawn" ELSE nm.call[c].state
  <2>1. nm.call[c] \in CallRecords
    BY DEF IInv, TypeInv
  <2>2. nm'.call[c] = IF nm.call[c].state = "waiting"
                      THEN [nm.call[c] EXCEPT !.state = "withdrawn"] ELSE nm.call[c]
    BY DEF NMRestarts
  <2> QED
    BY <2>1, <2>2 DEF CallRecords
<1>3. nm' \in [registered : BOOLEAN, call : [Calls -> CallRecords]]
  BY <1>2 DEF NMRestarts
<1>4. PICK W \in SUBSET Calls : W = C
  OBVIOUS
<1>5. \A d \in Calls : nm'.call[d].conn = nm.call[d].conn /\ (Waits(d)' => Waits(d))
  BY <1>1, <1>2 DEF Waits
<1>6. PendingOnce' /\ CancelsHold'
  BY <1>1, <1>5, SentOrder DEF IInv
<1>7. \A c \in Calls : /\ nm'.call[c].conn = nm.call[c].conn
                       /\ nm'.call[c].state = IF c \in W THEN "withdrawn"
                                              ELSE nm.call[c].state
  BY <1>2, <1>4
<1>8. \A c \in W : nm.call[c].state = "waiting"
  BY <1>4
<1> QED
  BY <1>1, <1>3, <1>6, <1>7, <1>8, Withdrawn

(* The agent dies with the calls on their way and the one of its dialog. *)
LEMMA RestartStep ==
    ASSUME IInv, AgentRestarts
    PROVE  IInv' /\ MapsTo
<1>1. /\ nm' = [nm EXCEPT !.registered = TRUE] /\ runs' = runs + 1
      /\ request' = {} /\ inbox' = <<>> /\ UNCHANGED replies
  BY DEF AgentRestarts
<1>2. /\ nm' \in [registered : BOOLEAN, call : [Calls -> CallRecords]]
      /\ nm'.call = nm.call
  BY <1>1 DEF IInv, TypeInv
<1>3. inbox' \in Seq(Messages) /\ DOMAIN inbox' = {}
  BY <1>1
<1>4. \A c \in Calls : ~Pending(c)' /\ ~OfDialog(c)' /\ (Waits(c)' <=> Waits(c))
  BY <1>1, <1>2, <1>3 DEF Pending, OfDialog, Waits
<1>5. TypeInv' /\ RequestType' /\ OneDialog'
  BY <1>1, <1>2, <1>3 DEF IInv, TypeInv, RequestType, OneDialog
<1>6. OnePlace'
  BY <1>1, <1>2, <1>4 DEF IInv, OnePlace
<1>7. PendingOnce' /\ CancelsHold'
  BY <1>3 DEF PendingOnce, CancelsHold
<1>8. Numbered' /\ LastWaits'
  BY <1>2, <1>4 DEF IInv, Numbered, LastWaits
<1>9. Ends /\ Ends'
  BY <1>6, EndsAre, EndsAreNext DEF IInv
<1>10. \A c \in Calls :
         EndOf(c)' = IF (nm.call[c].state # "idle" /\ EndOf(c) = "none") \/ EndOf(c) = "open"
                     THEN "dropped" ELSE EndOf(c)
  BY <1>1, <1>2, <1>4, <1>9 DEF Ends, EndIs, IInv, OnePlace
<1>11. Abstract!AgentDies
  BY <1>1, <1>2, <1>10 DEF Abstract!AgentDies, Abstract!Arrived
<1> QED
  BY <1>5, <1>6, <1>7, <1>8, <1>11 DEF IInv, MapsTo, Abstract!Next

-----------------------------------------------------------------------------

LEMMA InitIInv == Init => IInv
<1> SUFFICES ASSUME Init PROVE IInv
  OBVIOUS
<1>1. /\ \A c \in Calls : nm.call[c].state = "idle" /\ nm.call[c].conn = "none"
      /\ inbox = <<>> /\ request = {} /\ replies = [c \in Calls |-> <<>>]
      /\ nm \in [registered : BOOLEAN, call : [Calls -> CallRecords]]
  BY DEF Init, CallRecords, Mgmts
<1>2. inbox \in Seq(Messages) /\ DOMAIN inbox = {}
  BY <1>1
<1>3. TypeInv /\ RequestType /\ OneDialog
  BY <1>1, <1>2 DEF TypeInv, RequestType, OneDialog
<1>4. OnePlace
  BY <1>1, <1>2 DEF OnePlace, Pending, OfDialog
<1>5. Numbered /\ LastWaits
  BY <1>1 DEF Numbered, LastWaits, Waits
<1>6. PendingOnce /\ CancelsHold
  BY <1>2 DEF PendingOnce, CancelsHold
<1> QED
  BY <1>3, <1>4, <1>5, <1>6 DEF IInv

LEMMA InitMaps == Init => Abstract!Init
<1> SUFFICES ASSUME Init PROVE Abstract!Init
  OBVIOUS
<1>1. \A c \in Calls : nm.call[c].state = "idle"
  BY DEF Init
<1>2. \A c \in Calls : replies[c] = <<>> /\ ~OfDialog(c)
  BY DEF Init, OfDialog
<1>3. \A c \in Calls : EndOf(c) = "none"
  BY <1>1, <1>2, InitIInv, EndsAre DEF IInv, Ends, EndIs
<1> QED
  BY <1>1, <1>3 DEF Init, Abstract!Init

LEMMA NextMaps == IInv /\ [Next]_vars => IInv' /\ MapsTo
<1> SUFFICES ASSUME IInv, [Next]_vars
             PROVE  IInv' /\ MapsTo
  OBVIOUS
<1>1. CASE Handles
  BY <1>1, GetStep, CancelStep, KeyringStep, SignalStep, TextStep DEF Handles
<1>2. CASE NetworkManager
  <2>1. ASSUME NEW c \in Calls, NEW conn \in Wifis, NEW flags \in Flags,
               NEW mgmt \in KeyMgmt[conn], NMAsks(c, conn, mgmt, flags)
        PROVE  IInv' /\ MapsTo
    <3>1. conn \in Conns /\ mgmt \in Mgmts
      BY MgmtAssumption DEF Conns, Mgmts
    <3> QED
      BY <2>1, <3>1, AskStep
  <2>2. ASSUME NEW c \in Calls, NEW conn \in Vpns, NEW flags \in Flags,
               NMAsks(c, conn, "none", flags)
        PROVE  IInv' /\ MapsTo
    <3>1. conn \in Conns /\ "none" \in Mgmts
      BY DEF Conns, Mgmts
    <3> QED
      BY <2>2, <3>1, AskStep
  <2>3. ASSUME NEW c \in Calls, NMCancels(c)
        PROVE  IInv' /\ MapsTo
    BY <2>3, GiveUpStep
  <2>4. CASE NMRestarts
    BY <2>4, ForgetStep
  <2>5. CASE \E conn \in Wifis, key \in {"psk", "wep-key0"}, text \in Passwords :
                 NMSaves(conn, key, text)
    BY <2>5, SavingSent DEF Conns
  <2>6. CASE \E conn \in Vpns, text \in Passwords : NMSaves(conn, "password", text)
    BY <2>6, SavingSent DEF Conns
  <2>7. CASE \E conn \in Conns : NMDeletes(conn)
    BY <2>7, SavingSent
  <2> QED
    BY <1>2, <2>1, <2>2, <2>3, <2>4, <2>5, <2>6, <2>7 DEF NetworkManager
<1>3. CASE User
  BY <1>3, UserStep
<1>4. CASE AgentRestarts
  BY <1>4, RestartStep
<1>5. CASE UNCHANGED vars
  <2>1. UNCHANGED <<nm, inbox, request, replies, runs>>
    BY <1>5 DEF vars
  <2>2. /\ nm' \in [registered : BOOLEAN, call : [Calls -> CallRecords]]
        /\ nm'.call = nm.call
    BY <2>1 DEF IInv, TypeInv
  <2>3. \A d \in Calls : nm'.call[d].conn = nm.call[d].conn /\ (Waits(d)' => Waits(d))
    BY <2>1 DEF Waits
  <2> QED
    BY <2>1, <2>2, <2>3, SameInbox, SameDialog, Still DEF IInv
<1> QED
  BY <1>1, <1>2, <1>3, <1>4, <1>5 DEF Next

(* Every behaviour of the agent, its dialog and NetworkManager is one of   *)
(* SecretCalls: GetSecrets, CancelGetSecrets, FinishGetSecrets and the     *)
(* restarts never answer a call twice, never have two dialogs, and drop a  *)
(* shown call only when it was withdrawn, replaced, or lost with the agent. *)
THEOREM AgentKeepsCalls == Spec => CallsKept
<1>1. IInv /\ [Next]_vars => [Abstract!Next]_(Abstract!scVars)
  BY NextMaps DEF MapsTo
<1> QED
  BY <1>1, InitIInv, InitMaps, NextMaps, PTL DEF Spec, CallsKept, Abstract!Spec

-----------------------------------------------------------------------------
(* The dialogs and their texts *)

(* A call that has reached the agent. *)
Past(c) == nm.call[c].state # "idle" /\ ~Pending(c)

Texts == [path : 0 .. 128, text : Passwords]
Signals == [id : Calls, key : {"connect_id", "cancel_id", "closed"}]

(* The last text under way to the menu at a path tells what was typed; if  *)
(* none is, the menu knows it.                                             *)
LastText(texts, path, text, known) ==
    \/ \E n \in DOMAIN texts :
          /\ texts[n].path = path /\ texts[n].text = text
          /\ \A m \in DOMAIN texts : m > n => texts[m].path # path
    \/ (\A n \in DOMAIN texts : texts[n].path # path) /\ known = text

TextType ==
    /\ pw \in Seq(Texts)
    /\ sig \in Seq(Signals)
    /\ DOMAIN shown \subseteq Calls
    /\ \A i \in DOMAIN shown : shown[i] \in 0 .. 128
    /\ typed = [c \in Calls |-> typed[c]]

(* A dialog is shown, closed and typed into only for a call that reached   *)
(* the agent, and what is closed is not on the screen again.               *)
Signalled(c) == \E n \in DOMAIN sig : sig[n].id = c

DialogsPast ==
    \A c \in Calls :
        /\ c \in DOMAIN shown \/ Signalled(c) \/ typed[c] # NoText => Past(c)
        /\ ~(c \in DOMAIN shown /\ Signalled(c))

(* A dialog's text goes to its request, or to nobody: of the old dialogs   *)
(* none has the path of the request alive.                                 *)
DialogsOwned ==
    /\ \A r \in request : /\ r.id \in {0, r.call}
                          /\ r.path \in 1 .. 128
                          /\ r.id \in DOMAIN shown => shown[r.id] = r.path
    /\ \A i \in DOMAIN shown : shown[i] = Nowhere \/ \E r \in request : r.id = i

(* What was typed last arrives, or is on its way behind every other text.  *)
TextArrives ==
    \A r \in request :
        r.id # 0 /\ typed[r.call] # NoText =>
            LastText(pw, r.path, typed[r.call], r.password)

TextInv == TextType /\ DialogsPast /\ DialogsOwned /\ TextArrives

-----------------------------------------------------------------------------
(* The keyring *)

KeyringInv ==
    /\ keyring = [conn \in Conns |-> keyring[conn]]
    /\ saved = [conn \in Conns |-> saved[conn]]
    /\ \A conn \in Conns : \A k \in DOMAIN saved[conn] :
           k \in DOMAIN keyring[conn] /\ keyring[conn][k] = saved[conn][k]

(* A call is about a connection. *)
AboutConns ==
    \A c \in Calls : nm.call[c].state # "idle" => nm.call[c].conn \in Conns

-----------------------------------------------------------------------------
(* Texts under way *)

(* A text sent is the last to its menu, and the last to no other. *)
LEMMA TextSent ==
    ASSUME NEW texts \in Seq(Texts), NEW t \in Texts, NEW path, NEW text, NEW known,
           \/ t.path = path /\ t.text = text
           \/ t.path # path /\ LastText(texts, path, text, known)
    PROVE  LastText(Append(texts, t), path, text, known)
<1> PICK all : all = Append(texts, t)
  OBVIOUS
<1>1. /\ DOMAIN texts = 1 .. Len(texts) /\ Len(texts) \in Nat
      /\ DOMAIN all = 1 .. (Len(texts) + 1)
      /\ \A n \in DOMAIN texts : all[n] = texts[n]
      /\ all[Len(texts) + 1] = t
  BY AppendProperties
<1>2. CASE t.path = path /\ t.text = text
  <2>1. /\ Len(texts) + 1 \in DOMAIN all
        /\ \A m \in DOMAIN all : ~(m > Len(texts) + 1)
    BY <1>1
  <2> QED
    BY <1>1, <1>2, <2>1 DEF LastText
<1>3. CASE t.path # path /\ LastText(texts, path, text, known)
  <2>1. CASE \A n \in DOMAIN texts : texts[n].path # path
    <3>1. known = text
      BY <1>3, <2>1 DEF LastText
    <3>2. \A n \in DOMAIN all : all[n].path # path
      BY <1>1, <1>3, <2>1
    <3> QED
      BY <3>1, <3>2 DEF LastText
  <2>2. CASE \E n \in DOMAIN texts : texts[n].path = path
    <3>1. PICK n \in DOMAIN texts :
             /\ texts[n].path = path /\ texts[n].text = text
             /\ \A m \in DOMAIN texts : m > n => texts[m].path # path
      BY <1>3, <2>2 DEF LastText
    <3>2. n \in DOMAIN all /\ all[n] = texts[n]
      BY <1>1
    <3>3. \A m \in DOMAIN all : m > n => all[m].path # path
      BY <1>1, <1>3, <3>1
    <3> QED
      BY <3>1, <3>2, <3>3 DEF LastText
  <2> QED
    BY <2>1, <2>2
<1> QED
  BY <1>2, <1>3

(* The menu takes the text of the message it gets. *)
LEMMA TextTaken ==
    ASSUME NEW texts \in Seq(Texts), texts # <<>>, NEW path, NEW text, NEW known, NEW now,
           LastText(texts, path, text, known),
           now = IF Head(texts).path = path THEN Head(texts).text ELSE known
    PROVE  LastText(Tail(texts), path, text, now)
<1> PICK rest : rest = Tail(texts)
  OBVIOUS
<1>1. /\ DOMAIN texts = 1 .. Len(texts) /\ Len(texts) \in Nat \ {0}
      /\ DOMAIN rest = 1 .. (Len(texts) - 1)
      /\ \A n \in DOMAIN rest : rest[n] = texts[n + 1]
      /\ Head(texts) = texts[1]
  BY HeadTailProperties, EmptySeq, LenProperties
<1>2. CASE \A n \in DOMAIN texts : texts[n].path # path
  <2>1. known = text
    BY <1>2 DEF LastText
  <2>2. Head(texts).path # path /\ \A n \in DOMAIN rest : rest[n].path # path
    BY <1>1, <1>2
  <2> QED
    BY <2>1, <2>2 DEF LastText
<1>3. CASE \E n \in DOMAIN texts : texts[n].path = path
  <2>1. PICK n \in DOMAIN texts :
           /\ texts[n].path = path /\ texts[n].text = text
           /\ \A m \in DOMAIN texts : m > n => texts[m].path # path
    BY <1>3 DEF LastText
  <2>2. CASE n = 1
    <3>1. now = text
      BY <1>1, <2>1, <2>2
    <3>2. \A m \in DOMAIN rest : rest[m].path # path
      BY <1>1, <2>1, <2>2
    <3> QED
      BY <3>1, <3>2 DEF LastText
  <2>3. CASE n # 1
    <3>1. n - 1 \in DOMAIN rest /\ rest[n - 1] = texts[n]
      BY <1>1, <2>3
    <3>2. \A m \in DOMAIN rest : m > n - 1 => rest[m].path # path
      BY <1>1, <2>1
    <3> QED
      BY <2>1, <3>1, <3>2 DEF LastText
  <2> QED
    BY <2>2, <2>3
<1> QED
  BY <1>2, <1>3

(* While one dialog at most is alive there is a path for the next. *)
LEMMA PathIsFree ==
    ASSUME OneDialog
    PROVE  FreePath(request) \in 1 .. 128
<1> DEFINE Free(p) == /\ \A r \in request : r.path # p
                      /\ \A q \in 1 .. (p - 1) : \E r \in request : r.path = q
<1>1. \E p \in 1 .. 128 : Free(p)
  <2>1. CASE \A r \in request : r.path # 1
    <3>1. Free(1)
      BY <2>1
    <3> QED
      <4>1. 1 \in 1 .. 128
        OBVIOUS
      <4> HIDE DEF Free
      <4> QED
        BY <3>1, <4>1
  <2>2. CASE \E r \in request : r.path = 1
    <3>1. \A r \in request : r.path = 1
      BY <2>2 DEF OneDialog
    <3>2. Free(2)
      BY <2>2, <3>1
    <3> QED
      <4>1. 2 \in 1 .. 128
        OBVIOUS
      <4> HIDE DEF Free
      <4> QED
        BY <3>2, <4>1
  <2> QED
    BY <2>1, <2>2
<1> QED
  BY <1>1 DEF FreePath

-----------------------------------------------------------------------------
(* A call that has reached the agent is never on its way to it again. *)

LEMMA SavingMethod == \A conn, key, text : Saving(conn, key, text).method = "SaveSecrets"
BY DEF Saving

(* Past is monotone: only a call that was never made is sent.              *)
LEMMA PastStays ==
    ASSUME IInv, [Next]_vars, NEW c \in Calls, Past(c)
    PROVE  Past(c)'
<1>0. nm.call[c].state # "idle" /\ ~Pending(c)
  BY DEF Past
<1>1. CASE Handles
  <2>1. CASE Take
    <3>1. ~Pending(c)'
      BY <1>0, <2>1, TakenPending DEF IInv
    <3>2. nm'.call = nm.call
      BY <1>1 DEF Handles, GetSecrets, HandleCancel, SaveSecrets, DeleteSecrets,
                  serviceOwnerChanged, HandleNotification, passwordChanged, IInv, TypeInv
    <3> QED
      BY <1>0, <3>1, <3>2 DEF Past
  <2>2. CASE UNCHANGED <<nm, inbox>>
    BY <1>0, <2>2 DEF Past, Pending
  <2> QED
    BY <1>1, <2>1, <2>2 DEF Handles, GetSecrets, HandleCancel, SaveSecrets, DeleteSecrets,
                            serviceOwnerChanged, HandleNotification, passwordChanged
<1>2. CASE NetworkManager
  <2>1. ASSUME NEW c0 \in Calls, NEW conn, NEW mgmt, NEW flags, NMAsks(c0, conn, mgmt, flags)
        PROVE  Past(c)'
    <3>1. PICK m : m = [method |-> "GetSecrets", call |-> c0]
      OBVIOUS
    <3>2. m \in Messages /\ m.call = c0 /\ inbox' = Append(inbox, m) /\ c # c0
      BY <1>0, <2>1, <3>1 DEF NMAsks, Send, Messages
    <3>3. ~Pending(c)'
      BY <1>0, <3>2, SentPending DEF IInv
    <3>4. nm'.call[c] = nm.call[c]
      BY <2>1, <3>2 DEF NMAsks, IInv, TypeInv
    <3> QED
      BY <1>0, <3>3, <3>4 DEF Past
  <2>2. ASSUME NEW m \in Messages, m.method # "GetSecrets", inbox' = Append(inbox, m),
               nm'.call[c].state # "idle"
        PROVE  Past(c)'
    BY <1>0, <2>2, SentPending DEF IInv, Past
  <2>3. ASSUME NEW c0 \in Calls, NMCancels(c0)
        PROVE  Past(c)'
    <3>1. PICK m : m = [method |-> "CancelGetSecrets", conn |-> nm.call[c0].conn]
      OBVIOUS
    <3>2. m \in Messages /\ m.method # "GetSecrets" /\ inbox' = Append(inbox, m)
      BY <2>3, <3>1 DEF NMCancels, Send, Messages, IInv, TypeInv, CallRecords
    <3>3. nm'.call[c].state # "idle"
      BY <1>0, <2>3 DEF NMCancels, IInv, TypeInv, CallRecords
    <3> QED
      BY <2>2, <3>2, <3>3
  <2>4. ASSUME NMRestarts
        PROVE  Past(c)'
    <3>1. PICK m : m = [method |-> "serviceOwnerChanged"]
      OBVIOUS
    <3>2. m \in Messages /\ m.method # "GetSecrets" /\ inbox' = Append(inbox, m)
      BY <2>4, <3>1 DEF NMRestarts, Send, Messages
    <3>3. nm'.call[c].state # "idle"
      <4>1. nm.call[c] \in CallRecords
        BY DEF IInv, TypeInv
      <4>2. nm'.call[c] = IF nm.call[c].state = "waiting"
                          THEN [nm.call[c] EXCEPT !.state = "withdrawn"] ELSE nm.call[c]
        BY <2>4 DEF NMRestarts
      <4> QED
        BY <1>0, <4>1, <4>2 DEF CallRecords
    <3> QED
      BY <2>2, <3>2, <3>3
  <2>5. ASSUME NEW conn, NEW key, NEW text, NMSaves(conn, key, text),
               \/ conn \in Wifis /\ key \in {"psk", "wep-key0"} /\ text \in Passwords
               \/ conn \in Vpns /\ key = "password" /\ text \in Passwords
        PROVE  Past(c)'
    <3>1. PICK m : m = Saving(conn, key, text)
      OBVIOUS
    <3>2. m \in Messages
      BY <2>5, <3>1 DEF Messages
    <3>3. m.method # "GetSecrets"
      BY <3>1, SavingMethod
    <3>4. inbox' = Append(inbox, m) /\ nm' = nm
      BY <2>5, <3>1 DEF NMSaves, Send
    <3> QED
      BY <1>0, <2>2, <3>2, <3>3, <3>4
  <2>6. ASSUME NEW conn \in Conns, NMDeletes(conn)
        PROVE  Past(c)'
    <3>1. PICK m : m = [method |-> "DeleteSecrets", conn |-> conn]
      OBVIOUS
    <3>2. m \in Messages /\ m.method # "GetSecrets" /\ inbox' = Append(inbox, m) /\ nm' = nm
      BY <2>6, <3>1 DEF NMDeletes, Send, Messages
    <3> QED
      BY <1>0, <2>2, <3>2
  <2> QED
    BY <1>2, <2>1, <2>3, <2>4, <2>5, <2>6 DEF NetworkManager
<1>3. CASE AgentRestarts
  <2>1. nm'.call = nm.call /\ inbox' = <<>>
    BY <1>3 DEF AgentRestarts, IInv, TypeInv
  <2> QED
    BY <1>0, <2>1 DEF Past, Pending
<1>4. CASE User \/ UNCHANGED vars
  <2>1. UNCHANGED <<nm, inbox>>
    BY <1>4 DEF User, UserTypes, UserChooses, vars
  <2> QED
    BY <1>0, <2>1 DEF Past, Pending
<1> QED
  BY <1>1, <1>2, <1>3, <1>4 DEF Next

-----------------------------------------------------------------------------
(* The steps that move dialogs and texts *)

PastMonotone == \A c \in Calls : Past(c) => Past(c)'

(* Requests go with their dialogs; signals and dialogs only become fewer. *)
LEMMA DialogsGo ==
    ASSUME TextInv, PastMonotone, NEW gone \in SUBSET request,
           request' = request \ gone,
           DOMAIN shown' = DOMAIN shown \ {r.id : r \in gone},
           \A i \in DOMAIN shown' : shown'[i] = shown[i],
           sig' \in Seq(Signals),
           \A n \in DOMAIN sig' : \E m \in DOMAIN sig : sig'[n] = sig[m],
           UNCHANGED <<pw, typed>>
    PROVE  TextInv'
<1>1. TextType'
  BY DEF TextInv, TextType
<1>2. DialogsPast'
  <2>1. \A c : Signalled(c)' => Signalled(c)
    BY DEF Signalled
  <2> QED
    BY <2>1 DEF TextInv, DialogsPast, PastMonotone
<1>3. DialogsOwned'
  <2>1. ASSUME NEW r \in request'
        PROVE  /\ r.id \in {0, r.call}
               /\ r.path \in 1 .. 128
               /\ r.id \in DOMAIN shown' => shown'[r.id] = r.path
    BY DEF TextInv, DialogsOwned
  <2>2. ASSUME NEW i \in DOMAIN shown', shown'[i] # Nowhere
        PROVE  \E r \in request' : r.id = i
    <3>1. PICK r \in request : r.id = i
      BY <2>2 DEF TextInv, DialogsOwned
    <3>2. r \notin gone
      BY <3>1
    <3> QED
      BY <3>1, <3>2
  <2> QED
    BY <2>1, <2>2 DEF DialogsOwned
<1>4. TextArrives'
  BY DEF TextInv, TextArrives
<1> QED
  BY <1>1, <1>2, <1>3, <1>4 DEF TextInv

(* A step that moves neither dialogs nor texts.                            *)
LEMMA TextStill ==
    ASSUME TextInv, PastMonotone, UNCHANGED <<request, shown, pw, sig, typed>>
    PROVE  TextInv'
<1>1. /\ {} \in SUBSET request /\ request' = request \ {}
      /\ DOMAIN shown' = DOMAIN shown \ {r.id : r \in {}}
      /\ \A n \in DOMAIN sig' : \E m \in DOMAIN sig : sig'[n] = sig[m]
      /\ sig' \in Seq(Signals)
  BY DEF TextInv, TextType
<1> QED
  BY <1>1, DialogsGo

(* The dialog of a new call: its path may be an older dialog's, but no     *)
(* text was typed for the call, and no older dialog leads to it.           *)
LEMMA DialogOpens ==
    ASSUME IInv, TextInv, PastMonotone, NEW c0 \in Calls, Pending(c0), Past(c0)',
           NEW works \in BOOLEAN, GetFromUser(c0, works), UNCHANGED <<pw, sig, typed>>
    PROVE  TextInv'
<1>0. PICK r : r = NewRequest(c0, request, works)
  OBVIOUS
<1>1. /\ r.call = c0 /\ r.path \in 1 .. 128
      /\ r.id \in {0, c0}
  <2>1. r = [call |-> c0, path |-> FreePath(request), password |-> NoText,
             id |-> IF works THEN c0 ELSE 0]
    BY <1>0 DEF NewRequest
  <2> QED
    BY <2>1, PathIsFree DEF IInv
<1>2. request' = {r} /\ shown' = show(Closed(shown, request), r)
  BY <1>0 DEF GetFromUser
<1>3. ~Past(c0) /\ typed[c0] = NoText /\ c0 # 0
  BY CallsAreNumbers DEF Past, TextInv, DialogsPast, Calls
<1>4. PICK rest : rest = Closed(shown, request)
  OBVIOUS
<1>5. /\ DOMAIN rest = DOMAIN shown \ {s.id : s \in request}
      /\ \A i \in DOMAIN rest : rest[i] = shown[i]
  BY <1>4 DEF Closed
<1>6. c0 \notin DOMAIN shown
  BY <1>3 DEF TextInv, DialogsPast
<1>7. /\ DOMAIN shown' = IF r.id = 0 THEN DOMAIN rest ELSE DOMAIN rest \cup {c0}
      /\ \A i \in DOMAIN rest : shown'[i] = shown[i]
      /\ r.id # 0 => shown'[c0] = r.path
  BY <1>1, <1>2, <1>3, <1>4, <1>5, <1>6 DEF show
<1>8. \A i \in DOMAIN rest : shown[i] = Nowhere
  BY <1>5 DEF TextInv, DialogsOwned
<1>9. TextType'
  <2>1. DOMAIN shown' \subseteq Calls
    BY <1>5, <1>7 DEF TextInv, TextType
  <2>2. ASSUME NEW i \in DOMAIN shown'
        PROVE  shown'[i] \in 0 .. 128
    <3>1. CASE i \in DOMAIN rest
      <4>1. shown'[i] = shown[i] /\ i \in DOMAIN shown
        BY <1>5, <1>7, <3>1
      <4> QED
        BY <4>1 DEF TextInv, TextType
    <3>2. CASE i \notin DOMAIN rest
      <4>1. shown'[i] = r.path
        BY <1>7, <3>2
      <4> QED
        BY <1>1, <4>1
    <3> QED
      BY <3>1, <3>2
  <2> QED
    BY <2>1, <2>2 DEF TextInv, TextType
<1>10. DialogsPast'
  <2> SUFFICES ASSUME NEW c \in Calls
               PROVE  /\ c \in DOMAIN shown' \/ Signalled(c)' \/ typed'[c] # NoText => Past(c)'
                      /\ ~(c \in DOMAIN shown' /\ Signalled(c)')
    BY DEF DialogsPast
  <2>1. Signalled(c)' <=> Signalled(c)
    BY DEF Signalled
  <2>2. CASE c = c0
    <3>1. ~Signalled(c0)
      BY <1>3 DEF TextInv, DialogsPast
    <3> QED
      BY <1>3, <2>1, <2>2, <3>1
  <2>3. CASE c # c0
    <3>1. c \in DOMAIN shown' => c \in DOMAIN shown
      BY <1>5, <1>7, <2>3
    <3> QED
      BY <2>1, <3>1 DEF TextInv, DialogsPast, PastMonotone
  <2> QED
    BY <2>2, <2>3
<1>11. DialogsOwned'
  <2>1. /\ r.id \in {0, r.call} /\ r.path \in 1 .. 128
        /\ r.id \in DOMAIN shown' => shown'[r.id] = r.path
    <3>1. 0 \notin DOMAIN shown'
      BY <1>9, CallsAreNumbers DEF TextType, Calls
    <3> QED
      BY <1>1, <1>7, <3>1
  <2>2. ASSUME NEW i \in DOMAIN shown', shown'[i] # Nowhere
        PROVE  r.id = i
    BY <1>1, <1>7, <1>8, <2>2
  <2> QED
    BY <1>2, <2>1, <2>2 DEF DialogsOwned
<1>12. TextArrives'
  BY <1>1, <1>2, <1>3 DEF TextArrives
<1> QED
  BY <1>9, <1>10, <1>11, <1>12 DEF TextInv

(* A text reaches the menu, which takes it. *)
LEMMA TextReceived ==
    ASSUME IInv, TextInv, PastMonotone, passwordChanged
    PROVE  TextInv'
<1> DEFINE typing(r) == IF r.path = Head(pw).path
                        THEN [r EXCEPT !.password = Head(pw).text] ELSE r
<1>1. /\ request' = {typing(r) : r \in request}
      /\ pw # <<>> /\ pw' = Tail(pw)
      /\ UNCHANGED <<shown, sig, typed>>
  BY DEF passwordChanged
<1>2. ASSUME NEW r \in request
      PROVE  /\ typing(r).call = r.call /\ typing(r).path = r.path /\ typing(r).id = r.id
             /\ typing(r).password = IF Head(pw).path = r.path THEN Head(pw).text
                                     ELSE r.password
  <2>1. r = [call |-> r.call, path |-> r.path, password |-> r.password, id |-> r.id]
    BY DEF IInv, RequestType
  <2>2. [r EXCEPT !.password = Head(pw).text]
            = [call |-> r.call, path |-> r.path, password |-> Head(pw).text, id |-> r.id]
    BY <2>1
  <2> QED
    BY <2>1, <2>2
<1> HIDE DEF typing
<1>3. TextType'
  BY <1>1, HeadTailProperties DEF TextInv, TextType
<1>4. DialogsPast'
  <2>1. \A c : Signalled(c)' <=> Signalled(c)
    BY <1>1 DEF Signalled
  <2> QED
    BY <1>1, <2>1 DEF TextInv, DialogsPast, PastMonotone
<1>5. DialogsOwned'
  <2>1. ASSUME NEW r \in request
        PROVE  /\ typing(r).id \in {0, typing(r).call}
               /\ typing(r).path \in 1 .. 128
               /\ typing(r).id \in DOMAIN shown => shown[typing(r).id] = typing(r).path
    BY <1>2 DEF TextInv, DialogsOwned
  <2>2. ASSUME NEW i \in DOMAIN shown, shown[i] # Nowhere
        PROVE  \E r \in request : typing(r).id = i
    BY <1>2, <2>2 DEF TextInv, DialogsOwned
  <2> QED
    <3>1. \A x \in request' : /\ x.id \in {0, x.call}
                              /\ x.path \in 1 .. 128
                              /\ x.id \in DOMAIN shown => shown[x.id] = x.path
      <4> TAKE x \in request'
      <4>1. PICK r \in request : x = typing(r)
        BY <1>1
      <4> QED
        BY <2>1, <4>1
    <3>2. ASSUME NEW i \in DOMAIN shown, shown[i] # Nowhere
          PROVE  \E x \in request' : x.id = i
      <4>1. PICK r \in request : typing(r).id = i
        BY <2>2, <3>2
      <4> QED
        BY <1>1, <4>1
    <3> QED
      BY <1>1, <3>1, <3>2 DEF DialogsOwned
<1>6. TextArrives'
  <2> SUFFICES ASSUME NEW r \in request, r.id # 0, typed[r.call] # NoText
               PROVE  LastText(pw', r.path, typed[r.call], typing(r).password)
    BY <1>1, <1>2 DEF TextArrives
  <2>1. LastText(pw, r.path, typed[r.call], r.password)
    BY DEF TextInv, TextArrives
  <2> QED
    BY <1>1, <1>2, <2>1, TextTaken DEF TextInv, TextType
<1> QED
  BY <1>3, <1>4, <1>5, <1>6 DEF TextInv

(* A text typed goes behind the others, to the menu its dialog names. *)
LEMMA TextTyped ==
    ASSUME IInv, TextInv, PastMonotone, NEW c0 \in Calls, NEW text \in Passwords,
           UserTypes(c0, text)
    PROVE  TextInv'
<1>0. PICK t : t = [path |-> shown[c0], text |-> text]
  OBVIOUS
<1>1. /\ c0 \in DOMAIN shown /\ Past(c0)
      /\ pw' = Append(pw, t) /\ t \in Texts
      /\ t.path = shown[c0] /\ t.text = text
      /\ typed' = [typed EXCEPT ![c0] = text]
      /\ UNCHANGED <<request, shown, sig>>
  BY <1>0 DEF UserTypes, TextInv, TextType, DialogsPast, Texts
<1>2. /\ typed' = [c \in Calls |-> typed'[c]]
      /\ typed'[c0] = text
      /\ \A c \in Calls : c # c0 => typed'[c] = typed[c]
  BY <1>1 DEF TextInv, TextType
<1>3. TextType'
  BY <1>1, <1>2, AppendProperties DEF TextInv, TextType
<1>4. DialogsPast'
  <2>1. \A c : Signalled(c)' <=> Signalled(c)
    BY <1>1 DEF Signalled
  <2> QED
    BY <1>1, <1>2, <2>1 DEF TextInv, DialogsPast, PastMonotone
<1>5. DialogsOwned'
  BY <1>1 DEF TextInv, DialogsOwned
<1>6. TextArrives'
  <2> SUFFICES ASSUME NEW r \in request, r.id # 0, typed'[r.call] # NoText
               PROVE  LastText(pw', r.path, typed'[r.call], r.password)
    BY <1>1 DEF TextArrives
  <2>1. r.id = r.call /\ r.call \in Calls
    BY DEF TextInv, DialogsOwned, IInv, RequestType
  <2>2. pw \in Seq(Texts)
    BY DEF TextInv, TextType
  <2>3. CASE r.call = c0
    <3>1. t.path = r.path
      BY <1>1, <2>1, <2>3 DEF TextInv, DialogsOwned
    <3> QED
      BY <1>1, <1>2, <2>2, <2>3, <3>1, TextSent
  <2>4. CASE r.call # c0
    <3>1. \A s \in request : s.id # c0
      BY <2>1, <2>4 DEF IInv, OneDialog
    <3>2. t.path # r.path
      <4>1. t.path = 0
        BY <1>1, <3>1 DEF TextInv, DialogsOwned, Nowhere
      <4>2. r.path \in 1 .. 128
        BY DEF TextInv, DialogsOwned
      <4> QED
        BY <4>1, <4>2
    <3>3. LastText(pw, r.path, typed[r.call], r.password)
      BY <1>2, <2>1, <2>4 DEF TextInv, TextArrives
    <3> QED
      BY <1>1, <1>2, <2>1, <2>2, <2>4, <3>2, <3>3, TextSent
  <2> QED
    BY <2>3, <2>4
<1> QED
  BY <1>3, <1>4, <1>5, <1>6 DEF TextInv

(* A button or a swipe takes the dialog off the screen. *)
LEMMA DialogChosen ==
    ASSUME TextInv, PastMonotone, NEW c0 \in Calls,
           NEW keys \in Seq({"connect_id", "cancel_id", "closed"}), UserChooses(c0, keys)
    PROVE  TextInv'
<1>0. PICK new : new = [n \in DOMAIN keys |-> [id |-> c0, key |-> keys[n]]]
  OBVIOUS
<1>1. /\ c0 \in DOMAIN shown /\ Past(c0)
      /\ sig' = sig \o new
      /\ shown' = [j \in DOMAIN shown \ {c0} |-> shown[j]]
      /\ UNCHANGED <<request, pw, typed>>
  BY <1>0 DEF UserChooses, TextInv, DialogsPast
<1>2. /\ new \in Seq(Signals)
      /\ \A n \in DOMAIN new : new[n].id = c0
  <2>1. Len(keys) \in Nat /\ DOMAIN keys = 1 .. Len(keys)
    BY LenProperties
  <2>2. \A n \in DOMAIN keys : [id |-> c0, key |-> keys[n]] \in Signals
    BY <2>1, ElementOfSeq DEF Signals
  <2> QED
    BY <1>0, <2>1, <2>2
<1>3. /\ sig \in Seq(Signals) /\ sig' \in Seq(Signals)
      /\ \A n \in DOMAIN sig' : \/ \E m \in DOMAIN sig : sig'[n] = sig[m]
                                \/ sig'[n].id = c0
  <2>1. sig \in Seq(Signals)
    BY DEF TextInv, TextType
  <2> QED
    BY <1>1, <1>2, <2>1, ConcatProperties, LenProperties
<1>4. TextType'
  BY <1>1, <1>3 DEF TextInv, TextType
<1>5. DialogsPast'
  <2>1. \A c : Signalled(c)' => Signalled(c) \/ c = c0
    BY <1>3 DEF Signalled
  <2>2. \A c : c \in DOMAIN shown' <=> c \in DOMAIN shown /\ c # c0
    BY <1>1
  <2> QED
    BY <1>1, <2>1, <2>2 DEF TextInv, DialogsPast, PastMonotone
<1>6. DialogsOwned' /\ TextArrives'
  BY <1>1 DEF TextInv, DialogsOwned, TextArrives
<1> QED
  BY <1>4, <1>5, <1>6 DEF TextInv

(* The dialogs left behind by a dead agent lead nowhere. *)
LEMMA DialogsOrphaned ==
    ASSUME TextInv, PastMonotone, AgentRestarts
    PROVE  TextInv'
<1>1. /\ request' = {} /\ pw' = <<>> /\ sig' = <<>> /\ typed' = typed
      /\ DOMAIN shown' = DOMAIN shown
      /\ \A i \in DOMAIN shown : shown'[i] = Nowhere
  BY DEF AgentRestarts
<1>2. TextType'
  <2>1. pw' \in Seq(Texts) /\ sig' \in Seq(Signals)
    BY <1>1
  <2>2. DOMAIN shown' \subseteq Calls /\ \A i \in DOMAIN shown' : shown'[i] \in 0 .. 128
    <3>1. DOMAIN shown \subseteq Calls
      BY DEF TextInv, TextType
    <3>2. Nowhere \in 0 .. 128
      BY DEF Nowhere
    <3> QED
      BY <1>1, <3>1, <3>2
  <2>3. typed' = [c \in Calls |-> typed'[c]]
    BY <1>1 DEF TextInv, TextType
  <2> QED
    BY <2>1, <2>2, <2>3 DEF TextType
<1>3. DialogsPast'
  <2>1. \A c : ~Signalled(c)'
    BY <1>1 DEF Signalled
  <2> QED
    BY <1>1, <2>1 DEF TextInv, DialogsPast, PastMonotone
<1>4. DialogsOwned' /\ TextArrives'
  BY <1>1 DEF DialogsOwned, TextArrives
<1> QED
  BY <1>2, <1>3, <1>4 DEF TextInv

(* The signals on their way become fewer as one is taken. *)
LEMMA SignalTaken ==
    ASSUME TextInv, sig # <<>>, sig' = Tail(sig)
    PROVE  /\ sig' \in Seq(Signals)
           /\ \A n \in DOMAIN sig' : \E m \in DOMAIN sig : sig'[n] = sig[m]
           /\ Head(sig) \in Signals
           /\ Signalled(Head(sig).id)
<1>1. sig \in Seq(Signals)
  BY DEF TextInv, TextType
<1>2. /\ DOMAIN sig = 1 .. Len(sig) /\ Len(sig) \in Nat \ {0}
      /\ sig' \in Seq(Signals) /\ DOMAIN sig' = 1 .. (Len(sig) - 1)
      /\ \A n \in DOMAIN sig' : sig'[n] = sig[n + 1]
      /\ Head(sig) = sig[1] /\ Head(sig) \in Signals
  BY <1>1, HeadTailProperties, EmptySeq, LenProperties
<1>3. \A n \in DOMAIN sig' : n + 1 \in DOMAIN sig
  BY <1>2
<1>4. 1 \in DOMAIN sig
  BY <1>2
<1> QED
  BY <1>2, <1>3, <1>4 DEF Signalled

(* A signal handled: its request goes, with a dialog that is gone already. *)
LEMMA SignalHandled ==
    ASSUME IInv, TextInv, PastMonotone, HandleNotification
    PROVE  TextInv'
<1>1. /\ sig # <<>> /\ sig' = Tail(sig)
      /\ UNCHANGED <<pw, typed>>
  BY DEF HandleNotification
<1>2. /\ sig' \in Seq(Signals)
      /\ \A n \in DOMAIN sig' : \E m \in DOMAIN sig : sig'[n] = sig[m]
      /\ Head(sig).id \in Calls /\ Signalled(Head(sig).id)
  BY <1>1, SignalTaken DEF Signals
<1>3. ASSUME NEW r \in request, r.id = Head(sig).id, request' = {},
             shown' = Closed(shown, {r}) \/ UNCHANGED shown
      PROVE  TextInv'
  <2>1. r.id \notin DOMAIN shown
    BY <1>2, <1>3 DEF TextInv, DialogsPast
  <2>2. DOMAIN shown' = DOMAIN shown /\ \A i \in DOMAIN shown : shown'[i] = shown[i]
    BY <1>3, <2>1 DEF Closed
  <2>3. request' = request \ {r} /\ {r} \in SUBSET request
    BY <1>3 DEF IInv, OneDialog
  <2>4. DOMAIN shown' = DOMAIN shown \ {s.id : s \in {r}}
    BY <2>1, <2>2
  <2> QED
    BY <1>1, <1>2, <2>2, <2>3, <2>4, DialogsGo
<1>4. CASE UNCHANGED <<request, shown>>
  <2>1. /\ {} \in SUBSET request /\ request' = request \ {}
        /\ DOMAIN shown' = DOMAIN shown \ {s.id : s \in {}}
        /\ \A i \in DOMAIN shown' : shown'[i] = shown[i]
    BY <1>4
  <2> QED
    BY <1>1, <1>2, <2>1, DialogsGo
<1> QED
  BY <1>3, <1>4 DEF HandleNotification, actionInvoked, notificationClosed, FinishGetSecrets

(* Every step keeps dialogs and texts in order.                            *)
LEMMA TextNext ==
    ASSUME IInv, TextInv, [Next]_vars
    PROVE  TextInv'
<1>0. PastMonotone
  BY PastStays DEF PastMonotone
<1>1. CASE GetSecrets
  <2>1. Take /\ Head(inbox).method = "GetSecrets" /\ UNCHANGED <<nm, pw, sig, typed>>
    BY <1>1 DEF GetSecrets
  <2>2. PICK c0 \in Calls : c0 = Head(inbox).call
    BY <2>1, Arrives
  <2>3. PICK works \in BOOLEAN : \/ GetFromUser(c0, works)
                                \/ UNCHANGED <<request, shown>>
    <3>1. PICK works \in BOOLEAN : \/ GetFromUser(Head(inbox).call, works)
                                  \/ GetFromKeyring(Head(inbox).call, ~works)
                                  \/ GetRefused(Head(inbox).call)
      BY <1>1 DEF GetSecrets
    <3> QED
      BY <2>2, <3>1 DEF GetFromKeyring, GetRefused
  <2>4. CASE GetFromUser(c0, works)
    <3>1. Pending(c0) /\ Past(c0)'
      BY <2>1, <2>2, Arrives, TakenPending DEF IInv, Past
    <3> QED
      BY <1>0, <2>1, <2>4, <3>1, DialogOpens
  <2>5. CASE UNCHANGED <<request, shown>>
    BY <1>0, <2>1, <2>5, TextStill
  <2> QED
    BY <2>3, <2>4, <2>5
<1>2. CASE HandleCancel
  <2>1. PICK gone \in SUBSET request :
            gone = {r \in request : nm.call[r.call].conn = Head(inbox).conn}
    OBVIOUS
  <2>2. /\ request' = request \ gone /\ shown' = Closed(shown, gone)
        /\ UNCHANGED <<pw, sig, typed>>
    BY <1>2, <2>1 DEF HandleCancel, CancelGetSecrets
  <2>3. /\ DOMAIN shown' = DOMAIN shown \ {r.id : r \in gone}
        /\ \A i \in DOMAIN shown' : shown'[i] = shown[i]
    BY <2>2 DEF Closed
  <2>4. /\ sig' \in Seq(Signals)
        /\ \A n \in DOMAIN sig' : \E m \in DOMAIN sig : sig'[n] = sig[m]
    BY <2>2 DEF TextInv, TextType
  <2> QED
    BY <1>0, <2>2, <2>3, <2>4, DialogsGo
<1>3. CASE SaveSecrets \/ DeleteSecrets \/ serviceOwnerChanged
  BY <1>0, <1>3, TextStill DEF SaveSecrets, DeleteSecrets, serviceOwnerChanged
<1>4. CASE HandleNotification
  BY <1>0, <1>4, SignalHandled
<1>5. CASE passwordChanged
  BY <1>0, <1>5, TextReceived
<1>6. CASE NetworkManager
  <2>1. UNCHANGED <<request, shown, pw, sig, typed>>
    BY <1>6 DEF NetworkManager, NMAsks, NMCancels, NMSaves, NMDeletes, NMRestarts
  <2> QED
    BY <1>0, <2>1, TextStill
<1>7. CASE User
  <2>1. ASSUME NEW c0 \in Calls, NEW text \in Passwords, UserTypes(c0, text)
        PROVE  TextInv'
    BY <1>0, <2>1, TextTyped
  <2>2. ASSUME NEW c0 \in Calls, NEW keys \in Seq({"connect_id", "cancel_id", "closed"}),
               UserChooses(c0, keys)
        PROVE  TextInv'
    BY <1>0, <2>2, DialogChosen
  <2>3. /\ <<"connect_id", "closed">> \in Seq({"connect_id", "cancel_id", "closed"})
        /\ <<"cancel_id", "closed">> \in Seq({"connect_id", "cancel_id", "closed"})
        /\ <<"closed">> \in Seq({"connect_id", "cancel_id", "closed"})
    OBVIOUS
  <2> QED
    BY <1>7, <2>1, <2>2, <2>3 DEF User
<1>8. CASE AgentRestarts
  BY <1>0, <1>8, DialogsOrphaned
<1>9. CASE UNCHANGED vars
  BY <1>0, <1>9, TextStill DEF vars
<1> QED
  BY <1>1, <1>2, <1>3, <1>4, <1>5, <1>6, <1>7, <1>8, <1>9 DEF Next, Handles

LEMMA NoKeysIsEmpty == DOMAIN NoKeys = {}
BY Zenon DEF NoKeys

LEMMA TextInit == Init => TextInv
<1> SUFFICES ASSUME Init PROVE TextInv
  OBVIOUS
<1>1. /\ request = {} /\ pw = <<>> /\ sig = <<>> /\ shown = NoKeys
      /\ typed = [c \in Calls |-> NoText]
  BY DEF Init
<1>2. TextType
  BY <1>1, NoKeysIsEmpty DEF TextType
<1>3. DialogsPast
  BY <1>1, NoKeysIsEmpty DEF DialogsPast, Signalled
<1>4. DialogsOwned /\ TextArrives
  BY <1>1, NoKeysIsEmpty DEF DialogsOwned, TextArrives
<1> QED
  BY <1>2, <1>3, <1>4 DEF TextInv

(* "Connect" is answered with what was typed last: with no text under way  *)
(* the menu knows it.                                                      *)
LEMMA TypedStep ==
    ASSUME IInv, TextInv, [Next]_vars, NEW c \in Calls,
           replies'[c] # replies[c], request # request', Head(sig).key = "connect_id",
           pw = <<>>, typed[c] # NoText, nm.call[c].mgmt # "ieee8021x"
    PROVE  \E k \in DOMAIN replies'[c][1].secrets :
               /\ replies'[c][1].secrets[k] = typed[c]
               /\ k = IF nm.call[c].mgmt = "none" THEN "wep-key0" ELSE "psk"
<1>1. HandleNotification
  <2>1. ~NetworkManager /\ ~User /\ ~AgentRestarts /\ ~UNCHANGED vars
    BY DEF NetworkManager, NMAsks, NMCancels, NMSaves, NMDeletes, NMRestarts, User,
           UserTypes, UserChooses, AgentRestarts, vars
  <2>2. ~HandleCancel /\ ~SaveSecrets /\ ~DeleteSecrets /\ ~serviceOwnerChanged
    BY DEF HandleCancel, SaveSecrets, DeleteSecrets, serviceOwnerChanged
  <2>3. ~GetSecrets /\ ~passwordChanged
    BY DEF GetSecrets, GetFromUser, GetFromKeyring, GetRefused, passwordChanged
  <2> QED
    BY <2>1, <2>2, <2>3 DEF Next, Handles
<1>2. PICK r \in request : r.id = Head(sig).id /\ actionInvoked(r, "connect_id")
  BY <1>1 DEF HandleNotification
<1>3. r.id \in Calls /\ r.id # 0
  BY <1>1, <1>2, SignalTaken, CallsAreNumbers DEF HandleNotification, Signals, Calls
<1>4. r.call \in Calls /\ r.id = r.call
  BY <1>3 DEF IInv, RequestType, TextInv, DialogsOwned
<1>5. PICK keys : keys = PasswordKeys(nm.call[r.call].mgmt)
  OBVIOUS
<1>6. PICK secrets : secrets = [k \in keys |-> r.password]
  OBVIOUS
<1>7. replies' = [replies EXCEPT ![r.call] = Append(@, [kind |-> "ok", secrets |-> secrets])]
  BY <1>2, <1>5, <1>6 DEF actionInvoked, FinishGetSecrets, Reply
<1>8. c = r.call /\ replies[c] = <<>>
  BY <1>4, <1>7 DEF IInv, TypeInv, OnePlace, OfDialog
<1>9. replies'[c][1].secrets = secrets
  <2>1. replies'[c] = Append(<<>>, [kind |-> "ok", secrets |-> secrets])
    BY <1>4, <1>7, <1>8 DEF IInv, TypeInv
  <2> QED
    BY <2>1
<1>10. r.password = typed[c]
  BY <1>3, <1>8 DEF TextInv, TextArrives, LastText
<1>11. nm.call[c].mgmt \in {"wpa-psk", "wpa-none", "none"}
  BY DEF IInv, TypeInv, CallRecords, Mgmts
<1>12. (IF nm.call[c].mgmt = "none" THEN "wep-key0" ELSE "psk") \in keys
  BY <1>5, <1>8, <1>11 DEF PasswordKeys
<1> QED
  BY <1>6, <1>9, <1>10, <1>12

(* When "Connect" is handled with no text on its way, the answer carries   *)
(* what the user last typed into the dialog of this very call, under the   *)
(* key its key management asks for: FinishGetSecrets never sends the text  *)
(* of an older dialog whose menu had the same path.                        *)
THEOREM AgentTypedIsSent == Spec => TypedIsSent
<1>1. IInv /\ TextInv /\ [Next]_vars =>
        [\A c \in Calls :
            LET mgmt == nm.call[c].mgmt
            IN (/\ replies'[c] # replies[c]
                /\ request # request'
                /\ Head(sig).key = "connect_id"
                /\ pw = <<>> /\ typed[c] # NoText
                /\ mgmt # "ieee8021x") =>
               \E k \in DOMAIN replies'[c][1].secrets :
                   /\ replies'[c][1].secrets[k] = typed[c]
                   /\ k = IF mgmt = "none" THEN "wep-key0" ELSE "psk"]_vars
  BY TypedStep, Zenon
<1>2. IInv /\ TextInv /\ [Next]_vars => (IInv /\ TextInv)'
  BY NextMaps, TextNext
<1> QED
  BY <1>1, <1>2, InitIInv, TextInit, PTL DEF Spec, TypedIsSent

-----------------------------------------------------------------------------
(* What is saved and what is found *)

(* Of a connection sent to be saved exactly the secret meant is kept.      *)
LEMMA SecretsAreMeant ==
    ASSUME NEW m \in Messages, m.method = "SaveSecrets"
    PROVE  /\ m.conn \in Conns
           /\ DOMAIN Secrets(m.conn, m.setting) = DOMAIN m.meant
           /\ \A k \in DOMAIN m.meant : Secrets(m.conn, m.setting)[k] = m.meant[k]
<1>1. PICK conn, key, text :
         /\ \/ conn \in Wifis /\ key \in {"psk", "wep-key0"}
            \/ conn \in Vpns /\ key = "password"
         /\ m = Saving(conn, key, text)
  BY DEF Messages
<1>2. PICK meant : meant = [k \in {key} |-> text]
  OBVIOUS
<1>3. CASE conn \in Vpns
  <2>1. conn \notin Wifis
    BY <1>3, DisjointAssumption
  <2>2. m.conn = conn /\ m.meant = meant /\ m.setting.secrets = meant
    BY <1>1, <1>2, <1>3 DEF Saving
  <2>3. Secrets(conn, m.setting) = meant
    BY <2>1, <2>2 DEF Secrets, SettingOf
  <2> QED
    BY <1>3, <2>2, <2>3 DEF Conns
<1>4. CASE conn \notin Vpns
  <2>1. conn \in Wifis /\ key \in {"psk", "wep-key0"}
    BY <1>1, <1>4
  <2>2. PICK setting : setting = [k \in {"key-mgmt", key} |-> IF k = key THEN text ELSE "any"]
    OBVIOUS
  <2>3. m.conn = conn /\ m.meant = meant /\ m.setting = setting
    BY <1>1, <1>2, <1>4, <2>2 DEF Saving
  <2>4. SettingOf(conn) = WifiSecurity /\ WifiSecurity # "vpn"
    BY <2>1 DEF SettingOf, WifiSecurity
  <2>5. isSecret(WifiSecurity, key) /\ ~isSecret(WifiSecurity, "key-mgmt")
    BY <2>1 DEF isSecret, KnownSecrets, WifiSecurity
  <2>6. {x \in DOMAIN setting : isSecret(WifiSecurity, x)} = {key}
    BY <2>2, <2>5
  <2>7. Secrets(conn, setting) = [k \in {key} |-> setting[k]]
    BY <2>4, <2>6 DEF Secrets
  <2>8. setting[key] = text
    BY <2>2
  <2> QED
    BY <1>2, <2>1, <2>3, <2>7, <2>8 DEF Conns
<1> QED
  BY <1>3, <1>4

(* A connection saved: its item is written, or nothing counts as saved.    *)
LEMMA KeyringSaves ==
    ASSUME IInv, KeyringInv, SaveSecrets
    PROVE  KeyringInv'
<1>1. PICK m : m = Head(inbox)
  OBVIOUS
<1>2. m \in Messages /\ m.method = "SaveSecrets"
  BY <1>1, Taken DEF SaveSecrets, IInv
<1>3. PICK secrets : secrets = Secrets(m.conn, m.setting)
  OBVIOUS
<1>4. PICK conn \in Conns : conn = m.conn
  BY <1>2, SecretsAreMeant
<1>5. DOMAIN secrets = DOMAIN m.meant /\ \A k \in DOMAIN m.meant : secrets[k] = m.meant[k]
  BY <1>2, <1>3, SecretsAreMeant
<1>6. PICK written \in SUBSET DOMAIN secrets :
         /\ save(conn, secrets, written)
         /\ saved' = [saved EXCEPT ![conn] =
                          IF written = DOMAIN secrets THEN m.meant ELSE NoKeys]
  BY <1>1, <1>3, <1>4 DEF SaveSecrets
<1>7. PICK old : old = keyring[conn]
  OBVIOUS
<1>8. PICK new : new = [k \in DOMAIN old \cup written |->
                           IF k \in written THEN secrets[k] ELSE old[k]]
  OBVIOUS
<1>9. keyring' = [keyring EXCEPT ![conn] = new]
  BY <1>6, <1>7, <1>8 DEF save
<1>10. /\ keyring' = [d \in Conns |-> keyring'[d]] /\ saved' = [d \in Conns |-> saved'[d]]
       /\ keyring'[conn] = new
       /\ saved'[conn] = IF written = DOMAIN secrets THEN m.meant ELSE NoKeys
       /\ \A d \in Conns : d # conn => keyring'[d] = keyring[d] /\ saved'[d] = saved[d]
  BY <1>6, <1>9 DEF KeyringInv
<1>11. ASSUME NEW k \in DOMAIN saved'[conn]
       PROVE  k \in DOMAIN new /\ new[k] = saved'[conn][k]
  <2>1. written = DOMAIN secrets /\ saved'[conn] = m.meant
    BY <1>10, NoKeysIsEmpty
  <2> QED
    BY <1>5, <1>8, <2>1
<1>12. ASSUME NEW d \in Conns, NEW k \in DOMAIN saved'[d]
       PROVE  k \in DOMAIN keyring'[d] /\ keyring'[d][k] = saved'[d][k]
  <2>1. CASE d = conn
    BY <1>10, <1>11, <2>1
  <2>2. CASE d # conn
    BY <1>10, <2>2 DEF KeyringInv
  <2> QED
    BY <2>1, <2>2
<1> QED
  BY <1>10, <1>12 DEF KeyringInv

(* Where nothing counts as saved, or what did is unchanged with its items. *)
LEMMA KeyringForgets ==
    ASSUME KeyringInv,
           keyring' = [d \in Conns |-> keyring'[d]], saved' = [d \in Conns |-> saved'[d]],
           \A d \in Conns : \/ saved'[d] = NoKeys
                            \/ saved'[d] = saved[d] /\ keyring'[d] = keyring[d]
    PROVE  KeyringInv'
BY NoKeysIsEmpty DEF KeyringInv

(* Every step keeps what was saved in the keyring.                         *)
LEMMA KeyringNext ==
    ASSUME IInv, KeyringInv, [Next]_vars
    PROVE  KeyringInv'
<1>1. CASE SaveSecrets
  BY <1>1, KeyringSaves
<1>2. CASE DeleteSecrets
  <2>1. PICK conn : conn = Head(inbox).conn
    OBVIOUS
  <2>2. PICK fails \in BOOLEAN : clear(conn, fails)
    BY <1>2, <2>1 DEF DeleteSecrets
  <2>3. PICK items : items = IF fails THEN keyring[conn] ELSE NoKeys
    OBVIOUS
  <2>4. /\ keyring' = [keyring EXCEPT ![conn] = items]
        /\ saved' = [saved EXCEPT ![conn] = NoKeys]
    BY <1>2, <2>1, <2>2, <2>3 DEF DeleteSecrets, clear
  <2>5. /\ keyring' = [d \in Conns |-> keyring'[d]]
        /\ saved' = [d \in Conns |-> saved'[d]]
        /\ \A d \in Conns : \/ saved'[d] = NoKeys
                            \/ saved'[d] = saved[d] /\ keyring'[d] = keyring[d]
    BY <2>4 DEF KeyringInv
  <2> QED
    BY <2>5, KeyringForgets
<1>3. CASE AgentRestarts
  BY <1>3, KeyringForgets DEF AgentRestarts, KeyringInv
<1>4. CASE UNCHANGED <<keyring, saved>>
  BY <1>4, KeyringForgets DEF KeyringInv
<1>5. ASSUME Handles, ~SaveSecrets, ~DeleteSecrets
      PROVE  UNCHANGED <<keyring, saved>>
  BY <1>5 DEF Handles, GetSecrets, HandleCancel, serviceOwnerChanged, HandleNotification,
              passwordChanged
<1>6. ASSUME NetworkManager \/ User \/ UNCHANGED vars
      PROVE  UNCHANGED <<keyring, saved>>
  BY <1>6 DEF NetworkManager, NMAsks, NMCancels, NMSaves, NMDeletes, NMRestarts, User,
              UserTypes, UserChooses, vars
<1> QED
  BY <1>1, <1>2, <1>3, <1>4, <1>5, <1>6 DEF Next

(* A call keeps its connection from when it is made.                       *)
LEMMA AboutConnsNext ==
    ASSUME IInv, AboutConns, [Next]_vars
    PROVE  AboutConns'
<1>1. CASE nm'.call = nm.call
  BY <1>1 DEF AboutConns
<1>2. ASSUME NEW c0 \in Calls, NEW conn \in Conns, NEW mgmt, NEW flags,
             NMAsks(c0, conn, mgmt, flags)
      PROVE  AboutConns'
  <2>1. PICK call : call = [state |-> "waiting", conn |-> conn, mgmt |-> mgmt, flags |-> flags]
    OBVIOUS
  <2>2. call.conn = conn
    BY <2>1
  <2>3. nm' = [nm EXCEPT !.call = [nm.call EXCEPT ![c0] = call]]
    BY <1>2, <2>1 DEF NMAsks, IInv, TypeInv
  <2>4. \A c \in Calls : nm'.call[c] = IF c = c0 THEN call ELSE nm.call[c]
    BY <2>3 DEF IInv, TypeInv
  <2> QED
    BY <2>2, <2>4 DEF AboutConns
<1>3. ASSUME NEW c0 \in Calls, NMCancels(c0)
      PROVE  AboutConns'
  <2>1. nm.call[c0] \in CallRecords /\ nm.call[c0].state = "waiting"
    BY <1>3 DEF NMCancels, IInv, TypeInv
  <2>2. PICK call : call = [nm.call[c0] EXCEPT !.state = "withdrawn"]
    OBVIOUS
  <2>3. call.conn = nm.call[c0].conn
    BY <2>1, <2>2 DEF CallRecords
  <2>4. nm' = [nm EXCEPT !.call = [nm.call EXCEPT ![c0] = call]]
    BY <1>3, <2>2 DEF NMCancels, IInv, TypeInv
  <2>5. \A c \in Calls : nm'.call[c] = IF c = c0 THEN call ELSE nm.call[c]
    BY <2>4 DEF IInv, TypeInv
  <2> QED
    BY <2>1, <2>3, <2>5 DEF AboutConns
<1>4. CASE NMRestarts
  <2>1. ASSUME NEW c \in Calls, nm'.call[c].state # "idle"
        PROVE  nm'.call[c].conn \in Conns
    <3>1. nm.call[c] \in CallRecords
      BY DEF IInv, TypeInv
    <3>2. nm'.call[c] = IF nm.call[c].state = "waiting"
                        THEN [nm.call[c] EXCEPT !.state = "withdrawn"] ELSE nm.call[c]
      BY <1>4 DEF NMRestarts
    <3>3. nm.call[c].state # "idle" /\ nm'.call[c].conn = nm.call[c].conn
      BY <2>1, <3>1, <3>2 DEF CallRecords
    <3> QED
      BY <3>3 DEF AboutConns
  <2> QED
    BY <2>1 DEF AboutConns
<1>5. CASE Handles \/ User \/ AgentRestarts \/ UNCHANGED vars
  <2>1. nm'.call = nm.call
    BY <1>5 DEF Handles, GetSecrets, HandleCancel, SaveSecrets, DeleteSecrets,
                serviceOwnerChanged, HandleNotification, passwordChanged, User, UserTypes,
                UserChooses, AgentRestarts, vars, IInv, TypeInv
  <2> QED
    BY <1>1, <2>1
<1>6. CASE NetworkManager
  <2>1. CASE \/ \E conn \in Wifis, key \in {"psk", "wep-key0"}, text \in Passwords :
                    NMSaves(conn, key, text)
             \/ \E conn \in Vpns, text \in Passwords : NMSaves(conn, "password", text)
             \/ \E conn \in Conns : NMDeletes(conn)
    <3>1. nm' = nm
      BY <2>1 DEF NMSaves, NMDeletes
    <3> QED
      BY <1>1, <3>1
  <2> QED
    BY <1>2, <1>3, <1>4, <1>6, <2>1 DEF NetworkManager, Conns
<1> QED
  BY <1>2, <1>3, <1>4, <1>5, <1>6 DEF Next

LEMMA KeyringInit == Init => KeyringInv /\ AboutConns
<1> SUFFICES ASSUME Init PROVE KeyringInv /\ AboutConns
  OBVIOUS
<1>1. /\ keyring = [conn \in Conns |-> NoKeys] /\ saved = [conn \in Conns |-> NoKeys]
      /\ \A c \in Calls : nm.call[c].state = "idle"
  BY DEF Init
<1> QED
  BY <1>1, NoKeysIsEmpty DEF KeyringInv, AboutConns

(* A call answered from the keyring gets what is kept there. *)
LEMMA HonestStep ==
    ASSUME IInv, KeyringInv, AboutConns, [Next]_vars, NEW c \in Calls,
           replies'[c] # replies[c], request = request', RequestsKeyring(nm.call[c]),
           replies'[c][1].kind # "InternalError",
           NEW k \in DOMAIN saved[nm.call[c].conn]
    PROVE  /\ k \in DOMAIN replies'[c][1].secrets
           /\ replies'[c][1].secrets[k] = saved[nm.call[c].conn][k]
<1>1. GetSecrets
  <2>1. ~NetworkManager /\ ~User /\ ~AgentRestarts /\ ~UNCHANGED vars
    BY DEF NetworkManager, NMAsks, NMCancels, NMSaves, NMDeletes, NMRestarts, User,
           UserTypes, UserChooses, AgentRestarts, vars
  <2>2. ~HandleCancel /\ ~SaveSecrets /\ ~DeleteSecrets /\ ~serviceOwnerChanged
    BY DEF HandleCancel, SaveSecrets, DeleteSecrets, serviceOwnerChanged
  <2>3. ~HandleNotification /\ ~passwordChanged
    BY DEF HandleNotification, actionInvoked, notificationClosed, FinishGetSecrets,
           passwordChanged
  <2> QED
    BY <2>1, <2>2, <2>3 DEF Next, Handles
<1>2. Take /\ Head(inbox).method = "GetSecrets"
  BY <1>1 DEF GetSecrets
<1>3. PICK c0 \in Calls : /\ c0 = Head(inbox).call
                          /\ replies[c0] = <<>> /\ nm.call[c0].state # "idle"
  BY <1>2, Arrives
<1>4. PICK fails \in BOOLEAN : GetFromKeyring(c0, fails) \/ GetRefused(c0)
  <2>1. PICK works \in BOOLEAN : \/ GetFromUser(Head(inbox).call, works)
                                \/ GetFromKeyring(Head(inbox).call, ~works)
                                \/ GetRefused(Head(inbox).call)
    BY <1>1 DEF GetSecrets
  <2>2. ~GetFromUser(c0, works)
    BY DEF GetFromUser
  <2>3. (~works) \in BOOLEAN
    OBVIOUS
  <2> QED
    BY <1>3, <2>1, <2>2, <2>3
<1>5. c = c0
  <2>1. \E kind, secrets : Reply(c0, kind, secrets)
    BY <1>4 DEF GetFromKeyring, GetRefused
  <2>2. PICK kind, secrets : Reply(c0, kind, secrets)
    BY <2>1
  <2> QED
    BY <2>2 DEF Reply, IInv, TypeInv
<1>6. GetFromKeyring(c0, fails)
  BY <1>4, <1>5 DEF GetRefused
<1>7. PICK found : found = keyring[nm.call[c0].conn]
  OBVIOUS
<1>8. k \in DOMAIN found /\ found[k] = saved[nm.call[c0].conn][k]
  BY <1>3, <1>5, <1>7 DEF KeyringInv, AboutConns
<1>9. \/ Reply(c0, "InternalError", NoKeys)
      \/ Reply(c0, "ok", found)
  BY <1>6, <1>7, <1>8 DEF GetFromKeyring, get
<1>10. ASSUME NEW kind, NEW secrets, Reply(c0, kind, secrets)
       PROVE  replies'[c0][1].kind = kind /\ replies'[c0][1].secrets = secrets
  <2>1. PICK reply : reply = [kind |-> kind, secrets |-> secrets]
    OBVIOUS
  <2>2. replies'[c0] = Append(<<>>, reply)
    BY <1>3, <1>10, <2>1 DEF Reply, IInv, TypeInv
  <2>3. replies'[c0][1] = reply
    BY <2>2
  <2> QED
    BY <2>1, <2>3
<1>11. replies'[c0][1].secrets = found
  BY <1>5, <1>9, <1>10
<1> QED
  BY <1>5, <1>8, <1>11

(* An answer taken from the keyring carries what NetworkManager saved last *)
(* for the connection, across restarts of the agent, unless it deleted it  *)
(* since or the keyring lost a write: SaveSecrets, KeyringCredentialStore  *)
(* and GetSecrets agree on the connection and on which keys are secrets.   *)
THEOREM AgentKeyringHonest == Spec => KeyringHonest
<1>1. IInv /\ KeyringInv /\ AboutConns /\ [Next]_vars =>
        [\A c \in Calls :
            LET conn == nm.call[c].conn
            IN (/\ replies'[c] # replies[c]
                /\ request = request' /\ RequestsKeyring(nm.call[c])
                /\ replies'[c][1].kind # "InternalError") =>
               \A k \in DOMAIN saved[conn] :
                   /\ k \in DOMAIN replies'[c][1].secrets
                   /\ replies'[c][1].secrets[k] = saved[conn][k]]_vars
  BY HonestStep, Zenon
<1>2. IInv /\ KeyringInv /\ AboutConns /\ [Next]_vars => (IInv /\ KeyringInv /\ AboutConns)'
  BY NextMaps, KeyringNext, AboutConnsNext
<1> QED
  BY <1>1, <1>2, InitIInv, KeyringInit, PTL DEF Spec, KeyringHonest
=============================================================================
