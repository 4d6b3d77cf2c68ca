------------------------ MODULE VpnActivationProofs ------------------------
(***************************************************************************)
(* What VpnActivation says of switching connections on and off, and of the *)
(* failure messages, for any number of connections, requests and changes.  *)
(***************************************************************************)
EXTENDS VpnActivation, TLAPS, SequenceTheorems, WellFoundedInduction

States == {"activating", "activated", "deactivating", "deactivated", "unknown"}

Conns == [active : BOOLEAN, busy : BOOLEAN, activatable : BOOLEAN, path : Paths \cup {NoPath},
          otherBusy : BOOLEAN, otherPath : Vpns \cup {NoPath}]

Objects == [type : {"vpn", "wifi", ""}, conn : Vpns \cup {NoPath}, state : States]

Signals ==
    [kind : {"list"}, list : SUBSET Paths]
    \cup [kind : {"state"}, path : Paths, state : States]
    \cup [kind : {"vpn"}, path : Paths, state : {"ACTIVATED", "FAILED", "DISCONNECTED"},
          reason : {"NONE", "LOGIN_FAILED", "DISCONNECTED", "SERVICE_STOPPED"}]
    \cup [kind : {"new", "removed"}, vpn : Vpns]

Requests == [call : {"Activate", "Deactivate"}, vpn : Vpns, path : Paths \cup {NoPath}]

-----------------------------------------------------------------------------
(* The inductive invariant.                                                *)

NMType ==
    /\ nmVpns \in [Vpns -> {"absent", "present", "deleted"}]
    /\ nmActive \in [DOMAIN nmActive -> [conn : Vpns \cup {NoPath}, state : States]]
    /\ DOMAIN nmActive \subseteq Paths
    /\ owner \in [Paths -> Vpns \cup {NoPath}]
    /\ sig \in Seq(Signals)
    /\ req \in Seq(Requests)

ServiceType ==
    /\ conns \in [DOMAIN conns -> Conns] /\ DOMAIN conns \subseteq Vpns
    /\ acts \in [DOMAIN acts -> Objects] /\ DOMAIN acts \subseteq Paths
    /\ hooks \in [Paths -> {0, 1}]
    /\ notified \in [Paths -> {0, 1}]
    /\ switch \in [DOMAIN conns -> [state : BOOLEAN, enabled : BOOLEAN]]

TypeInv == NMType /\ ServiceType

(* Every record of an active connection is about the connection its path   *)
(* was made for, however old the record is.                                *)
Mine(a, v) == owner[a] = v /\ v # NoPath

NMOwned ==
    /\ owner[Other] = NoPath
    /\ \A a \in DOMAIN nmActive : a # Other => Mine(a, nmActive[a].conn)
ActsOwned == \A a \in DOMAIN acts : acts[a].type = "vpn" => Mine(a, acts[a].conn)
ConnsOwned == \A v \in DOMAIN conns : conns[v].path # NoPath => Mine(conns[v].path, v)
ReqOwned == \A i \in DOMAIN req : req[i].path # NoPath => Mine(req[i].path, req[i].vpn)
Owned == NMOwned /\ ActsOwned /\ ConnsOwned /\ ReqOwned

(* The copies of the manager's values in the connection v. *)
Copies(m, v, c) ==
    /\ c.otherBusy = m.busy /\ c.otherPath = m.path
    /\ c.activatable = (~m.busy /\ m.path \in {NoPath, v})

Agree ==
    /\ mgr = ManagerOf(conns)
    /\ \A v \in DOMAIN conns :
           Copies(mgr, v, conns[v]) /\ switch[v].enabled = conns[v].activatable

(* The message of a failure is sent once, at the end of the connection. *)
FailAt(i, a) == /\ sig[i].kind = "vpn" /\ sig[i].path = a
                /\ Failure(sig[i].state, sig[i].reason)
Over(a) == owner[a] # NoPath /\ (a \in DOMAIN nmActive => nmActive[a].state = "deactivated")

FailsOnce ==
    \A a \in Paths :
        /\ notified[a] = 1 => Over(a)
        /\ \A i \in DOMAIN sig : FailAt(i, a) => Over(a) /\ notified[a] = 0
        /\ \A i, j \in DOMAIN sig : FailAt(i, a) /\ FailAt(j, a) => i = j

IInv == TypeInv /\ Owned /\ Agree /\ FailsOnce

-----------------------------------------------------------------------------
(* The manager's values and their copies                                   *)

LEMMA Least ==
    ASSUME NEW S, S \subseteq Nat, S # {}
    PROVE  \E x \in S : \A y \in S : x <= y
<1>1. PICK x \in S : \A y \in S : <<y, x>> \notin OpToRel(<, Nat)
  BY NatLessThanWellFounded, WFMin
<1>2. \A y \in S : x \in Nat /\ y \in Nat /\ ~(y < x)
  BY <1>1 DEF OpToRel
<1>3. \A y \in S : x <= y
  BY <1>2
<1> QED
  BY <1>3

LEMMA FirstIsActive ==
    ASSUME NEW cs, DOMAIN cs \subseteq Vpns
    PROVE  IF \E v \in DOMAIN cs : cs[v].active
           THEN FirstActive(cs) \in DOMAIN cs /\ cs[FirstActive(cs)].active
           ELSE FirstActive(cs) = NoPath
<1> DEFINE on == {v \in DOMAIN cs : cs[v].active}
<1>1. CASE on = {}
  BY <1>1 DEF FirstActive
<1>2. CASE on # {}
  <2>1. \E v \in on : \A w \in on : v <= w
    <3>1. on \subseteq Nat
      BY VpnsAssumption
    <3> QED
      BY <1>2, <3>1, Least
  <2>2. (CHOOSE v \in on : \A w \in on : v <= w) \in on
    BY <2>1
  <2>3. FirstActive(cs) \in on
    BY <1>2, <2>2 DEF FirstActive
  <2> QED
    BY <1>2, <2>3
<1> QED
  BY <1>1, <1>2

LEMMA ManagerType ==
    ASSUME NEW cs, DOMAIN cs \subseteq Vpns
    PROVE  ManagerOf(cs).busy \in BOOLEAN /\ ManagerOf(cs).path \in Vpns \cup {NoPath}
<1>1. FirstActive(cs) \in Vpns \cup {NoPath}
  BY FirstIsActive
<1> QED
  BY <1>1 DEF ManagerOf, AnyBusy

LEMMA SetBusy ==
    ASSUME NEW v, NEW c \in Conns, NEW b \in BOOLEAN
    PROVE  LET d == setOtherConnectionIsBusy(v, c, b)
           IN  /\ d \in Conns
               /\ d.active = c.active /\ d.busy = c.busy /\ d.path = c.path
               /\ d.otherBusy = b /\ d.otherPath = c.otherPath
               /\ d.activatable = (~b /\ c.otherPath \in {NoPath, v})
BY DEF setOtherConnectionIsBusy, updateActivatable, Conns

LEMMA SetPath ==
    ASSUME NEW v, NEW c \in Conns, NEW p \in Vpns \cup {NoPath}
    PROVE  LET d == setActiveConnectionPath(v, c, p)
           IN  /\ d \in Conns
               /\ d.active = c.active /\ d.busy = c.busy /\ d.path = c.path
               /\ d.otherBusy = c.otherBusy /\ d.otherPath = p
               /\ d.activatable = (~c.otherBusy /\ p \in {NoPath, v})
BY DEF setActiveConnectionPath, updateActivatable, Conns

LEMMA SameManager ==
    ASSUME NEW f, NEW cs, DOMAIN f = DOMAIN cs,
           \A v \in DOMAIN cs : f[v].active = cs[v].active /\ f[v].busy = cs[v].busy
    PROVE  ManagerOf(f) = ManagerOf(cs)
<1> DEFINE First(on) == IF on = {} THEN NoPath ELSE CHOOSE v \in on : \A w \in on : v <= w
           On(g) == {v \in DOMAIN g : g[v].active}
<1>1. AnyBusy(f) = AnyBusy(cs)
  BY DEF AnyBusy
<1>2. On(f) = On(cs)
  OBVIOUS
<1>3. FirstActive(f) = First(On(f)) /\ FirstActive(cs) = First(On(cs))
  BY DEF FirstActive
<1>4. First(On(f)) = First(On(cs))
  <2> HIDE DEF First, On
  <2> QED
    BY <1>2
<1>5. FirstActive(f) = FirstActive(cs)
  BY <1>3, <1>4
<1> QED
  BY <1>1, <1>5, Zenon DEF ManagerOf

(* updateActiveAndBusy() leaves what the connections show and brings every *)
(* copy up to date.                                                        *)
LEMMA CopiesFollow ==
    ASSUME NEW m, NEW cs, cs \in [DOMAIN cs -> Conns], DOMAIN cs \subseteq Vpns,
           \A v \in DOMAIN cs : Copies(m, v, cs[v])
    PROVE  LET f == UpdateActiveAndBusy(m, cs)
           IN  /\ f \in [DOMAIN cs -> Conns] /\ DOMAIN f = DOMAIN cs
               /\ ManagerOf(f) = ManagerOf(cs)
               /\ \A v \in DOMAIN cs :
                      /\ f[v].active = cs[v].active /\ f[v].busy = cs[v].busy
                      /\ f[v].path = cs[v].path
                      /\ Copies(ManagerOf(cs), v, f[v])
<1> DEFINE now == ManagerOf(cs)
           bs == IF now.busy = m.busy THEN cs
                 ELSE [v \in DOMAIN cs |-> setOtherConnectionIsBusy(v, cs[v], now.busy)]
           f == UpdateActiveAndBusy(m, cs)
<1>0. now.busy \in BOOLEAN /\ now.path \in Vpns \cup {NoPath}
  BY ManagerType
<1>1. /\ bs \in [DOMAIN cs -> Conns]
      /\ \A v \in DOMAIN cs :
             /\ bs[v].active = cs[v].active /\ bs[v].busy = cs[v].busy
             /\ bs[v].path = cs[v].path
             /\ bs[v].otherBusy = now.busy /\ bs[v].otherPath = m.path
             /\ bs[v].activatable = (~now.busy /\ m.path \in {NoPath, v})
  <2>1. CASE now.busy = m.busy
    BY <2>1 DEF Copies
  <2>2. CASE now.busy # m.busy
    <3>1. \A v \in DOMAIN cs : cs[v] \in Conns
      OBVIOUS
    <3> QED
      BY <1>0, <2>2, <3>1, SetBusy DEF Copies
  <2> QED
    BY <2>1, <2>2
<1>2. f = IF now.path = m.path THEN bs
          ELSE [v \in DOMAIN bs |-> setActiveConnectionPath(v, bs[v], now.path)]
  BY DEF UpdateActiveAndBusy
<1>3. /\ f \in [DOMAIN cs -> Conns]
      /\ \A v \in DOMAIN cs :
             /\ f[v].active = cs[v].active /\ f[v].busy = cs[v].busy
             /\ f[v].path = cs[v].path
             /\ Copies(now, v, f[v])
  <2> HIDE DEF now, bs, f
  <2>1. CASE now.path = m.path
    BY <1>1, <1>2, <2>1 DEF Copies
  <2>2. CASE now.path # m.path
    <3>1. DOMAIN bs = DOMAIN cs /\ \A v \in DOMAIN cs : bs[v] \in Conns
      BY <1>1
    <3> QED
      BY <1>0, <1>1, <1>2, <2>2, <3>1, SetPath DEF Copies
  <2> QED
    BY <2>1, <2>2
<1>4. DOMAIN f = DOMAIN cs
  BY <1>3
<1>5. ManagerOf(f) = ManagerOf(cs)
  <2> HIDE DEF f
  <2> QED
    BY <1>3, <1>4, SameManager
<1> QED
  BY <1>3, <1>4, <1>5

LEMMA SettleSound ==
    ASSUME NEW cs, cs \in [DOMAIN cs -> Conns], DOMAIN cs \subseteq Vpns,
           TypeInv, \A v \in DOMAIN cs : Copies(mgr, v, cs[v]), Settle(cs)
    PROVE  /\ conns' \in [DOMAIN conns' -> Conns] /\ DOMAIN conns' = DOMAIN cs
           /\ switch' \in [DOMAIN conns' -> [state : BOOLEAN, enabled : BOOLEAN]]
           /\ Agree'
           /\ \A v \in DOMAIN cs : conns'[v].path = cs[v].path
<1>1. /\ conns' = UpdateActiveAndBusy(mgr, cs)
      /\ mgr' = ManagerOf(cs)
  BY DEF Settle
<1>2. /\ conns' \in [DOMAIN conns' -> Conns] /\ DOMAIN conns' = DOMAIN cs
      /\ mgr' = ManagerOf(conns')
      /\ \A v \in DOMAIN cs : conns'[v].path = cs[v].path /\ Copies(mgr', v, conns'[v])
  BY <1>1, CopiesFollow
<1>3. /\ DOMAIN switch' = DOMAIN cs
      /\ \A v \in DOMAIN cs : switch'[v] =
             [state |-> IF v \notin DOMAIN switch \/ conns[v].active # cs[v].active
                        THEN cs[v].active ELSE switch[v].state,
              enabled |-> conns'[v].activatable]
  BY <1>1 DEF Settle
<1>4. \A v \in DOMAIN cs : /\ switch'[v] \in [state : BOOLEAN, enabled : BOOLEAN]
                           /\ switch'[v].enabled = conns'[v].activatable
  <2>1. \A v \in DOMAIN cs : cs[v].active \in BOOLEAN /\ conns'[v].activatable \in BOOLEAN
    BY <1>2 DEF Conns
  <2>2. \A v \in DOMAIN switch : switch[v].state \in BOOLEAN
    BY DEF TypeInv, NMType, ServiceType
  <2> QED
    BY <1>3, <2>1, <2>2
<1>5. switch' \in [DOMAIN conns' -> [state : BOOLEAN, enabled : BOOLEAN]]
  <2>1. switch' = [v \in DOMAIN cs |-> switch'[v]]
    BY <1>1 DEF Settle
  <2> QED
    BY <1>2, <1>4, <2>1
<1>6. Agree'
  BY <1>2, <1>4 DEF Agree, Copies
<1> QED
  BY <1>2, <1>5, <1>6

(* d is what becomes of the connection v, which was c, when it is told of  *)
(* the active connections as: of what it takes over only its path may be   *)
(* that of an active connection, and only of one that is its own.          *)
TakesOver(v, c, as, a, d) ==
    /\ d \in Conns
    /\ d.otherBusy = c.otherBusy /\ d.otherPath = c.otherPath
    /\ d.activatable = c.activatable
    /\ \/ d.path \in {c.path, NoPath}
       \/ a \in DOMAIN as /\ d.path = a /\ as[a].type = "vpn" /\ as[a].conn = v

LEMMA ConnectionUpdatedSound ==
    ASSUME NEW v, NEW c \in Conns, NEW as, as \in [DOMAIN as -> Objects],
           DOMAIN as \subseteq Paths, NEW a \in DOMAIN as
    PROVE  TakesOver(v, c, as, a, ConnectionUpdated(v, c, as, a))
<1> DEFINE active == STATE_ACTIVE_MAP(as[a].state)
           busy == STATE_BUSY_MAP(as[a].state)
<1>1. a \in Paths
  OBVIOUS
<1>2. active \in BOOLEAN /\ busy \in BOOLEAN
  BY DEF STATE_ACTIVE_MAP, STATE_BUSY_MAP
<1>3. ConnectionUpdated(v, c, as, a) =
          IF as[a].type # "vpn" \/ as[a].conn # v THEN c
          ELSE [c EXCEPT !.path = a, !.active = active, !.busy = busy]
  BY DEF ConnectionUpdated
<1> HIDE DEF active, busy
<1> QED
  <2>1. CASE as[a].type # "vpn" \/ as[a].conn # v
    BY <1>3, <2>1 DEF TakesOver
  <2>2. CASE as[a].type = "vpn" /\ as[a].conn = v
    <3>1. PICK d : d = ConnectionUpdated(v, c, as, a)
      OBVIOUS
    <3>2. d = [c EXCEPT !.path = a, !.active = active, !.busy = busy]
      BY <1>3, <2>2, <3>1
    <3>3. /\ d \in Conns /\ d.path = a /\ d.otherBusy = c.otherBusy
          /\ d.otherPath = c.otherPath /\ d.activatable = c.activatable
      BY <1>1, <1>2, <3>2 DEF Conns
    <3> QED
      BY <2>2, <3>1, <3>3 DEF TakesOver
  <2> QED
    BY <2>1, <2>2

LEMMA ActiveConnectionsUpdatedSound ==
    ASSUME NEW v, NEW c \in Conns, NEW as, as \in [DOMAIN as -> Objects],
           DOMAIN as \subseteq Paths, NEW a, Matches(v, as) = {} \/ a \in Matches(v, as)
    PROVE  TakesOver(v, c, as, a, ActiveConnectionsUpdated(v, c, as, a))
<1>1. CASE Matches(v, as) = {}
  BY <1>1 DEF ActiveConnectionsUpdated, Conns, TakesOver
<1>2. CASE Matches(v, as) # {}
  <2>1. a \in DOMAIN as
    BY <1>2 DEF Matches
  <2>2. ActiveConnectionsUpdated(v, c, as, a) = ConnectionUpdated(v, c, as, a)
    BY <1>2 DEF ActiveConnectionsUpdated
  <2>3. TakesOver(v, c, as, a, ConnectionUpdated(v, c, as, a))
    BY <2>1, ConnectionUpdatedSound
  <2> QED
    BY <2>2, <2>3
<1> QED
  BY <1>1, <1>2

-----------------------------------------------------------------------------
(* The signals on their way                                                *)

LEMMA Sent ==
    ASSUME NEW m \in Signals, TypeInv, FailsOnce, sig' = Append(sig, m), m.kind # "vpn",
           notified' = notified, \A a \in Paths : Over(a) => Over(a)'
    PROVE  sig' \in Seq(Signals) /\ FailsOnce'
<1>1. /\ sig' \in Seq(Signals) /\ Len(sig) \in Nat
      /\ DOMAIN sig = 1 .. Len(sig) /\ DOMAIN sig' = 1 .. (Len(sig) + 1)
      /\ \A i \in DOMAIN sig : sig'[i] = sig[i]
      /\ sig'[Len(sig) + 1] = m
  BY AppendProperties DEF TypeInv, NMType, ServiceType
<1>2. \A i \in DOMAIN sig', a \in Paths : FailAt(i, a)' => i \in DOMAIN sig /\ FailAt(i, a)
  BY <1>1 DEF FailAt
<1> QED
  BY <1>1, <1>2 DEF FailsOnce

LEMMA SentTwo ==
    ASSUME NEW m \in Signals, NEW n \in Signals, TypeInv, FailsOnce, sig' = sig \o <<m, n>>,
           m.kind = "vpn", n.kind # "vpn",
           notified' = notified, \A a \in Paths : Over(a) => Over(a)',
           Failure(m.state, m.reason) => ~Over(m.path) /\ Over(m.path)'
    PROVE  sig' \in Seq(Signals) /\ FailsOnce'
<1>0. m.path \in Paths
  BY DEF Signals
<1>1. /\ sig' \in Seq(Signals) /\ Len(sig) \in Nat
      /\ DOMAIN sig = 1 .. Len(sig) /\ DOMAIN sig' = 1 .. (Len(sig) + 2)
      /\ \A i \in DOMAIN sig : sig'[i] = sig[i]
      /\ sig'[Len(sig) + 1] = m /\ sig'[Len(sig) + 2] = n
  BY ConcatProperties DEF TypeInv, NMType, ServiceType
<1>2. \A i \in DOMAIN sig', a \in Paths :
          FailAt(i, a)' =>
              \/ i \in DOMAIN sig /\ FailAt(i, a)
              \/ i = Len(sig) + 1 /\ a = m.path /\ Failure(m.state, m.reason)
  <2> SUFFICES ASSUME NEW i \in DOMAIN sig', NEW a \in Paths, FailAt(i, a)'
               PROVE  \/ i \in DOMAIN sig /\ FailAt(i, a)
                      \/ i = Len(sig) + 1 /\ a = m.path /\ Failure(m.state, m.reason)
    OBVIOUS
  <2>1. CASE i \in DOMAIN sig
    BY <1>1, <2>1 DEF FailAt
  <2>2. CASE i = Len(sig) + 1
    BY <1>1, <2>2 DEF FailAt
  <2>3. CASE i = Len(sig) + 2
    BY <1>1, <2>3 DEF FailAt
  <2> QED
    BY <1>1, <2>1, <2>2, <2>3
<1>3. Failure(m.state, m.reason) =>
          /\ notified[m.path] = 0 /\ Over(m.path)'
          /\ \A i \in DOMAIN sig : ~FailAt(i, m.path)
  BY <1>0 DEF FailsOnce, TypeInv, ServiceType
<1>4. \A a \in Paths : notified'[a] = 1 => Over(a)'
  BY DEF FailsOnce
<1>5. \A a \in Paths : \A i \in DOMAIN sig' : FailAt(i, a)' => Over(a)' /\ notified'[a] = 0
  BY <1>2, <1>3 DEF FailsOnce
<1>6. \A a \in Paths : \A i, j \in DOMAIN sig' : FailAt(i, a)' /\ FailAt(j, a)' => i = j
  BY <1>2, <1>3 DEF FailsOnce
<1> QED
  BY <1>1, <1>4, <1>5, <1>6 DEF FailsOnce, FailAt

LEMMA Taken ==
    ASSUME TypeInv, sig # <<>>, sig' = Tail(sig)
    PROVE  /\ sig' \in Seq(Signals)
           /\ Head(sig) = sig[1] /\ Head(sig) \in Signals /\ 1 \in DOMAIN sig
           /\ \A i \in DOMAIN sig' : /\ i \in Nat /\ i + 1 \in DOMAIN sig /\ i + 1 # 1
                                   /\ sig'[i] = sig[i + 1]
<1>1. sig \in Seq(Signals) /\ Len(sig) \in Nat \ {0}
  BY EmptySeq, LenProperties DEF TypeInv, NMType, ServiceType
<1>2. /\ sig' \in Seq(Signals) /\ Len(sig') = Len(sig) - 1
      /\ \A i \in 1 .. Len(sig') : sig'[i] = sig[i + 1]
      /\ Head(sig) = sig[1]
  BY <1>1, HeadTailProperties
<1>3. DOMAIN sig = 1 .. Len(sig) /\ DOMAIN sig' = 1 .. (Len(sig) - 1)
  BY <1>1, <1>2, LenProperties
<1>4. 1 \in DOMAIN sig /\ sig[1] \in Signals
  BY <1>1, <1>3, ElementOfSeq
<1> QED
  BY <1>1, <1>2, <1>3, <1>4

LEMMA TakenFails ==
    ASSUME TypeInv, FailsOnce, sig # <<>>, sig' = Tail(sig), notified' = notified,
           UNCHANGED <<nmActive, owner>>
    PROVE  FailsOnce'
<1>1. \A i \in DOMAIN sig', a \in Paths : FailAt(i, a)' => FailAt(i + 1, a)
  BY Taken DEF FailAt
<1>2. \A a \in Paths : Over(a)' = Over(a)
  BY DEF Over
<1>3. \A a \in Paths : \A i, j \in DOMAIN sig' : FailAt(i, a)' /\ FailAt(j, a)' => i = j
  <2> SUFFICES ASSUME NEW a \in Paths, NEW i \in DOMAIN sig', NEW j \in DOMAIN sig',
                      FailAt(i, a)', FailAt(j, a)'
               PROVE  i = j
    OBVIOUS
  <2>1. i + 1 = j + 1
    BY <1>1, Taken DEF FailsOnce
  <2> QED
    BY <2>1, Taken
<1> QED
  BY <1>1, <1>2, <1>3, Taken DEF FailsOnce

-----------------------------------------------------------------------------
(* Calls on their way                                                      *)

OwnersStay == \A a \in Paths, v \in Vpns : Mine(a, v) => Mine(a, v)'

LEMMA SameOwners ==
    ASSUME UNCHANGED owner
    PROVE  OwnersStay
BY DEF OwnersStay, Mine

LEMMA Called ==
    ASSUME NEW m \in Requests, TypeInv, ReqOwned, req' = Append(req, m), UNCHANGED owner,
           m.path # NoPath => Mine(m.path, m.vpn)
    PROVE  req' \in Seq(Requests) /\ ReqOwned'
<1>1. /\ req' \in Seq(Requests) /\ Len(req) \in Nat
      /\ DOMAIN req = 1 .. Len(req) /\ DOMAIN req' = 1 .. (Len(req) + 1)
      /\ \A i \in DOMAIN req : req'[i] = req[i]
      /\ req'[Len(req) + 1] = m
  BY AppendProperties DEF TypeInv, NMType
<1> QED
  BY <1>1 DEF ReqOwned, Mine

LEMMA Answered ==
    ASSUME TypeInv, ReqOwned, req # <<>>, req' = Tail(req), OwnersStay
    PROVE  req' \in Seq(Requests) /\ ReqOwned' /\ Head(req) \in Requests
<1>1. req \in Seq(Requests) /\ Len(req) \in Nat \ {0}
  BY EmptySeq, LenProperties DEF TypeInv, NMType
<1>2. /\ req' \in Seq(Requests) /\ Len(req') = Len(req) - 1
      /\ \A i \in 1 .. Len(req') : req'[i] = req[i + 1]
      /\ Head(req) \in Requests
  BY <1>1, HeadTailProperties
<1>3. DOMAIN req = 1 .. Len(req) /\ DOMAIN req' = 1 .. (Len(req) - 1)
  BY <1>1, <1>2, LenProperties
<1>4. \A i \in DOMAIN req' : i + 1 \in DOMAIN req /\ req'[i] = req[i + 1] /\ req'[i] \in Requests
  BY <1>1, <1>2, <1>3, ElementOfSeq
<1>5. \A i \in DOMAIN req' :
          req'[i].path # NoPath => owner'[req'[i].path] = req'[i].vpn /\ req'[i].vpn # NoPath
  <2> SUFFICES ASSUME NEW i \in DOMAIN req', req'[i].path # NoPath
               PROVE  owner'[req'[i].path] = req'[i].vpn /\ req'[i].vpn # NoPath
    OBVIOUS
  <2>1. req'[i].path \in Paths /\ req'[i].vpn \in Vpns
    BY <1>4 DEF Requests
  <2>2. Mine(req'[i].path, req'[i].vpn)
    BY <1>4 DEF ReqOwned
  <2> QED
    BY <2>1, <2>2 DEF OwnersStay, Mine
<1> QED
  BY <1>2, <1>5 DEF ReqOwned, Mine

-----------------------------------------------------------------------------
(* NetworkManager's steps                                                  *)

LEMMA ServiceStays ==
    ASSUME IInv, UNCHANGED svcVars, OwnersStay
    PROVE  ServiceType' /\ ActsOwned' /\ ConnsOwned' /\ Agree'
<1> USE DEF svcVars
<1>1. ServiceType'
  BY DEF IInv, TypeInv, ServiceType
<1>2. Agree'
  BY DEF IInv, Agree
<1>3. ActsOwned'
  <2> SUFFICES ASSUME NEW a \in DOMAIN acts, acts[a].type = "vpn"
               PROVE  Mine(a, acts[a].conn)'
    BY DEF ActsOwned, Mine
  <2>1. a \in Paths /\ acts[a].conn \in Vpns \cup {NoPath} /\ Mine(a, acts[a].conn)
    BY DEF IInv, TypeInv, ServiceType, Objects, Owned, ActsOwned
  <2>2. acts[a].conn \in Vpns
    BY <2>1 DEF Mine
  <2> QED
    BY <2>1, <2>2 DEF OwnersStay, Mine
<1>4. ConnsOwned'
  <2> SUFFICES ASSUME NEW v \in DOMAIN conns, conns[v].path # NoPath
               PROVE  Mine(conns[v].path, v)'
    BY DEF ConnsOwned, Mine
  <2>1. conns[v].path \in Paths /\ v \in Vpns /\ Mine(conns[v].path, v)
    BY DEF IInv, TypeInv, ServiceType, Conns, Owned, ConnsOwned
  <2> QED
    BY <2>1 DEF OwnersStay, Mine
<1> QED
  BY <1>1, <1>2, <1>3, <1>4

(* An active connection that is not over changes its state. *)
LEMMA StateMoves ==
    ASSUME TypeInv, NMOwned, UNCHANGED owner, NEW a \in DOMAIN nmActive, NEW s \in States,
           nmActive[a].state # "deactivated",
           nmActive' = [nmActive EXCEPT ![a].state = s]
    PROVE  /\ nmActive' \in [DOMAIN nmActive' -> [conn : Vpns \cup {NoPath}, state : States]]
           /\ DOMAIN nmActive' \subseteq Paths
           /\ NMOwned'
           /\ \A b \in Paths : Over(b) => Over(b)'
           /\ ~Over(a)
           /\ s = "deactivated" /\ a # Other => Over(a)'
<1>1. /\ DOMAIN nmActive' = DOMAIN nmActive
      /\ nmActive' \in [DOMAIN nmActive' -> [conn : Vpns \cup {NoPath}, state : States]]
      /\ DOMAIN nmActive \subseteq Paths
      /\ nmActive'[a].state = s
      /\ \A b \in DOMAIN nmActive : /\ nmActive'[b].conn = nmActive[b].conn
                                    /\ b # a => nmActive'[b] = nmActive[b]
  BY DEF TypeInv, NMType
<1>2. NMOwned'
  BY <1>1 DEF NMOwned, Mine
<1>3. \A b \in Paths : Over(b) => Over(b)'
  BY <1>1 DEF Over
<1>4. ~Over(a)
  BY DEF Over
<1>5. s = "deactivated" /\ a # Other => Over(a)'
  BY <1>1 DEF Over, NMOwned, Mine
<1> QED
  BY <1>1, <1>2, <1>3, <1>4, <1>5

(* An active connection goes. *)
LEMMA ActiveGoes ==
    ASSUME TypeInv, NMOwned, UNCHANGED owner, NEW a,
           nmActive' = [b \in DOMAIN nmActive \ {a} |-> nmActive[b]]
    PROVE  /\ nmActive' \in [DOMAIN nmActive' -> [conn : Vpns \cup {NoPath}, state : States]]
           /\ DOMAIN nmActive' \subseteq Paths
           /\ NMOwned'
           /\ \A b \in Paths : Over(b) => Over(b)'
<1>1. DOMAIN nmActive' = DOMAIN nmActive \ {a}
  OBVIOUS
<1>2. /\ nmActive' \in [DOMAIN nmActive' -> [conn : Vpns \cup {NoPath}, state : States]]
      /\ DOMAIN nmActive' \subseteq Paths
  BY <1>1 DEF TypeInv, NMType
<1>3. NMOwned'
  BY <1>1 DEF NMOwned, Mine
<1>4. \A b \in Paths : Over(b) => Over(b)'
  BY <1>1 DEF Over
<1> QED
  BY <1>2, <1>3, <1>4

LEMMA ActivateStep ==
    ASSUME IInv, NEW a \in Actives, NMActivate(a)
    PROVE  IInv'
<1> DEFINE v == Head(req).vpn
<1>1. /\ req # <<>> /\ req' = Tail(req) /\ Head(req).vpn \in Present
      /\ owner[a] = NoPath /\ UNCHANGED nmVpns /\ UNCHANGED svcVars
      /\ nmActive' = With(nmActive, a, [conn |-> v, state |-> "activating"])
      /\ owner' = [owner EXCEPT ![a] = v]
      /\ sig' = Append(sig, ListSignal(DOMAIN nmActive'))
  BY DEF NMActivate, NextPath
<1>2. v \in Vpns /\ v # NoPath /\ a \in Paths
  BY <1>1, VpnsAssumption DEF Present, Paths, NoPath
<1>3. OwnersStay
  BY <1>1, <1>2 DEF OwnersStay, Mine, IInv, TypeInv, NMType
<1>4. req' \in Seq(Requests) /\ ReqOwned'
  BY <1>1, <1>3, Answered DEF IInv, Owned
<1>5. /\ DOMAIN nmActive' = DOMAIN nmActive \cup {a}
      /\ nmActive'[a] = [conn |-> v, state |-> "activating"]
      /\ \A b \in DOMAIN nmActive : b # a => nmActive'[b] = nmActive[b]
      /\ nmActive' \in [DOMAIN nmActive' -> [conn : Vpns \cup {NoPath}, state : States]]
      /\ DOMAIN nmActive' \subseteq Paths
  BY <1>1, <1>2 DEF With, IInv, TypeInv, NMType, States
<1>6. owner' \in [Paths -> Vpns \cup {NoPath}]
  BY <1>1, <1>2 DEF IInv, TypeInv, NMType
<1>7. NMOwned'
  <2>0. owner'[Other] = NoPath
    BY <1>1, OtherAssumption DEF IInv, TypeInv, NMType, Owned, NMOwned, Paths
  <2> SUFFICES ASSUME NEW b \in DOMAIN nmActive', b # Other
               PROVE  owner'[b] = nmActive'[b].conn /\ nmActive'[b].conn # NoPath
    BY <2>0 DEF NMOwned, Mine
  <2>1. CASE b = a
    BY <1>1, <1>2, <1>5, <2>1 DEF IInv, TypeInv, NMType
  <2>2. CASE b # a
    <3>1. b \in DOMAIN nmActive /\ b \in Paths
      BY <1>5, <2>2
    <3> QED
      BY <1>1, <1>5, <2>2, <3>1 DEF IInv, TypeInv, NMType, Owned, NMOwned, Mine
  <2> QED
    BY <2>1, <2>2
<1>8. \A b \in Paths : Over(b) => Over(b)'
  BY <1>1, <1>2, <1>5 DEF Over, IInv, TypeInv, NMType
<1>9. sig' \in Seq(Signals) /\ FailsOnce'
  <2>1. ListSignal(DOMAIN nmActive') \in Signals /\ ListSignal(DOMAIN nmActive').kind # "vpn"
    BY <1>5 DEF ListSignal, Signals
  <2>2. PICK m \in Signals : m = ListSignal(DOMAIN nmActive')
    BY <2>1
  <2>3. notified' = notified
    BY <1>1 DEF svcVars
  <2> QED
    BY <1>1, <1>8, <2>1, <2>2, <2>3, Sent DEF IInv
<1>10. NMType'
  BY <1>1, <1>4, <1>5, <1>6, <1>9 DEF NMType, IInv, TypeInv
<1> QED
  BY <1>1, <1>3, <1>4, <1>7, <1>9, <1>10, ServiceStays DEF IInv, TypeInv, Owned

LEMMA RefuseStep ==
    ASSUME IInv, NMRefuse
    PROVE  IInv'
<1>1. /\ req # <<>> /\ req' = Tail(req) /\ UNCHANGED nmVars /\ UNCHANGED sig /\ UNCHANGED svcVars
  BY DEF NMRefuse
<1>2. UNCHANGED owner /\ OwnersStay
  BY <1>1, SameOwners DEF nmVars
<1>3. req' \in Seq(Requests) /\ ReqOwned'
  BY <1>1, <1>2, Answered DEF IInv, Owned
<1>4. NMType' /\ NMOwned' /\ FailsOnce'
  BY <1>1, <1>3 DEF nmVars, svcVars, IInv, TypeInv, NMType, Owned, NMOwned, Mine,
                    FailsOnce, FailAt, Over
<1> QED
  BY <1>1, <1>2, <1>3, <1>4, ServiceStays DEF IInv, TypeInv, Owned

LEMMA DeactivateStep ==
    ASSUME IInv, NMDeactivate
    PROVE  IInv'
<1> DEFINE a == Head(req).path
<1>1. /\ req # <<>> /\ req' = Tail(req) /\ UNCHANGED <<nmVpns, owner>> /\ UNCHANGED svcVars
      /\ IF a \in DOMAIN nmActive /\ nmActive[a].state \in {"activating", "activated"}
         THEN /\ nmActive' = [nmActive EXCEPT ![a].state = "deactivating"]
              /\ sig' = Append(sig, StateSignal(a, "deactivating"))
         ELSE UNCHANGED <<nmActive, sig>>
  BY DEF NMDeactivate
<1>2. OwnersStay
  BY <1>1, SameOwners
<1>3. req' \in Seq(Requests) /\ ReqOwned'
  BY <1>1, <1>2, Answered DEF IInv, Owned
<1>4. NMType' /\ NMOwned' /\ FailsOnce'
  <2>1. CASE a \in DOMAIN nmActive /\ nmActive[a].state \in {"activating", "activated"}
    <3>1. PICK b \in DOMAIN nmActive : b = a
      BY <2>1
    <3>2. "deactivating" \in States
      BY DEF States
    <3>3. /\ nmActive' \in [DOMAIN nmActive' -> [conn : Vpns \cup {NoPath}, state : States]]
          /\ DOMAIN nmActive' \subseteq Paths
          /\ NMOwned'
          /\ \A c \in Paths : Over(c) => Over(c)'
      BY <1>1, <2>1, <3>1, <3>2, StateMoves DEF IInv, Owned
    <3>4. StateSignal(b, "deactivating") \in Signals
      BY <3>1, <3>2 DEF StateSignal, Signals, IInv, TypeInv, NMType
    <3>5. StateSignal(b, "deactivating").kind # "vpn"
      BY DEF StateSignal
    <3>6. sig' \in Seq(Signals) /\ FailsOnce'
      BY <1>1, <2>1, <3>1, <3>3, <3>4, <3>5, Sent DEF IInv, svcVars
    <3> QED
      BY <1>1, <1>3, <3>3, <3>6 DEF IInv, TypeInv, NMType
  <2>2. CASE ~(a \in DOMAIN nmActive /\ nmActive[a].state \in {"activating", "activated"})
    BY <1>1, <1>3, <2>2 DEF svcVars, IInv, TypeInv, NMType, Owned, NMOwned, Mine,
                            FailsOnce, FailAt, Over
  <2> QED
    BY <2>1, <2>2
<1> QED
  BY <1>1, <1>2, <1>3, <1>4, ServiceStays DEF IInv, TypeInv, Owned

(* An active connection changes its state and says so. *)
LEMMA MoveAnnounced ==
    ASSUME IInv, NEW a \in DOMAIN nmActive \ {Other}, NEW s \in States,
           nmActive[a].state # "deactivated",
           nmActive' = [nmActive EXCEPT ![a].state = s],
           UNCHANGED <<nmVpns, owner, req>>, UNCHANGED svcVars,
           \/ sig' = Append(sig, StateSignal(a, s))
           \/ \E st \in {"ACTIVATED", "FAILED", "DISCONNECTED"},
                 r \in {"NONE", "LOGIN_FAILED", "DISCONNECTED", "SERVICE_STOPPED"} :
                  /\ sig' = sig \o <<VpnSignal(a, st, r), StateSignal(a, s)>>
                  /\ Failure(st, r) => s = "deactivated"
    PROVE  IInv'
<1>1. OwnersStay
  BY SameOwners
<1>2. /\ nmActive' \in [DOMAIN nmActive' -> [conn : Vpns \cup {NoPath}, state : States]]
      /\ DOMAIN nmActive' \subseteq Paths
      /\ NMOwned'
      /\ \A c \in Paths : Over(c) => Over(c)'
      /\ ~Over(a)
      /\ s = "deactivated" => Over(a)'
  BY StateMoves DEF IInv, Owned
<1>3. StateSignal(a, s) \in Signals /\ StateSignal(a, s).kind # "vpn" /\ a \in Paths
  BY DEF StateSignal, Signals, IInv, TypeInv, NMType
<1>4. sig' \in Seq(Signals) /\ FailsOnce'
  <2>0. notified' = notified
    BY DEF svcVars
  <2>1. PICK n \in Signals : n = StateSignal(a, s)
    BY <1>3
  <2>2. CASE sig' = Append(sig, StateSignal(a, s))
    BY <1>2, <1>3, <2>0, <2>1, <2>2, Sent DEF IInv
  <2>3. ASSUME NEW st \in {"ACTIVATED", "FAILED", "DISCONNECTED"},
               NEW r \in {"NONE", "LOGIN_FAILED", "DISCONNECTED", "SERVICE_STOPPED"},
               sig' = sig \o <<VpnSignal(a, st, r), StateSignal(a, s)>>,
               Failure(st, r) => s = "deactivated"
        PROVE  sig' \in Seq(Signals) /\ FailsOnce'
    <3>1. VpnSignal(a, st, r) \in Signals
      BY <1>3 DEF VpnSignal, Signals
    <3>2. PICK m \in Signals : m = VpnSignal(a, st, r)
      BY <3>1
    <3>3. m.kind = "vpn" /\ m.path = a /\ m.state = st /\ m.reason = r
      BY <3>2 DEF VpnSignal
    <3>4. Failure(m.state, m.reason) => ~Over(m.path) /\ Over(m.path)'
      BY <1>2, <2>3, <3>3
    <3>5. sig' = sig \o <<m, n>> /\ n.kind # "vpn"
      BY <1>3, <2>1, <2>3, <3>2
    <3> QED
      BY <1>2, <2>0, <3>3, <3>4, <3>5, SentTwo DEF IInv
  <2> QED
    BY <2>2, <2>3
<1>5. NMType' /\ ReqOwned'
  BY <1>2, <1>4 DEF IInv, TypeInv, NMType, Owned, ReqOwned, Mine
<1> QED
  BY <1>1, <1>2, <1>4, <1>5, ServiceStays DEF IInv, TypeInv, Owned

(* The list of active connections is sent. *)
LEMMA ListSent ==
    ASSUME IInv, sig' = Append(sig, ListSignal(DOMAIN nmActive')),
           nmActive' \in [DOMAIN nmActive' -> [conn : Vpns \cup {NoPath}, state : States]],
           DOMAIN nmActive' \subseteq Paths, NMOwned',
           \A b \in Paths : Over(b) => Over(b)',
           UNCHANGED <<nmVpns, owner, req>>, UNCHANGED svcVars
    PROVE  IInv'
<1>1. OwnersStay
  BY SameOwners
<1>2. ListSignal(DOMAIN nmActive') \in Signals /\ ListSignal(DOMAIN nmActive').kind # "vpn"
  BY DEF ListSignal, Signals
<1>3. sig' \in Seq(Signals) /\ FailsOnce'
  <2>1. PICK m \in Signals : m = ListSignal(DOMAIN nmActive')
    BY <1>2
  <2> QED
    BY <1>2, <2>1, Sent DEF IInv, svcVars
<1>4. NMType' /\ ReqOwned'
  BY <1>3 DEF IInv, TypeInv, NMType, Owned, ReqOwned, Mine
<1> QED
  BY <1>1, <1>3, <1>4, ServiceStays DEF IInv, TypeInv, Owned

LEMMA ProgressStep ==
    ASSUME IInv, NEW a \in Actives, NMProgress(a)
    PROVE  IInv'
<1>0. /\ a \in DOMAIN nmActive \ {Other}
      /\ UNCHANGED <<nmVpns, owner, req>> /\ UNCHANGED svcVars
      /\ {"activating", "activated", "deactivating", "deactivated"} \subseteq States
  BY DEF NMProgress, States
<1>1. CASE /\ nmActive' = [nmActive EXCEPT ![a].state = "activated"]
           /\ nmActive[a].state = "activating"
           /\ sig' = sig \o <<VpnSignal(a, "ACTIVATED", "NONE"), StateSignal(a, "activated")>>
  BY <1>0, <1>1, MoveAnnounced DEF Failure
<1>2. CASE /\ nmActive' = [nmActive EXCEPT ![a].state = "deactivated"]
           /\ nmActive[a].state = "activating"
           /\ sig' = sig \o <<VpnSignal(a, "FAILED", "LOGIN_FAILED"),
                              StateSignal(a, "deactivated")>>
  BY <1>0, <1>2, MoveAnnounced
<1>3. CASE /\ nmActive' = [nmActive EXCEPT ![a].state = "deactivating"]
           /\ nmActive[a].state = "activated"
           /\ sig' = Append(sig, StateSignal(a, "deactivating"))
  BY <1>0, <1>3, MoveAnnounced
<1>4. CASE /\ nmActive' = [nmActive EXCEPT ![a].state = "deactivated"]
           /\ nmActive[a].state = "deactivating"
           /\ sig' = sig \o <<VpnSignal(a, "DISCONNECTED", "DISCONNECTED"),
                              StateSignal(a, "deactivated")>>
  BY <1>0, <1>4, MoveAnnounced
<1>5. CASE /\ nmActive' = [b \in DOMAIN nmActive \ {a} |-> nmActive[b]]
           /\ sig' = Append(sig, ListSignal(DOMAIN nmActive'))
  BY <1>0, <1>5, ActiveGoes, ListSent DEF IInv, Owned
<1> QED
  BY <1>1, <1>2, <1>3, <1>4, <1>5 DEF NMProgress

LEMMA StoppedStep ==
    ASSUME IInv, NEW a \in Actives, NMStopped(a)
    PROVE  IInv'
<1>1. /\ a \in DOMAIN nmActive \ {Other} /\ nmActive[a].state = "activated"
      /\ nmActive' = [nmActive EXCEPT ![a].state = "deactivated"]
      /\ sig' = sig \o <<VpnSignal(a, "DISCONNECTED", "SERVICE_STOPPED"),
                         StateSignal(a, "deactivated")>>
      /\ UNCHANGED <<nmVpns, owner, req>> /\ UNCHANGED svcVars
      /\ "deactivated" \in States
  BY DEF NMStopped, States
<1> QED
  BY <1>1, MoveAnnounced

LEMMA OtherStep ==
    ASSUME IInv, NMOther
    PROVE  IInv'
<1>1. /\ sig' = Append(sig, ListSignal(DOMAIN nmActive'))
      /\ UNCHANGED <<nmVpns, owner, req>> /\ UNCHANGED svcVars
  BY DEF NMOther
<1>2. CASE Other \in DOMAIN nmActive
  <2>1. nmActive' = [b \in DOMAIN nmActive \ {Other} |-> nmActive[b]]
    BY <1>2 DEF NMOther
  <2> QED
    BY <1>1, <2>1, ActiveGoes, ListSent DEF IInv, Owned
<1>3. CASE Other \notin DOMAIN nmActive
  <2>1. /\ DOMAIN nmActive' = DOMAIN nmActive \cup {Other}
        /\ nmActive'[Other] = [conn |-> NoPath, state |-> "activated"]
        /\ \A b \in DOMAIN nmActive : nmActive'[b] = nmActive[b]
        /\ nmActive' \in [DOMAIN nmActive' -> [conn : Vpns \cup {NoPath}, state : States]]
        /\ DOMAIN nmActive' \subseteq Paths
    BY <1>3 DEF NMOther, With, IInv, TypeInv, NMType, States, Paths
  <2>2. NMOwned'
    BY <1>1, <2>1 DEF IInv, Owned, NMOwned, Mine
  <2>3. \A b \in Paths : Over(b) => Over(b)'
    <3> SUFFICES ASSUME NEW b \in Paths, Over(b)
                 PROVE  Over(b)'
      OBVIOUS
    <3>1. b # Other
      BY DEF Over, IInv, Owned, NMOwned
    <3> QED
      BY <1>1, <2>1, <3>1 DEF Over
  <2> QED
    BY <1>1, <2>1, <2>2, <2>3, ListSent
<1> QED
  BY <1>2, <1>3

LEMMA SettingsStep ==
    ASSUME IInv, NEW v \in Vpns, AddConnection(v) \/ RemoveConnection(v)
    PROVE  IInv'
<1>1. /\ UNCHANGED <<nmActive, owner, req>> /\ UNCHANGED svcVars
      /\ nmVpns' \in [Vpns -> {"absent", "present", "deleted"}]
  BY DEF AddConnection, RemoveConnection, IInv, TypeInv, NMType
<1>2. PICK m \in Signals : m.kind # "vpn" /\ sig' = Append(sig, m)
  <2>1. [kind |-> "new", vpn |-> v] \in Signals /\ [kind |-> "removed", vpn |-> v] \in Signals
    BY DEF Signals
  <2> QED
    BY <2>1 DEF AddConnection, RemoveConnection
<1>3. sig' \in Seq(Signals) /\ FailsOnce'
  BY <1>1, <1>2, Sent DEF IInv, svcVars, Over
<1>4. NMType' /\ ReqOwned' /\ NMOwned' /\ OwnersStay
  BY <1>1, <1>3, SameOwners DEF IInv, TypeInv, NMType, Owned, ReqOwned, NMOwned, Mine
<1> QED
  BY <1>1, <1>3, <1>4, ServiceStays DEF IInv, TypeInv, Owned

-----------------------------------------------------------------------------
(* The service's steps.  NetworkManager stays as it is.                    *)

LEMMA NMStays ==
    ASSUME IInv, UNCHANGED nmVars, sig' \in Seq(Signals), req' \in Seq(Requests)
    PROVE  NMType' /\ NMOwned'
BY DEF IInv, TypeInv, NMType, Owned, NMOwned, Mine, nmVars

LEMMA SetActiveStep ==
    ASSUME IInv, NEW v \in DOMAIN conns, NEW on \in BOOLEAN, SetActive(v, on),
           UNCHANGED nmVars, UNCHANGED <<sig, acts, hooks, notified>>
    PROVE  IInv'
<1>0. v \in Vpns /\ conns \in [DOMAIN conns -> Conns] /\ conns[v] \in Conns
  BY DEF IInv, TypeInv, ServiceType
<1>1. /\ conns' \in [DOMAIN conns' -> Conns] /\ DOMAIN conns' = DOMAIN conns
      /\ switch' \in [DOMAIN conns' -> [state : BOOLEAN, enabled : BOOLEAN]]
      /\ Agree'
      /\ \A w \in DOMAIN conns : conns'[w].path = conns[w].path
  <2>1. CASE UNCHANGED <<conns, mgr, switch>>
    BY <1>0, <2>1 DEF IInv, TypeInv, ServiceType, Agree
  <2>2. CASE Settle([conns EXCEPT ![v].active = TRUE])
    <3>1. PICK cs : cs = [conns EXCEPT ![v].active = TRUE]
      OBVIOUS
    <3>2. /\ cs \in [DOMAIN cs -> Conns] /\ DOMAIN cs = DOMAIN conns
          /\ \A w \in DOMAIN conns : /\ cs[w].path = conns[w].path
                                     /\ cs[w].otherBusy = conns[w].otherBusy
                                     /\ cs[w].otherPath = conns[w].otherPath
                                     /\ cs[w].activatable = conns[w].activatable
      BY <1>0, <3>1 DEF Conns
    <3>3. \A w \in DOMAIN cs : Copies(mgr, w, cs[w])
      BY <3>2 DEF IInv, Agree, Copies
    <3>4. DOMAIN cs \subseteq Vpns /\ Settle(cs)
      BY <2>2, <3>1, <3>2 DEF IInv, TypeInv, ServiceType
    <3> QED
      BY <3>2, <3>3, <3>4, SettleSound DEF IInv
  <2> QED
    BY <2>1, <2>2 DEF SetActive
<1>2. req' \in Seq(Requests) /\ ReqOwned'
  <2>0. UNCHANGED owner
    BY DEF nmVars
  <2>1. CASE req' = req
    BY <2>0, <2>1 DEF IInv, TypeInv, NMType, Owned, ReqOwned, Mine
  <2>2. PICK m : m = [call |-> IF on THEN "Activate" ELSE "Deactivate", vpn |-> v,
                      path |-> IF on THEN NoPath ELSE conns[v].path]
    OBVIOUS
  <2>3. m \in Requests
    BY <1>0, <2>2 DEF Requests, Conns
  <2>4. m.path # NoPath => Mine(m.path, m.vpn)
    BY <2>2 DEF IInv, Owned, ConnsOwned
  <2>5. CASE req' = Append(req, m)
    BY <2>0, <2>3, <2>4, <2>5, Called DEF IInv, Owned
  <2> QED
    BY <2>1, <2>2, <2>5 DEF SetActive
<1>3. ServiceType'
  BY <1>1 DEF IInv, TypeInv, ServiceType
<1>4. ActsOwned' /\ ConnsOwned'
  BY <1>1 DEF IInv, Owned, ActsOwned, ConnsOwned, Mine, nmVars
<1>5. FailsOnce'
  BY DEF IInv, FailsOnce, FailAt, Over, nmVars
<1>6. NMType' /\ NMOwned'
  BY <1>2, NMStays DEF IInv, TypeInv, NMType
<1> QED
  BY <1>1, <1>2, <1>3, <1>4, <1>5, <1>6 DEF IInv, TypeInv, Owned

LEMMA ToggleStep ==
    ASSUME IInv, NEW v \in Vpns, ToggleSwitch(v)
    PROVE  IInv'
<1> DEFINE on == ~switch[v].state
<1>0. /\ v \in DOMAIN conns /\ on \in BOOLEAN
      /\ UNCHANGED nmVars /\ UNCHANGED <<sig, acts, hooks, notified>>
      /\ conns[v] \in Conns
  BY DEF ToggleSwitch, nmVars, IInv, TypeInv, ServiceType
<1>1. CASE on = conns[v].active \/ ~on
  <2>1. /\ switch' = [switch EXCEPT ![v].state = on]
        /\ UNCHANGED <<conns, mgr>>
        /\ req' = IF on = conns[v].active THEN req
                  ELSE Append(req, [call |-> "Deactivate", vpn |-> v, path |-> conns[v].path])
    BY <1>1 DEF ToggleSwitch
  <2>2. /\ switch' \in [DOMAIN conns' -> [state : BOOLEAN, enabled : BOOLEAN]]
        /\ \A w \in DOMAIN conns : switch'[w].enabled = switch[w].enabled
    <3> HIDE DEF on
    <3> QED
      BY <1>0, <2>1 DEF IInv, TypeInv, ServiceType
  <2>3. ServiceType' /\ Agree'
    BY <1>0, <2>1, <2>2 DEF IInv, TypeInv, ServiceType, Agree, Copies
  <2>4. req' \in Seq(Requests) /\ ReqOwned'
    <3>0. UNCHANGED owner
      BY <1>0 DEF nmVars
    <3>1. CASE req' = req
      BY <3>0, <3>1 DEF IInv, TypeInv, NMType, Owned, ReqOwned, Mine
    <3>2. PICK m : m = [call |-> "Deactivate", vpn |-> v, path |-> conns[v].path]
      OBVIOUS
    <3>3. m \in Requests
      BY <1>0, <3>2 DEF Requests, Conns
    <3>4. m.path # NoPath => Mine(m.path, m.vpn)
      BY <1>0, <3>2 DEF IInv, Owned, ConnsOwned
    <3>5. CASE req' = Append(req, m)
      BY <3>0, <3>3, <3>4, <3>5, Called DEF IInv, Owned
    <3> QED
      BY <2>1, <3>1, <3>2, <3>5
  <2>5. ActsOwned' /\ ConnsOwned' /\ FailsOnce'
    BY <1>0, <2>1 DEF IInv, Owned, ActsOwned, ConnsOwned, Mine, nmVars, FailsOnce, FailAt, Over
  <2>6. NMType' /\ NMOwned'
    BY <1>0, <2>4, NMStays DEF IInv, TypeInv, NMType
  <2> QED
    BY <2>3, <2>4, <2>5, <2>6 DEF IInv, TypeInv, Owned
<1>2. CASE ~(on = conns[v].active \/ ~on)
  <2>1. SetActive(v, TRUE)
    BY <1>2 DEF ToggleSwitch
  <2> QED
    BY <1>0, <2>1, SetActiveStep
<1> QED
  BY <1>1, <1>2

(* What the steps of the service have to show when NetworkManager stays as *)
(* it is and connections change from conns to cs in one Settle.            *)
LEMMA ConnectionsMove ==
    ASSUME IInv, UNCHANGED nmVars, NEW cs, cs \in [DOMAIN cs -> Conns],
           DOMAIN cs \subseteq Vpns, Settle(cs),
           \A v \in DOMAIN cs : /\ Copies(mgr, v, cs[v])
                                /\ cs[v].path # NoPath => Mine(cs[v].path, v)
    PROVE  /\ conns' \in [DOMAIN conns' -> Conns] /\ DOMAIN conns' \subseteq Vpns
           /\ switch' \in [DOMAIN conns' -> [state : BOOLEAN, enabled : BOOLEAN]]
           /\ Agree' /\ ConnsOwned'
<1>1. /\ conns' \in [DOMAIN conns' -> Conns] /\ DOMAIN conns' = DOMAIN cs
      /\ switch' \in [DOMAIN conns' -> [state : BOOLEAN, enabled : BOOLEAN]]
      /\ Agree'
      /\ \A v \in DOMAIN cs : conns'[v].path = cs[v].path
  BY SettleSound DEF IInv
<1> QED
  BY <1>1 DEF ConnsOwned, Mine, nmVars

LEMMA ConnectionsStay ==
    ASSUME IInv, UNCHANGED nmVars, UNCHANGED <<conns, mgr, switch>>
    PROVE  /\ conns' \in [DOMAIN conns' -> Conns] /\ DOMAIN conns' \subseteq Vpns
           /\ switch' \in [DOMAIN conns' -> [state : BOOLEAN, enabled : BOOLEAN]]
           /\ Agree' /\ ConnsOwned'
BY DEF IInv, TypeInv, ServiceType, Agree, Owned, ConnsOwned, Mine, nmVars

(* Every connection is told of the list as, and finds one of its own. *)
LEMMA ListTold ==
    ASSUME IInv, UNCHANGED nmVars, NEW as, as \in [DOMAIN as -> Objects],
           DOMAIN as \subseteq Paths,
           \A a \in DOMAIN as : as[a].type = "vpn" => Mine(a, as[a].conn),
           NEW cs, DOMAIN cs \subseteq Vpns, Settle(cs), cs = [v \in DOMAIN cs |-> cs[v]],
           \A v \in DOMAIN cs :
               \E c \in Conns, a \in Paths \cup {NoPath} :
                   /\ TakesOver(v, c, as, a, cs[v]) /\ Copies(mgr, v, c)
                   /\ c.path # NoPath => Mine(c.path, v)
    PROVE  /\ conns' \in [DOMAIN conns' -> Conns] /\ DOMAIN conns' \subseteq Vpns
           /\ switch' \in [DOMAIN conns' -> [state : BOOLEAN, enabled : BOOLEAN]]
           /\ Agree' /\ ConnsOwned'
<1>1. ASSUME NEW v \in DOMAIN cs
      PROVE  /\ cs[v] \in Conns /\ Copies(mgr, v, cs[v])
             /\ cs[v].path # NoPath => Mine(cs[v].path, v)
  <2>1. PICK c \in Conns, a \in Paths \cup {NoPath} :
            /\ TakesOver(v, c, as, a, cs[v]) /\ Copies(mgr, v, c)
            /\ c.path # NoPath => Mine(c.path, v)
    BY <1>1
  <2>2. Copies(mgr, v, cs[v])
    BY <2>1, Zenon DEF TakesOver, Copies
  <2>3. cs[v].path # NoPath => Mine(cs[v].path, v)
    BY <2>1 DEF TakesOver
  <2> QED
    BY <2>1, <2>2, <2>3 DEF TakesOver
<1>2. cs \in [DOMAIN cs -> Conns]
  BY <1>1
<1> QED
  BY <1>1, <1>2, ConnectionsMove

LEMMA ListStep ==
    ASSUME IInv, NEW list \in SUBSET Paths, HandleList(list), UNCHANGED nmVars,
           notified' = notified
    PROVE  ServiceType' /\ Agree' /\ ActsOwned' /\ ConnsOwned'
<1>1. CASE list = DOMAIN acts
  <2>1. UNCHANGED <<conns, mgr, switch, acts, hooks>>
    BY <1>1 DEF HandleList
  <2> QED
    BY <2>1, ConnectionsStay DEF IInv, TypeInv, ServiceType, Owned, ActsOwned, Mine, nmVars
<1>2. CASE list # DOMAIN acts
  <2>1. PICK as : as = [a \in list |-> IF a \in DOMAIN acts THEN acts[a] ELSE ReadActive(a)]
    OBVIOUS
  <2>2. DOMAIN as = list /\ \A a \in list : as[a] \in Objects
                                            /\ (as[a].type = "vpn" => Mine(a, as[a].conn))
    <3> SUFFICES ASSUME NEW a \in list
                 PROVE  as[a] \in Objects /\ (as[a].type = "vpn" => Mine(a, as[a].conn))
      BY <2>1
    <3>1. CASE a \in DOMAIN acts
      BY <2>1, <3>1 DEF IInv, TypeInv, ServiceType, Owned, ActsOwned
    <3>2. CASE a \notin DOMAIN acts /\ a \in DOMAIN nmActive
      <4>1. nmActive[a].conn \in Vpns \cup {NoPath} /\ nmActive[a].state \in States
        BY <3>2 DEF IInv, TypeInv, NMType
      <4>2. as[a] = [type |-> IF a = Other THEN "wifi" ELSE "vpn",
                     conn |-> nmActive[a].conn, state |-> nmActive[a].state]
        BY <2>1, <3>2 DEF ReadActive
      <4> QED
        BY <4>1, <4>2, <3>2 DEF Objects, IInv, Owned, NMOwned
    <3>3. CASE a \notin DOMAIN acts /\ a \notin DOMAIN nmActive
      BY <2>1, <3>3 DEF ReadActive, Objects, States
    <3> QED
      BY <3>1, <3>2, <3>3
  <2>3. as \in [DOMAIN as -> Objects]
    BY <2>1, <2>2
  <2>4. PICK pick \in [DOMAIN conns -> Paths \cup {NoPath}] :
            /\ \A v \in DOMAIN conns :
                   pick[v] \in (IF Matches(v, as) = {} THEN {NoPath} ELSE Matches(v, as))
            /\ acts' = as
            /\ Settle([v \in DOMAIN conns |->
                          ActiveConnectionsUpdated(v, conns[v], as, pick[v])])
            /\ hooks' = [a \in Paths |->
                   IF a \notin list THEN 0
                   ELSE IF as[a].type = "vpn" THEN HookOnce(hooks[a]) ELSE hooks[a]]
    BY <1>2, <2>1 DEF HandleList
  <2>5. PICK cs : cs = [v \in DOMAIN conns |->
                           ActiveConnectionsUpdated(v, conns[v], as, pick[v])]
    OBVIOUS
  <2>6. DOMAIN cs = DOMAIN conns /\ DOMAIN cs \subseteq Vpns /\ Settle(cs)
        /\ cs = [v \in DOMAIN cs |-> cs[v]]
    BY <2>4, <2>5 DEF IInv, TypeInv, ServiceType
  <2>7. \A v \in DOMAIN cs :
            \E c \in Conns, a \in Paths \cup {NoPath} :
                /\ TakesOver(v, c, as, a, cs[v]) /\ Copies(mgr, v, c)
                /\ c.path # NoPath => Mine(c.path, v)
    <3> SUFFICES ASSUME NEW v \in DOMAIN cs
                 PROVE  /\ TakesOver(v, conns[v], as, pick[v], cs[v])
                        /\ Copies(mgr, v, conns[v])
                        /\ conns[v].path # NoPath => Mine(conns[v].path, v)
                        /\ conns[v] \in Conns /\ pick[v] \in Paths \cup {NoPath}
      OBVIOUS
    <3>1. conns[v] \in Conns /\ pick[v] \in Paths \cup {NoPath}
      BY <2>6 DEF IInv, TypeInv, ServiceType
    <3>2. Matches(v, as) = {} \/ pick[v] \in Matches(v, as)
      BY <2>4, <2>6
    <3>3. PICK c \in Conns : c = conns[v]
      BY <3>1
    <3>4. TakesOver(v, c, as, pick[v], ActiveConnectionsUpdated(v, c, as, pick[v]))
      BY <2>2, <2>3, <3>2, ActiveConnectionsUpdatedSound
    <3>5. cs[v] = ActiveConnectionsUpdated(v, c, as, pick[v])
      BY <2>5, <2>6, <3>3
    <3> QED
      BY <2>6, <3>1, <3>3, <3>4, <3>5 DEF IInv, Agree, Owned, ConnsOwned
  <2>8. /\ conns' \in [DOMAIN conns' -> Conns] /\ DOMAIN conns' \subseteq Vpns
        /\ switch' \in [DOMAIN conns' -> [state : BOOLEAN, enabled : BOOLEAN]]
        /\ Agree' /\ ConnsOwned'
    BY <2>2, <2>3, <2>6, <2>7, ListTold
  <2>9. hooks' \in [Paths -> {0, 1}]
    BY <2>4 DEF HookOnce, IInv, TypeInv, ServiceType
  <2>10. ActsOwned'
    BY <2>2, <2>4 DEF ActsOwned, Mine, nmVars
  <2> QED
    BY <2>2, <2>3, <2>4, <2>8, <2>9, <2>10 DEF ServiceType, IInv, TypeInv
<1> QED
  BY <1>1, <1>2

LEMMA StateStep ==
    ASSUME IInv, NEW a \in Paths, NEW state \in States, HandleState(a, state),
           UNCHANGED nmVars, notified' = notified
    PROVE  ServiceType' /\ Agree' /\ ActsOwned' /\ ConnsOwned'
<1>0. hooks' = hooks
  BY DEF HandleState
<1>1. CASE a \notin DOMAIN acts \/ acts[a].state = state
  <2>1. UNCHANGED <<conns, mgr, switch, acts>>
    BY <1>1 DEF HandleState
  <2> QED
    BY <1>0, <2>1, ConnectionsStay
       DEF IInv, TypeInv, ServiceType, Owned, ActsOwned, Mine, nmVars
<1>2. CASE a \in DOMAIN acts /\ acts[a].state # state
  <2>1. PICK as : as = [acts EXCEPT ![a].state = state]
    OBVIOUS
  <2>2. /\ acts' = as
        /\ Settle([v \in DOMAIN conns |-> IF a \in links[v]
                       THEN ConnectionUpdated(v, conns[v], as, a) ELSE conns[v]])
    BY <1>2, <2>1 DEF HandleState
  <2>3. /\ DOMAIN as = DOMAIN acts /\ as \in [DOMAIN as -> Objects] /\ DOMAIN as \subseteq Paths
        /\ \A b \in DOMAIN as : as[b].type = acts[b].type /\ as[b].conn = acts[b].conn
    <3>1. acts \in [DOMAIN acts -> Objects] /\ DOMAIN acts \subseteq Paths
      BY DEF IInv, TypeInv, ServiceType
    <3>2. PICK old : old = acts[a]
      OBVIOUS
    <3>3. PICK new : new = [old EXCEPT !.state = state]
      OBVIOUS
    <3>4. new \in Objects /\ new.type = old.type /\ new.conn = old.conn
      BY <1>2, <3>1, <3>2, <3>3 DEF Objects
    <3>5. as = [acts EXCEPT ![a] = new]
      BY <2>1, <3>2, <3>3
    <3> QED
      BY <1>2, <3>1, <3>2, <3>4, <3>5
  <2>4. \A b \in DOMAIN as : as[b].type = "vpn" => Mine(b, as[b].conn)
    BY <2>3 DEF IInv, Owned, ActsOwned
  <2>5. PICK cs : cs = [v \in DOMAIN conns |-> IF a \in links[v]
                            THEN ConnectionUpdated(v, conns[v], as, a) ELSE conns[v]]
    OBVIOUS
  <2>6. DOMAIN cs = DOMAIN conns /\ DOMAIN cs \subseteq Vpns /\ Settle(cs)
        /\ cs = [v \in DOMAIN cs |-> cs[v]]
    BY <2>2, <2>5 DEF IInv, TypeInv, ServiceType
  <2>7. \A v \in DOMAIN cs :
            \E c \in Conns, b \in Paths \cup {NoPath} :
                /\ TakesOver(v, c, as, b, cs[v]) /\ Copies(mgr, v, c)
                /\ c.path # NoPath => Mine(c.path, v)
    <3> SUFFICES ASSUME NEW v \in DOMAIN cs
                 PROVE  /\ TakesOver(v, conns[v], as, a, cs[v])
                        /\ Copies(mgr, v, conns[v])
                        /\ conns[v].path # NoPath => Mine(conns[v].path, v)
                        /\ conns[v] \in Conns
      OBVIOUS
    <3>1. conns[v] \in Conns
      BY <2>6 DEF IInv, TypeInv, ServiceType
    <3>2. PICK c \in Conns : c = conns[v]
      BY <3>1
    <3>3. TakesOver(v, c, as, a, ConnectionUpdated(v, c, as, a))
      BY <1>2, <2>3, ConnectionUpdatedSound
    <3>4. TakesOver(v, c, as, a, c)
      BY DEF TakesOver
    <3>5. cs[v] = IF a \in links[v] THEN ConnectionUpdated(v, c, as, a) ELSE c
      BY <2>5, <2>6, <3>2
    <3>6. TakesOver(v, conns[v], as, a, cs[v])
      BY <3>2, <3>3, <3>4, <3>5
    <3> QED
      BY <2>6, <3>1, <3>6 DEF IInv, Agree, Owned, ConnsOwned
  <2>8. /\ conns' \in [DOMAIN conns' -> Conns] /\ DOMAIN conns' \subseteq Vpns
        /\ switch' \in [DOMAIN conns' -> [state : BOOLEAN, enabled : BOOLEAN]]
        /\ Agree' /\ ConnsOwned'
    BY <2>3, <2>4, <2>6, <2>7, ListTold
  <2>9. ActsOwned'
    BY <2>2, <2>4 DEF ActsOwned, Mine, nmVars
  <2> QED
    BY <1>0, <2>2, <2>3, <2>8, <2>9 DEF ServiceType, IInv, TypeInv
<1> QED
  BY <1>1, <1>2

LEMMA NewStep ==
    ASSUME IInv, NEW v \in Vpns, HandleNew(v), UNCHANGED nmVars, notified' = notified
    PROVE  ServiceType' /\ Agree' /\ ActsOwned' /\ ConnsOwned'
<1>0. UNCHANGED <<acts, hooks>>
  BY DEF HandleNew
<1>1. /\ conns' \in [DOMAIN conns' -> Conns] /\ DOMAIN conns' \subseteq Vpns
      /\ switch' \in [DOMAIN conns' -> [state : BOOLEAN, enabled : BOOLEAN]]
      /\ Agree' /\ ConnsOwned'
  <2>1. CASE v \in DOMAIN conns \/ v \notin Present
    <3>1. UNCHANGED <<conns, mgr, switch>>
      BY <2>1 DEF HandleNew
    <3> QED
      BY <3>1, ConnectionsStay
  <2>2. CASE ~(v \in DOMAIN conns \/ v \notin Present)
    <3>1. PICK a \in (IF Matches(v, acts) = {} THEN {NoPath} ELSE Matches(v, acts)) :
              Settle(With(conns, v,
                  setActiveConnectionPath(v,
                      setOtherConnectionIsBusy(v, ActiveConnectionsUpdated(v, NewVpn, acts, a),
                                               mgr.busy), mgr.path)))
      BY <2>2 DEF HandleNew
    <3>2. PICK as : as = acts
      OBVIOUS
    <3>3. PICK c : c = ActiveConnectionsUpdated(v, NewVpn, as, a)
      OBVIOUS
    <3>4. NewVpn \in Conns /\ NewVpn.path = NoPath
      BY DEF NewVpn, Conns
    <3>5. as \in [DOMAIN as -> Objects] /\ DOMAIN as \subseteq Paths
      BY <3>2 DEF IInv, TypeInv, ServiceType
    <3>6. TakesOver(v, NewVpn, as, a, c)
      BY <3>1, <3>2, <3>3, <3>4, <3>5, ActiveConnectionsUpdatedSound
    <3>7. c \in Conns /\ (c.path # NoPath => Mine(c.path, v))
      BY <3>2, <3>4, <3>6 DEF TakesOver, IInv, Owned, ActsOwned
    <3>8. mgr = ManagerOf(conns) /\ mgr.busy \in BOOLEAN /\ mgr.path \in Vpns \cup {NoPath}
      BY ManagerType DEF IInv, Agree, TypeInv, ServiceType
    <3>9. PICK b \in BOOLEAN, p \in Vpns \cup {NoPath} : b = mgr.busy /\ p = mgr.path
      BY <3>8
    <3>10. PICK e : e = setOtherConnectionIsBusy(v, c, b)
      OBVIOUS
    <3>11. /\ e \in Conns /\ e.path = c.path
           /\ e.otherBusy = b
      BY <3>7, <3>10, SetBusy
    <3>12. PICK d : d = setActiveConnectionPath(v, e, p)
      OBVIOUS
    <3>13. /\ d \in Conns /\ d.path = c.path
           /\ d.otherBusy = b /\ d.otherPath = p
           /\ d.activatable = (~b /\ p \in {NoPath, v})
      BY <3>11, <3>12, SetPath
    <3>14. PICK cs : cs = With(conns, v, d)
      OBVIOUS
    <3>15. Settle(cs)
      BY <3>1, <3>2, <3>3, <3>9, <3>10, <3>12, <3>14
    <3>16. /\ DOMAIN cs = DOMAIN conns \cup {v} /\ cs[v] = d
           /\ \A w \in DOMAIN conns : cs[w] = conns[w]
           /\ cs = [w \in DOMAIN cs |-> cs[w]]
      BY <2>2, <3>14 DEF With
    <3>17. cs \in [DOMAIN cs -> Conns] /\ DOMAIN cs \subseteq Vpns
      BY <3>13, <3>16 DEF IInv, TypeInv, ServiceType
    <3>18. \A w \in DOMAIN cs : /\ Copies(mgr, w, cs[w])
                                /\ cs[w].path # NoPath => Mine(cs[w].path, w)
      <4>1. Copies(mgr, v, d)
        BY <3>9, <3>13 DEF Copies
      <4>2. d.path # NoPath => Mine(d.path, v)
        BY <3>7, <3>13
      <4> QED
        BY <3>16, <4>1, <4>2 DEF IInv, Agree, Owned, ConnsOwned
    <3> QED
      BY <3>15, <3>17, <3>18, ConnectionsMove
  <2> QED
    BY <2>1, <2>2
<1> QED
  BY <1>0, <1>1 DEF IInv, TypeInv, ServiceType, Owned, ActsOwned, Mine, nmVars

LEMMA RemovedStep ==
    ASSUME IInv, NEW v \in Vpns, HandleRemoved(v), UNCHANGED nmVars, notified' = notified
    PROVE  ServiceType' /\ Agree' /\ ActsOwned' /\ ConnsOwned'
<1>0. UNCHANGED <<acts, hooks>>
  BY DEF HandleRemoved
<1>1. /\ conns' \in [DOMAIN conns' -> Conns] /\ DOMAIN conns' \subseteq Vpns
      /\ switch' \in [DOMAIN conns' -> [state : BOOLEAN, enabled : BOOLEAN]]
      /\ Agree' /\ ConnsOwned'
  <2>1. CASE v \notin DOMAIN conns
    <3>1. UNCHANGED <<conns, mgr, switch>>
      BY <2>1 DEF HandleRemoved
    <3> QED
      BY <3>1, ConnectionsStay
  <2>2. CASE v \in DOMAIN conns
    <3>1. PICK cs : cs = [w \in DOMAIN conns \ {v} |-> conns[w]]
      OBVIOUS
    <3>2. Settle(cs)
      BY <2>2, <3>1 DEF HandleRemoved
    <3>3. /\ cs \in [DOMAIN cs -> Conns] /\ DOMAIN cs \subseteq Vpns
          /\ \A w \in DOMAIN cs : w \in DOMAIN conns /\ cs[w] = conns[w]
      BY <3>1 DEF IInv, TypeInv, ServiceType
    <3>4. \A w \in DOMAIN cs : /\ Copies(mgr, w, cs[w])
                               /\ cs[w].path # NoPath => Mine(cs[w].path, w)
      BY <3>3 DEF IInv, Agree, Owned, ConnsOwned
    <3> QED
      BY <3>2, <3>3, <3>4, ConnectionsMove
  <2> QED
    BY <2>1, <2>2
<1> QED
  BY <1>0, <1>1 DEF IInv, TypeInv, ServiceType, Owned, ActsOwned, Mine, nmVars

(* A failure is shown once: its signal was the only one, and there is one  *)
(* hook for it.                                                            *)
LEMMA VpnStateStep ==
    ASSUME IInv, UNCHANGED nmVars, sig # <<>>, sig' = Tail(sig), Head(sig).kind = "vpn",
           HandleVpnState(Head(sig).path, Head(sig).state, Head(sig).reason)
    PROVE  ServiceType' /\ Agree' /\ ActsOwned' /\ ConnsOwned' /\ FailsOnce'
<1> DEFINE a == Head(sig).path
           fails == a \in DOMAIN acts /\ acts[a].type = "vpn" /\ FailAt(1, a)
<1>1. UNCHANGED <<conns, mgr, switch, acts, hooks>>
  BY DEF HandleVpnState
<1>2. /\ a \in Paths /\ 1 \in DOMAIN sig /\ Head(sig) = sig[1]
      /\ notified' = IF fails THEN [notified EXCEPT ![a] = @ + hooks[a]] ELSE notified
  <2>1. Head(sig) \in Signals /\ 1 \in DOMAIN sig /\ Head(sig) = sig[1]
    BY Taken DEF IInv
  <2>2. a \in Paths
    BY <2>1 DEF Signals
  <2>3. FailAt(1, a) <=> Failure(Head(sig).state, Head(sig).reason)
    BY <2>1 DEF FailAt
  <2>4. fails => notified' = [notified EXCEPT ![a] = @ + hooks[a]]
    BY <2>3 DEF HandleVpnState
  <2>5. ~fails => notified' = notified
    BY <2>3 DEF HandleVpnState
  <2> QED
    BY <2>1, <2>2, <2>4, <2>5
<1>3. fails => notified[a] = 0 /\ Over(a)
  BY <1>2 DEF IInv, FailsOnce
<1> HIDE DEF fails, a
<1>4. /\ notified' \in [Paths -> {0, 1}]
      /\ \A b \in Paths : notified'[b] # notified[b] => b = a /\ fails
  BY <1>2, <1>3 DEF IInv, TypeInv, ServiceType
<1>5. ServiceType' /\ Agree' /\ ActsOwned' /\ ConnsOwned'
  BY <1>1, <1>4 DEF IInv, TypeInv, ServiceType, Agree, Owned, ActsOwned, ConnsOwned, Mine, nmVars
<1>6. \A b \in Paths : Over(b)' = Over(b)
  BY DEF Over, nmVars
<1>7. \A i \in DOMAIN sig', b \in Paths : FailAt(i, b)' => FailAt(i + 1, b)
  BY Taken DEF FailAt, IInv
<1>8. \A b \in Paths : notified'[b] = 1 => Over(b)'
  BY <1>3, <1>4, <1>6 DEF IInv, FailsOnce
<1>9. \A b \in Paths : \A i \in DOMAIN sig' : FailAt(i, b)' => Over(b)' /\ notified'[b] = 0
  <2> SUFFICES ASSUME NEW b \in Paths, NEW i \in DOMAIN sig', FailAt(i, b)'
               PROVE  Over(b)' /\ notified'[b] = 0
    BY DEF FailAt
  <2>1. i + 1 \in DOMAIN sig /\ FailAt(i + 1, b) /\ i + 1 # 1
    BY <1>7, Taken DEF IInv
  <2>2. Over(b) /\ notified[b] = 0
    BY <2>1 DEF IInv, FailsOnce
  <2>3. ~(b = a /\ fails)
    BY <1>2, <2>1 DEF IInv, FailsOnce, fails
  <2> QED
    BY <1>4, <1>6, <2>2, <2>3
<1>10. \A b \in Paths : \A i, j \in DOMAIN sig' : FailAt(i, b)' /\ FailAt(j, b)' => i = j
  <2> SUFFICES ASSUME NEW b \in Paths, NEW i \in DOMAIN sig', NEW j \in DOMAIN sig',
                      FailAt(i, b)', FailAt(j, b)'
               PROVE  i = j
    BY DEF FailAt
  <2>1. i + 1 = j + 1
    BY <1>7, Taken DEF IInv, FailsOnce
  <2> QED
    BY <2>1, Taken DEF IInv
<1> QED
  BY <1>5, <1>8, <1>9, <1>10 DEF FailsOnce, FailAt

LEMMA SignalStep ==
    ASSUME IInv, HandleSignal
    PROVE  IInv'
<1> DEFINE s == Head(sig)
<1>1. /\ sig # <<>> /\ sig' = Tail(sig) /\ UNCHANGED nmVars /\ UNCHANGED req
      /\ s.kind # "vpn" => notified' = notified
  BY DEF HandleSignal, nmVars
<1>2. s \in Signals /\ sig' \in Seq(Signals)
  BY <1>1, Taken DEF IInv
<1>3. NMType' /\ NMOwned' /\ ReqOwned'
  BY <1>1, <1>2, NMStays DEF IInv, TypeInv, NMType, Owned, ReqOwned, Mine, nmVars
<1>4. s.kind # "vpn" => FailsOnce'
  BY <1>1, TakenFails DEF IInv, nmVars
<1>5. ServiceType' /\ Agree' /\ ActsOwned' /\ ConnsOwned' /\ FailsOnce'
  <2>1. CASE s.kind = "list" /\ HandleList(s.list)
    <3>1. PICK list \in SUBSET Paths : list = s.list
      BY <1>2, <2>1 DEF Signals
    <3> QED
      BY <1>1, <1>4, <2>1, <3>1, ListStep
  <2>2. CASE s.kind = "state" /\ HandleState(s.path, s.state)
    <3>1. PICK a \in Paths, state \in States : a = s.path /\ state = s.state
      BY <1>2, <2>2 DEF Signals
    <3> QED
      BY <1>1, <1>4, <2>2, <3>1, StateStep
  <2>3. CASE s.kind = "vpn" /\ HandleVpnState(s.path, s.state, s.reason)
    BY <1>1, <2>3, VpnStateStep
  <2>4. CASE s.kind = "new" /\ HandleNew(s.vpn)
    <3>1. PICK v \in Vpns : v = s.vpn
      BY <1>2, <2>4 DEF Signals
    <3> QED
      BY <1>1, <1>4, <2>4, <3>1, NewStep
  <2>5. CASE s.kind = "removed" /\ HandleRemoved(s.vpn)
    <3>1. PICK v \in Vpns : v = s.vpn
      BY <1>2, <2>5 DEF Signals
    <3> QED
      BY <1>1, <1>4, <2>5, <3>1, RemovedStep
  <2> QED
    BY <2>1, <2>2, <2>3, <2>4, <2>5 DEF HandleSignal
<1> QED
  BY <1>3, <1>5 DEF IInv, TypeInv, Owned

-----------------------------------------------------------------------------
(* The invariant                                                           *)

(* The manager's values at the start, before it has read anything. *)
Fresh == [busy |-> FALSE, path |-> NoPath]

FirstMatch(v, as) == IF Matches(v, as) = {} THEN NoPath
                     ELSE CHOOSE a \in Matches(v, as) : TRUE

(* The connections as they are read, and once each knows if it can be switched. *)
Read(as) == [v \in Present |-> ActiveConnectionsUpdated(v, NewVpn, as, FirstMatch(v, as))]
Started(cs) == [v \in DOMAIN cs |-> updateActivatable(v, cs[v])]

Unread(c) == c \in Conns /\ c.otherBusy = FALSE /\ c.otherPath = NoPath

StartsAs(v, c, d) ==
    /\ d \in Conns /\ d.active = c.active /\ d.busy = c.busy
    /\ d.path = c.path /\ Copies(Fresh, v, d)

LEMMA UpdateActivatable ==
    ASSUME NEW v, NEW c, Unread(c)
    PROVE  StartsAs(v, c, updateActivatable(v, c))
<1> DEFINE d == updateActivatable(v, c)
<1>1. /\ d \in Conns /\ d.active = c.active /\ d.busy = c.busy /\ d.path = c.path
      /\ d.otherBusy = FALSE /\ d.otherPath = NoPath /\ d.activatable = TRUE
  BY DEF updateActivatable, Conns, Unread
<1>2. Fresh.busy = FALSE /\ Fresh.path = NoPath
  BY DEF Fresh
<1> HIDE DEF d
<1>3. Copies(Fresh, v, d)
  BY <1>1, <1>2 DEF Copies
<1>4. StartsAs(v, c, d)
  BY <1>1, <1>3 DEF StartsAs
<1> QED
  BY <1>4 DEF d

LEMMA StartedSound ==
    ASSUME NEW cs, DOMAIN cs \subseteq Vpns,
           \A v \in DOMAIN cs : Unread(cs[v])
    PROVE  /\ Started(cs) \in [DOMAIN cs -> Conns] /\ DOMAIN Started(cs) = DOMAIN cs
           /\ \A v \in DOMAIN cs : StartsAs(v, cs[v], Started(cs)[v])
           /\ ManagerOf(Started(cs)) = ManagerOf(cs)
<1>1. /\ DOMAIN Started(cs) = DOMAIN cs
      /\ Started(cs) = [v \in DOMAIN cs |-> Started(cs)[v]]
      /\ \A v \in DOMAIN cs : Started(cs)[v] = updateActivatable(v, cs[v])
  BY DEF Started
<1>2. \A v \in DOMAIN cs : StartsAs(v, cs[v], Started(cs)[v])
  BY <1>1, UpdateActivatable
<1>3. \A v \in DOMAIN cs : /\ Started(cs)[v] \in Conns
                           /\ Started(cs)[v].active = cs[v].active
                           /\ Started(cs)[v].busy = cs[v].busy
  BY <1>2 DEF StartsAs
<1>4. Started(cs) \in [DOMAIN cs -> Conns]
  BY <1>1, <1>3
<1>5. ManagerOf(Started(cs)) = ManagerOf(cs)
  BY <1>1, <1>3, SameManager
<1> QED
  BY <1>1, <1>2, <1>4, <1>5

LEMMA InitIInv == Init => IInv
<1> SUFFICES ASSUME Init PROVE IInv
  OBVIOUS
<1>1. /\ nmVpns \in [Vpns -> {"absent", "present", "deleted"}] /\ Present \subseteq Vpns
      /\ sig = <<>> /\ req = <<>> /\ notified = [a \in Paths |-> 0]
  BY DEF Init, Present
<1>2. /\ nmActive \in [DOMAIN nmActive -> [conn : Vpns, state : States]]
      /\ DOMAIN nmActive \subseteq Actives
      /\ owner = [a \in Paths |-> IF a \in DOMAIN nmActive THEN nmActive[a].conn ELSE NoPath]
  <2>0. PICK start \in {Empty} \cup {With(Empty, a, [conn |-> v, state |-> "activated"]) :
                                     a \in {b \in Actives : \A c \in Actives : b <= c},
                                     v \in Present} :
            /\ nmActive = start
            /\ owner = [a \in Paths |-> IF a \in DOMAIN start THEN start[a].conn ELSE NoPath]
    BY DEF Init
  <2>1. CASE start = Empty
    BY <2>0, <2>1 DEF Empty
  <2>2. CASE start # Empty
    <3>1. PICK a \in Actives, v \in Present :
              start = With(Empty, a, [conn |-> v, state |-> "activated"])
      BY <2>0, <2>2
    <3>2. start = [z \in {a} |-> [conn |-> v, state |-> "activated"]]
      BY <3>1 DEF With, Empty
    <3> QED
      BY <1>1, <2>0, <3>2 DEF States
  <2> QED
    BY <2>1, <2>2
<1>3. owner \in [Paths -> Vpns \cup {NoPath}] /\ NMOwned
  BY <1>2, VpnsAssumption, OtherAssumption DEF NMOwned, Mine, Paths, NoPath
<1>4. NMType
  BY <1>1, <1>2, <1>3 DEF NMType, Paths
<1>5. /\ acts \in [DOMAIN acts -> Objects] /\ DOMAIN acts = DOMAIN nmActive
      /\ ActsOwned
  <2>1. acts = [a \in DOMAIN nmActive |-> ReadActive(a)]
    BY DEF Init
  <2>2. \A a \in DOMAIN nmActive :
            /\ ReadActive(a) \in Objects
            /\ ReadActive(a).conn = nmActive[a].conn
    BY <1>2 DEF ReadActive, Objects
  <2> QED
    BY <1>2, <1>3, <2>1, <2>2, OtherAssumption DEF ActsOwned, NMOwned
<1>6. hooks \in [Paths -> {0, 1}]
  BY DEF Init
<1>7. /\ conns = UpdateActiveAndBusy(Fresh, Started(Read(acts)))
      /\ mgr = ManagerOf(Read(acts))
  BY DEF Init, Fresh, Started, Read, FirstMatch
<1>8. PICK cs : cs = Read(acts)
  OBVIOUS
<1>9. DOMAIN cs = Present /\ \A v \in Present : Unread(cs[v])
                                              /\ (cs[v].path # NoPath => Mine(cs[v].path, v))
  <2>0. DOMAIN cs = Present
    BY <1>8 DEF Read
  <2> SUFFICES ASSUME NEW v \in Present
               PROVE  Unread(cs[v]) /\ (cs[v].path # NoPath => Mine(cs[v].path, v))
    BY <2>0
  <2>1. PICK a : a = FirstMatch(v, acts)
    OBVIOUS
  <2>2. Matches(v, acts) = {} \/ a \in Matches(v, acts)
    BY <2>1 DEF FirstMatch
  <2>3. Unread(NewVpn) /\ NewVpn.path = NoPath
    BY DEF NewVpn, Conns, Unread
  <2>4. TakesOver(v, NewVpn, acts, a, ActiveConnectionsUpdated(v, NewVpn, acts, a))
    <3>1. PICK as : as = acts
      OBVIOUS
    <3>2. /\ as \in [DOMAIN as -> Objects] /\ DOMAIN as \subseteq Paths
          /\ Matches(v, as) = {} \/ a \in Matches(v, as)
      BY <1>2, <1>5, <2>2, <3>1 DEF Paths
    <3>3. TakesOver(v, NewVpn, as, a, ActiveConnectionsUpdated(v, NewVpn, as, a))
      <4>1. NewVpn \in Conns
        BY <2>3 DEF Unread
      <4> QED
        BY <3>2, <4>1, ActiveConnectionsUpdatedSound
    <3> QED
      BY <3>1, <3>3
  <2>5. cs[v] = ActiveConnectionsUpdated(v, NewVpn, acts, a)
    BY <1>8, <2>1 DEF Read
  <2>6. /\ Unread(cs[v])
        /\ \/ cs[v].path = NoPath
           \/ a \in DOMAIN acts /\ cs[v].path = a /\ acts[a].type = "vpn" /\ acts[a].conn = v
    BY <2>3, <2>4, <2>5 DEF TakesOver, Unread
  <2> QED
    BY <1>5, <2>6 DEF ActsOwned
<1>10. /\ Started(cs) \in [DOMAIN cs -> Conns] /\ DOMAIN Started(cs) = DOMAIN cs
       /\ \A v \in DOMAIN cs : StartsAs(v, cs[v], Started(cs)[v])
       /\ ManagerOf(Started(cs)) = ManagerOf(cs)
  BY <1>1, <1>9, StartedSound
<1>11. PICK start0 : start0 = Started(cs)
  OBVIOUS
<1>12. /\ conns \in [DOMAIN start0 -> Conns] /\ DOMAIN conns = Present /\ DOMAIN start0 = Present
       /\ mgr = ManagerOf(conns)
       /\ \A v \in DOMAIN start0 : conns[v].path = cs[v].path /\ Copies(mgr, v, conns[v])
  <2>1. conns = UpdateActiveAndBusy(Fresh, start0)
    BY <1>7, <1>8, <1>11
  <2>2. /\ start0 \in [DOMAIN start0 -> Conns] /\ DOMAIN start0 \subseteq Vpns
        /\ \A v \in DOMAIN start0 : Copies(Fresh, v, start0[v]) /\ start0[v].path = cs[v].path
        /\ DOMAIN start0 = Present
    BY <1>1, <1>9, <1>10, <1>11 DEF StartsAs
  <2>3. mgr = ManagerOf(start0)
    BY <1>7, <1>8, <1>10, <1>11
  <2> QED
    BY <2>1, <2>2, <2>3, CopiesFollow
<1>13. /\ switch \in [DOMAIN conns -> [state : BOOLEAN, enabled : BOOLEAN]]
       /\ \A v \in DOMAIN conns : switch[v].enabled = conns[v].activatable
  <2>1. switch = [v \in Present |-> [state |-> conns[v].active,
                                     enabled |-> conns[v].activatable]]
    BY DEF Init
  <2>2. \A v \in Present : conns[v].active \in BOOLEAN /\ conns[v].activatable \in BOOLEAN
    BY <1>12 DEF Conns
  <2> QED
    BY <1>12, <2>1, <2>2
<1>14. ConnsOwned /\ Agree
  BY <1>9, <1>12, <1>13 DEF ConnsOwned, Agree
<1>15. ServiceType
  BY <1>1, <1>2, <1>5, <1>6, <1>12, <1>13 DEF ServiceType, Paths
<1>16. ReqOwned /\ FailsOnce
  BY <1>1 DEF ReqOwned, FailsOnce
<1> QED
  BY <1>3, <1>4, <1>5, <1>14, <1>15, <1>16 DEF IInv, TypeInv, Owned

LEMMA StutterStep == ASSUME IInv, UNCHANGED vars PROVE IInv'
<1>1. TypeInv' /\ Owned'
  BY DEF IInv, TypeInv, NMType, ServiceType, Owned, NMOwned, ActsOwned, ConnsOwned, ReqOwned,
         Mine, vars
<1>2. Agree'
  BY DEF IInv, Agree, vars
<1>3. FailsOnce'
  BY DEF IInv, FailsOnce, FailAt, Over, vars
<1> QED
  BY <1>1, <1>2, <1>3 DEF IInv

LEMMA NextIInv == IInv /\ [Next]_vars => IInv'
<1> SUFFICES ASSUME IInv, [Next]_vars PROVE IInv'
  OBVIOUS
<1>1. ASSUME NEW v \in Vpns, NEW on \in BOOLEAN, ClientSetActive(v, on) PROVE IInv'
  BY <1>1, SetActiveStep DEF ClientSetActive, nmVars
<1>2. ASSUME NEW v \in Vpns, ToggleSwitch(v) PROVE IInv'
  BY <1>2, ToggleStep
<1>3. CASE HandleSignal
  BY <1>3, SignalStep
<1>4. ASSUME NEW a \in Actives, NMActivate(a) \/ NMProgress(a) \/ NMStopped(a) PROVE IInv'
  BY <1>4, ActivateStep, ProgressStep, StoppedStep
<1>5. CASE NMRefuse \/ NMDeactivate \/ NMOther
  BY <1>5, RefuseStep, DeactivateStep, OtherStep
<1>6. ASSUME NEW v \in Vpns, AddConnection(v) \/ RemoveConnection(v) PROVE IInv'
  BY <1>6, SettingsStep
<1>7. CASE UNCHANGED vars
  BY <1>7, StutterStep
<1> QED
  BY <1>1, <1>2, <1>3, <1>4, <1>5, <1>6, <1>7 DEF Next

LEMMA AgreeIsFree == IInv => OneAtATime
<1> SUFFICES ASSUME IInv, NEW v \in DOMAIN conns
             PROVE  LET free == /\ \A w \in DOMAIN conns : ~conns[w].busy
                                /\ (\E w \in DOMAIN conns : conns[w].active)
                                       => v = FirstActive(conns)
                    IN  conns[v].activatable = free /\ switch[v].enabled = free
  BY DEF OneAtATime
<1> DEFINE some == \E w \in DOMAIN conns : conns[w].active
           none == \A w \in DOMAIN conns : ~conns[w].busy
<1>1. IF some THEN FirstActive(conns) \in DOMAIN conns ELSE FirstActive(conns) = NoPath
  BY FirstIsActive DEF IInv, TypeInv, ServiceType
<1>2. NoPath \notin DOMAIN conns
  BY VpnsAssumption DEF IInv, TypeInv, ServiceType, NoPath
<1>3. conns[v].activatable \in BOOLEAN /\ switch[v].enabled = conns[v].activatable
  BY DEF IInv, TypeInv, ServiceType, Agree, Conns
<1>4. mgr.path = FirstActive(conns) /\ (~mgr.busy <=> none)
  BY DEF IInv, Agree, ManagerOf, AnyBusy
<1>5. conns[v].activatable <=> ~mgr.busy /\ mgr.path \in {NoPath, v}
  BY DEF IInv, Agree, Copies
<1>6. mgr.path \in {NoPath, v} <=> (some => v = FirstActive(conns))
  BY <1>1, <1>2, <1>4
<1> QED
  BY <1>3, <1>4, <1>5, <1>6

-----------------------------------------------------------------------------
(* Every copy of the manager's values agrees with what the connections     *)
(* show, so a connection is switchable exactly when no VPN is busy and no  *)
(* other one is active (VpnManager::updateActiveAndBusy()).                *)
THEOREM VpnOneAtATime == Spec => []OneAtATime
<1>1. Spec => []IInv
  BY InitIInv, NextIInv, PTL DEF Spec
<1> QED
  BY <1>1, AgreeIsFree, PTL

(* A path is only ever recorded for the connection it was made for, so a   *)
(* call to DeactivateConnection never names another one's.                 *)
THEOREM VpnRightDeactivate == Spec => []RightDeactivate
<1>1. IInv => RightDeactivate
  BY DEF IInv, Owned, ReqOwned, Mine, RightDeactivate
<1> QED
  BY <1>1, InitIInv, NextIInv, PTL DEF Spec

(* The notifier's message of a failure is sent once and heard once.        *)
THEOREM VpnNotifiedOnce == Spec => []NotifiedOnce
<1>1. IInv => NotifiedOnce
  BY DEF IInv, TypeInv, ServiceType, NotifiedOnce
<1> QED
  BY <1>1, InitIInv, NextIInv, PTL DEF Spec

-----------------------------------------------------------------------------
(* ShownIsActive: what a connection shows agrees with the active           *)
(* connections the program knows, and those with NetworkManager once every *)
(* signal is handled.                                                      *)

(* The lists of active connections, oldest first: the one the program      *)
(* knows at place 0, and those on their way in s.                          *)
IsList(s, i) == i = 0 \/ (i \in DOMAIN s /\ s[i].kind = "list")
ListAt(s, known, i) == IF i = 0 THEN known ELSE s[i].list
Places(s) == 0 .. Len(s)

(* The last of them is NetworkManager's, and no two in a row are the same, *)
(* or the program would take no notice of the second.                      *)
Lists(s, known, current) ==
    /\ \A i \in Places(s) : IsList(s, i) /\ (\A j \in Places(s) : j > i => ~IsList(s, j))
                                => ListAt(s, known, i) = current
    /\ \A i, j \in Places(s) : /\ i < j /\ IsList(s, i) /\ IsList(s, j)
                               /\ \A k \in Places(s) : i < k /\ k < j => ~IsList(s, k)
                               => ListAt(s, known, i) # ListAt(s, known, j)

(* The last signal of an active connection tells its state; if there is    *)
(* none on its way, then what was read is its state.                       *)
IsState(s, i, a) == i \in DOMAIN s /\ s[i].kind = "state" /\ s[i].path = a
Tells(s, a, read, state) ==
    /\ \A i \in DOMAIN s : IsState(s, i, a) /\ (\A j \in DOMAIN s : j > i => ~IsState(s, j, a))
                               => s[i].state = state
    /\ (\A i \in DOMAIN s : ~IsState(s, i, a)) => \A x \in read : x = state

ReadStates(a) == IF a \in DOMAIN acts THEN {acts[a].state} ELSE {}

ListsTold == Lists(sig, DOMAIN acts, DOMAIN nmActive)
StatesTold ==
    \A a \in DOMAIN nmActive \ {Other} :
        /\ Tells(sig, a, ReadStates(a), nmActive[a].state)
        /\ a \in DOMAIN acts => acts[a].type = "vpn"

(* Nothing is known of an active connection before it is made. *)
Made == {a \in Paths : a # Other => owner[a] # NoPath}
MadeOnly ==
    /\ DOMAIN acts \subseteq Made
    /\ \A i \in DOMAIN sig : /\ sig[i].kind = "list" => sig[i].list \subseteq Made
                             /\ sig[i].kind = "state" => sig[i].path \in Made

ActsVpn == \A a \in DOMAIN acts : acts[a].conn # NoPath => acts[a].type = "vpn"

(* An activation that is shown before there is an active connection for it:*)
(* it is still asked for, was refused, or a new list is on its way.        *)
Asked(v) == \E i \in DOMAIN req : req[i].call = "Activate" /\ req[i].vpn = v
ListComes == \E i \in DOMAIN sig : sig[i].kind = "list"
Early(v) == Asked(v) \/ v \in refused \/ ListComes

(* What the connection v, being c, shows of the active connections as it   *)
(* listens to.                                                             *)
Shows(v, c, as, listens) ==
    IF Matches(v, as) = {}
    THEN c.path = NoPath /\ ~c.busy
    ELSE /\ c.path \in Matches(v, as) \cap listens
         /\ STATE_ACTIVE_MAP(as[c.path].state) => c.active
         /\ c.busy <=> STATE_BUSY_MAP(as[c.path].state)

ShownInv ==
    \A v \in DOMAIN conns :
        /\ Shows(v, conns[v], acts, links[v])
        /\ conns[v].active /\ Matches(v, acts) = {} => Early(v)

ToldInv == ListsTold /\ StatesTold /\ MadeOnly /\ ActsVpn /\ ShownInv

LEMMA AppendPlaces ==
    ASSUME NEW s \in Seq(Signals), NEW m \in Signals, NEW t, t = Append(s, m)
    PROVE  /\ t \in Seq(Signals) /\ Len(t) = Len(s) + 1 /\ Len(s) \in Nat
           /\ DOMAIN s = 1 .. Len(s) /\ DOMAIN t = 1 .. (Len(s) + 1)
           /\ \A i \in DOMAIN s : t[i] = s[i]
           /\ t[Len(s) + 1] = m
BY AppendProperties

LEMMA TailPlaces ==
    ASSUME NEW s \in Seq(Signals), s # <<>>, NEW t, t = Tail(s)
    PROVE  /\ t \in Seq(Signals) /\ Len(s) \in Nat \ {0} /\ Len(t) = Len(s) - 1
           /\ DOMAIN s = 1 .. Len(s) /\ DOMAIN t = 1 .. (Len(s) - 1)
           /\ \A i \in DOMAIN t : i + 1 \in DOMAIN s /\ t[i] = s[i + 1]
           /\ Head(s) = s[1]
<1>1. Len(s) \in Nat \ {0}
  BY EmptySeq, LenProperties
<1>2. /\ t \in Seq(Signals) /\ Len(t) = Len(s) - 1 /\ Head(s) = s[1]
      /\ \A i \in 1 .. Len(t) : t[i] = s[i + 1]
  BY HeadTailProperties
<1>3. DOMAIN s = 1 .. Len(s) /\ DOMAIN t = 1 .. (Len(s) - 1)
  BY <1>1, <1>2, LenProperties
<1> QED
  BY <1>1, <1>2, <1>3

(* A signal that is no list is sent. *)
LEMMA ListsKept ==
    ASSUME NEW s \in Seq(Signals), NEW known, NEW current, Lists(s, known, current),
           NEW m \in Signals, m.kind # "list", NEW t, t = Append(s, m)
    PROVE  Lists(t, known, current)
<1>1. \A i \in Places(t) : IsList(t, i) <=> i \in Places(s) /\ IsList(s, i)
  BY AppendPlaces DEF Places, IsList
<1>2. \A i \in Places(s) : i \in Places(t)
  BY AppendPlaces DEF Places
<1>3. \A i \in Places(s) : IsList(s, i) => ListAt(t, known, i) = ListAt(s, known, i)
  BY AppendPlaces DEF ListAt, IsList
<1> QED
  BY <1>1, <1>2, <1>3 DEF Lists

(* A new list is sent. *)
LEMMA ListsGrow ==
    ASSUME NEW s \in Seq(Signals), NEW known, NEW current, Lists(s, known, current),
           NEW next, next # current, NEW m \in Signals, m.kind = "list", m.list = next,
           NEW t, t = Append(s, m)
    PROVE  Lists(t, known, next)
<1> DEFINE n == Len(s) + 1
<1>0. /\ n \in Nat \ {0} /\ Places(t) = Places(s) \cup {n} /\ \A i \in Places(s) : i \in Nat /\ i < n
  BY AppendPlaces DEF Places
<1>1. /\ IsList(t, n) /\ ListAt(t, known, n) = next
      /\ \A i \in Places(s) : IsList(t, i) <=> IsList(s, i)
  BY AppendPlaces DEF Places, IsList, ListAt
<1>2. \A i \in Places(s) : IsList(s, i) => ListAt(t, known, i) = ListAt(s, known, i)
  BY AppendPlaces DEF ListAt, IsList
<1> HIDE DEF n
<1>3. ASSUME NEW i \in Places(t), IsList(t, i), \A j \in Places(t) : j > i => ~IsList(t, j)
      PROVE  ListAt(t, known, i) = next
  <2>1. i = n
    BY <1>0, <1>1, <1>3
  <2> QED
    BY <1>1, <2>1
<1>4. ASSUME NEW i \in Places(t), NEW j \in Places(t), i < j, IsList(t, i), IsList(t, j),
             \A k \in Places(t) : i < k /\ k < j => ~IsList(t, k)
      PROVE  ListAt(t, known, i) # ListAt(t, known, j)
  <2>1. i \in Places(s)
    BY <1>0, <1>4
  <2>2. CASE j = n
    <3>1. \A k \in Places(s) : k > i => ~IsList(s, k)
      BY <1>0, <1>1, <1>4, <2>1, <2>2
    <3>2. ListAt(s, known, i) = current
      BY <1>1, <1>4, <2>1, <3>1 DEF Lists
    <3> QED
      BY <1>1, <1>2, <1>4, <2>1, <2>2, <3>2
  <2>3. CASE j # n
    <3>1. j \in Places(s)
      BY <1>0, <2>3
    <3>2. \A k \in Places(s) : i < k /\ k < j => ~IsList(s, k)
      BY <1>0, <1>1, <1>4
    <3>3. ListAt(s, known, i) # ListAt(s, known, j)
      BY <1>1, <1>4, <2>1, <3>1, <3>2 DEF Lists
    <3> QED
      BY <1>1, <1>2, <1>4, <2>1, <3>1, <3>3
  <2> QED
    BY <2>2, <2>3
<1> QED
  BY <1>3, <1>4 DEF Lists

(* A signal is handled: if it is a list, the program knows it from now on. *)
LEMMA ListsTaken ==
    ASSUME NEW s \in Seq(Signals), s # <<>>, NEW known, NEW current, Lists(s, known, current),
           NEW t, t = Tail(s),
           NEW now, now = IF Head(s).kind = "list" THEN Head(s).list ELSE known
    PROVE  Lists(t, now, current) /\ (Head(s).kind = "list" => now # known)
<1> DEFINE b == IF Head(s).kind = "list" THEN 1 ELSE 0
           Old(i) == IF i = 0 THEN b ELSE i + 1
<1>0. Len(s) \in Nat \ {0} /\ Places(s) = 0 .. Len(s) /\ Places(t) = 0 .. (Len(s) - 1)
  BY TailPlaces DEF Places
<1>1. \A i \in Places(t) : Old(i) \in Places(s) /\ (IsList(s, Old(i)) <=> IsList(t, i))
  BY <1>0, TailPlaces DEF Places, IsList
<1>2. \A i \in Places(t) : IsList(t, i) => ListAt(t, now, i) = ListAt(s, known, Old(i))
  BY <1>0, TailPlaces DEF ListAt, IsList
<1>3. \A i, j \in Places(t) : i < j <=> Old(i) < Old(j)
  BY <1>0
<1>4. \A k \in Places(s) : k > b /\ IsList(s, k) => \E i \in Places(t) : k = Old(i)
  <2> SUFFICES ASSUME NEW k \in Places(s), k > b, IsList(s, k)
               PROVE  k - 1 \in Places(t) /\ k = Old(k - 1)
    OBVIOUS
  <2>1. k # 1
    BY <1>0, TailPlaces DEF IsList
  <2> QED
    BY <1>0, <2>1
<1>5. \A i \in Places(t) : Old(i) >= b
  BY <1>0
<1>6. b \in {0, 1}
  OBVIOUS
<1>7. Head(s).kind = "list" => now # known
  <2> SUFFICES ASSUME Head(s).kind = "list" PROVE now # known
    OBVIOUS
  <2>1. /\ 0 \in Places(s) /\ 1 \in Places(s) /\ IsList(s, 0) /\ IsList(s, 1)
        /\ ListAt(s, known, 0) = known /\ ListAt(s, known, 1) = now
    BY <1>0, TailPlaces DEF IsList, ListAt
  <2>2. \A k \in Places(s) : ~(0 < k /\ k < 1)
    BY <1>0
  <2>3. 0 < 1
    OBVIOUS
  <2> QED
    BY <2>1, <2>2, <2>3 DEF Lists
<1>8. \A i \in Places(t) : i \in Int /\ Old(i) \in Int
  BY <1>0, <1>6
<1>9. \A k \in Places(s) : k \in Int
  BY <1>0
<1> HIDE DEF b, Old
<1>10. ASSUME NEW i \in Places(t), IsList(t, i), \A j \in Places(t) : j > i => ~IsList(t, j)
       PROVE  ListAt(t, now, i) = current
  <2>1. \A k \in Places(s) : k > Old(i) => ~IsList(s, k)
    <3> SUFFICES ASSUME NEW k \in Places(s), k > Old(i), IsList(s, k) PROVE FALSE
      OBVIOUS
    <3>1. k > b
      BY <1>5, <1>6, <1>8, <1>9
    <3>2. PICK j \in Places(t) : k = Old(j)
      BY <1>4, <3>1
    <3>3. j > i /\ IsList(t, j)
      BY <1>1, <1>3, <1>8, <3>2
    <3> QED
      BY <1>10, <3>3
  <2> QED
    BY <1>1, <1>2, <1>10, <2>1 DEF Lists
<1>11. ASSUME NEW i \in Places(t), NEW j \in Places(t), i < j, IsList(t, i), IsList(t, j),
              \A k \in Places(t) : i < k /\ k < j => ~IsList(t, k)
       PROVE  ListAt(t, now, i) # ListAt(t, now, j)
  <2>1. \A k \in Places(s) : Old(i) < k /\ k < Old(j) => ~IsList(s, k)
    <3> SUFFICES ASSUME NEW k \in Places(s), Old(i) < k, k < Old(j), IsList(s, k) PROVE FALSE
      OBVIOUS
    <3>1. k > b
      BY <1>5, <1>6, <1>8, <1>9
    <3>2. PICK l \in Places(t) : k = Old(l)
      BY <1>4, <3>1
    <3> QED
      BY <1>1, <1>3, <1>11, <3>2
  <2>2. Old(i) < Old(j)
    BY <1>3, <1>11
  <2>3. ListAt(s, known, Old(i)) # ListAt(s, known, Old(j))
    BY <1>1, <1>11, <2>1, <2>2 DEF Lists
  <2> QED
    BY <1>2, <1>11, <2>3
<1> QED
  BY <1>7, <1>10, <1>11 DEF Lists

(* A signal about something else is sent. *)
LEMMA TellsKept ==
    ASSUME NEW s \in Seq(Signals), NEW a, NEW read, NEW state, Tells(s, a, read, state),
           NEW m \in Signals, ~(m.kind = "state" /\ m.path = a), NEW t, t = Append(s, m)
    PROVE  Tells(t, a, read, state)
<1>1. DOMAIN s \subseteq DOMAIN t /\ \A i \in DOMAIN s : t[i] = s[i]
  BY AppendPlaces
<1>2. \A i \in DOMAIN t : IsState(t, i, a) => i \in DOMAIN s
  BY AppendPlaces DEF IsState
<1>3. \A i \in DOMAIN s : IsState(t, i, a) <=> IsState(s, i, a)
  BY <1>1 DEF IsState
<1> QED
  BY <1>1, <1>2, <1>3 DEF Tells

(* The new state of an active connection is sent. *)
LEMMA TellsNew ==
    ASSUME NEW s \in Seq(Signals), NEW a, NEW read, NEW state,
           NEW m \in Signals, m.kind = "state", m.path = a, m.state = state,
           NEW t, t = Append(s, m)
    PROVE  Tells(t, a, read, state)
<1>1. /\ Len(s) + 1 \in DOMAIN t /\ t[Len(s) + 1] = m
      /\ \A i \in DOMAIN t : i # Len(s) + 1 => Len(s) + 1 > i
  BY AppendPlaces
<1>2. IsState(t, Len(s) + 1, a)
  BY <1>1 DEF IsState
<1> QED
  BY <1>1, <1>2 DEF Tells

(* A signal is handled. *)
LEMMA TellsTaken ==
    ASSUME NEW s \in Seq(Signals), s # <<>>, NEW a, NEW read, NEW state,
           Tells(s, a, read, state), NEW t, t = Tail(s)
    PROVE  /\ Head(s).kind = "state" /\ Head(s).path = a => Tells(t, a, {Head(s).state}, state)
           /\ ~(Head(s).kind = "state" /\ Head(s).path = a) => Tells(t, a, read, state)
<1>1. /\ 1 \in DOMAIN s /\ Head(s) = s[1]
      /\ \A i \in DOMAIN s : i = 1 \/ (i > 1 /\ i - 1 \in DOMAIN t)
      /\ \A i \in DOMAIN t : i \in Nat /\ i + 1 \in DOMAIN s /\ t[i] = s[i + 1] /\ i + 1 > 1
      /\ DOMAIN s \subseteq Nat
  BY TailPlaces
<1>2. \A i \in DOMAIN t : IsState(t, i, a) <=> IsState(s, i + 1, a)
  BY <1>1 DEF IsState
<1>3. ASSUME NEW i \in DOMAIN t, IsState(t, i, a), \A j \in DOMAIN t : j > i => ~IsState(t, j, a)
      PROVE  t[i].state = state
  <2>1. \A j \in DOMAIN s : j > i + 1 => ~IsState(s, j, a)
    <3> SUFFICES ASSUME NEW j \in DOMAIN s, j > i + 1, IsState(s, j, a) PROVE FALSE
      OBVIOUS
    <3>1. j - 1 \in DOMAIN t /\ j - 1 > i /\ (j - 1) + 1 = j
      BY <1>1
    <3> QED
      BY <1>2, <1>3, <3>1
  <2> QED
    BY <1>1, <1>2, <1>3, <2>1 DEF Tells
<1>4. ASSUME \A i \in DOMAIN t : ~IsState(t, i, a)
      PROVE  \A i \in DOMAIN s : IsState(s, i, a) => i = 1
  <2> SUFFICES ASSUME NEW i \in DOMAIN s, IsState(s, i, a), i # 1 PROVE FALSE
    OBVIOUS
  <2>1. i - 1 \in DOMAIN t /\ (i - 1) + 1 = i
    BY <1>1
  <2> QED
    BY <1>2, <1>4, <2>1
<1>5. ASSUME \A i \in DOMAIN t : ~IsState(t, i, a), IsState(s, 1, a)
      PROVE  Head(s).state = state
  <2>1. \A j \in DOMAIN s : j > 1 => ~IsState(s, j, a)
    BY <1>1, <1>4, <1>5
  <2> QED
    BY <1>1, <1>5, <2>1 DEF Tells
<1>6. IsState(s, 1, a) <=> Head(s).kind = "state" /\ Head(s).path = a
  BY <1>1 DEF IsState
<1>7. ASSUME ~IsState(s, 1, a), \A i \in DOMAIN t : ~IsState(t, i, a)
      PROVE  \A x \in read : x = state
  BY <1>4, <1>7 DEF Tells
<1> QED
  BY <1>3, <1>5, <1>6, <1>7 DEF Tells

(* The object is read, or forgotten. *)
LEMMA TellsRead ==
    ASSUME NEW s, NEW a, NEW read, NEW state, Tells(s, a, read, state)
    PROVE  Tells(s, a, {state}, state) /\ Tells(s, a, {}, state)
BY DEF Tells

(* A call is taken from the queue, or one is added. *)
LEMMA AskedStays ==
    ASSUME TypeInv, NEW v, Asked(v),
           \/ req' = req
           \/ \E m \in Requests : req' = Append(req, m)
           \/ /\ req # <<>> /\ req' = Tail(req)
              /\ ~(Head(req).call = "Activate" /\ Head(req).vpn = v)
    PROVE  Asked(v)'
<1>1. req \in Seq(Requests)
  BY DEF TypeInv, NMType
<1>2. PICK i \in DOMAIN req : req[i].call = "Activate" /\ req[i].vpn = v
  BY DEF Asked
<1>3. CASE req' = req
  BY <1>3 DEF Asked
<1>4. ASSUME NEW m \in Requests, req' = Append(req, m) PROVE Asked(v)'
  <2>1. i \in DOMAIN req' /\ req'[i] = req[i]
    BY <1>1, <1>4, AppendProperties
  <2> QED
    BY <1>2, <2>1 DEF Asked
<1>5. CASE /\ req # <<>> /\ req' = Tail(req)
           /\ ~(Head(req).call = "Activate" /\ Head(req).vpn = v)
  <2>1. /\ Len(req) \in Nat \ {0} /\ DOMAIN req = 1 .. Len(req) /\ Head(req) = req[1]
        /\ DOMAIN req' = 1 .. (Len(req) - 1)
        /\ \A j \in 1 .. (Len(req) - 1) : req'[j] = req[j + 1]
    BY <1>1, <1>5, HeadTailProperties, EmptySeq, LenProperties
  <2>2. i # 1
    BY <1>2, <1>5, <2>1
  <2>3. PICK n \in Nat : n = Len(req)
    BY <2>1
  <2>i. i \in 1 .. n
    BY <1>2, <2>1, <2>3, Zenon
  <2>4. i \in Int /\ i - 1 \in 1 .. (n - 1) /\ (i - 1) + 1 = i
    BY <2>2, <2>3, <2>i
  <2>5. i - 1 \in DOMAIN req' /\ req'[i - 1] = req[(i - 1) + 1]
    BY <2>1, <2>3, <2>4
  <2> QED
    BY <1>2, <2>4, <2>5 DEF Asked
<1> QED
  BY <1>3, <1>4, <1>5

(* What the program shows and knows stays as it is. *)
LEMMA ShownStays ==
    ASSUME ShownInv, UNCHANGED <<conns, acts, links>>,
           \A v \in DOMAIN conns : Early(v) => Early(v)'
    PROVE  ShownInv'
BY DEF ShownInv, Shows, Matches

(* Nothing that was made is forgotten when signals are sent. *)
LEMMA MadeStays ==
    ASSUME MadeOnly, UNCHANGED acts, Made \subseteq Made',
           \A i \in DOMAIN sig' :
               \/ i \in DOMAIN sig /\ sig'[i] = sig[i]
               \/ /\ sig'[i].kind = "list" => sig'[i].list \subseteq Made'
                  /\ sig'[i].kind = "state" => sig'[i].path \in Made'
    PROVE  MadeOnly'
BY DEF MadeOnly

(* Signals are sent, and what is shown stays. *)
LEMMA ShownSent ==
    ASSUME TypeInv, ToldInv, UNCHANGED <<conns, acts, links>>,
           \/ ListComes'
           \/ /\ refused \subseteq refused' /\ \A v \in Vpns : Asked(v) => Asked(v)'
              /\ \A i \in DOMAIN sig : i \in DOMAIN sig' /\ sig'[i] = sig[i]
    PROVE  ShownInv' /\ ActsVpn'
<1>1. ASSUME NEW v \in DOMAIN conns, Early(v) PROVE Early(v)'
  <2>1. v \in Vpns
    BY DEF TypeInv, ServiceType
  <2> QED
    BY <1>1, <2>1 DEF Early, ListComes
<1>2. ShownInv'
  BY <1>1, ShownStays DEF ToldInv
<1> QED
  BY <1>2 DEF ToldInv, ActsVpn

(* An active connection changes its state and says so, perhaps after a     *)
(* signal for the notifier.                                                *)
LEMMA MoveTold ==
    ASSUME IInv, ToldInv, NEW a \in DOMAIN nmActive \ {Other}, NEW s \in States,
           nmActive' = [nmActive EXCEPT ![a].state = s],
           NEW m \in Signals, m.kind = "vpn",
           NEW t, t = sig \/ t = Append(sig, m), sig' = Append(t, StateSignal(a, s)),
           UNCHANGED <<owner, conns, acts, links, refused>>,
           \A v \in Vpns : Asked(v) => Asked(v)'
    PROVE  ToldInv'
<1> DEFINE n == StateSignal(a, s)
<1>0. sig \in Seq(Signals) /\ DOMAIN nmActive \subseteq Paths /\ TypeInv
  BY DEF IInv, TypeInv, NMType
<1>1. n \in Signals /\ n.kind = "state" /\ n.path = a /\ n.state = s
  BY <1>0 DEF StateSignal, Signals
<1>2. PICK u : u = sig'
  OBVIOUS
<1> HIDE DEF n
<1>3. t \in Seq(Signals) /\ u = Append(t, n)
  BY <1>0, <1>2, AppendPlaces DEF n
<1>4. /\ DOMAIN nmActive' = DOMAIN nmActive /\ nmActive'[a].state = s
      /\ \A b \in DOMAIN nmActive : b # a => nmActive'[b].state = nmActive[b].state
  BY <1>0 DEF IInv, TypeInv, NMType
<1>5. ListsTold'
  <2>1. PICK known, current : known = DOMAIN acts /\ current = DOMAIN nmActive
    OBVIOUS
  <2>2. Lists(t, known, current)
    BY <1>0, <2>1, ListsKept DEF ToldInv, ListsTold
  <2>3. Lists(u, known, current)
    BY <1>1, <1>3, <2>2, ListsKept
  <2> QED
    BY <1>2, <1>4, <2>1, <2>3 DEF ListsTold
<1>6. StatesTold'
  <2> SUFFICES ASSUME NEW b \in DOMAIN nmActive \ {Other}
               PROVE  /\ Tells(u, b, ReadStates(b), nmActive'[b].state)
                      /\ b \in DOMAIN acts => acts[b].type = "vpn"
    BY <1>2, <1>4 DEF StatesTold, ReadStates
  <2>1. PICK read, state, new : /\ read = ReadStates(b) /\ state = nmActive[b].state
                                /\ new = nmActive'[b].state
    OBVIOUS
  <2>2. Tells(sig, b, read, state) /\ (b \in DOMAIN acts => acts[b].type = "vpn")
    BY <2>1 DEF ToldInv, StatesTold
  <2>3. Tells(t, b, read, state)
    BY <1>0, <2>2, TellsKept
  <2>4. CASE b = a
    BY <1>1, <1>3, <1>4, <2>1, <2>2, <2>4, TellsNew
  <2>5. CASE b # a
    BY <1>1, <1>3, <1>4, <2>1, <2>2, <2>3, <2>5, TellsKept
  <2> QED
    BY <2>4, <2>5
<1>7. /\ DOMAIN sig \subseteq DOMAIN u /\ \A i \in DOMAIN sig : u[i] = sig[i]
      /\ \A i \in DOMAIN u : i \in DOMAIN sig \/ u[i] = n \/ u[i] = m
  <2>1. /\ DOMAIN sig \subseteq DOMAIN t /\ \A i \in DOMAIN sig : t[i] = sig[i]
        /\ \A i \in DOMAIN t : i \in DOMAIN sig \/ t[i] = m
    BY <1>0, AppendPlaces
  <2>2. /\ DOMAIN t \subseteq DOMAIN u /\ \A i \in DOMAIN t : u[i] = t[i]
        /\ \A i \in DOMAIN u : i \in DOMAIN t \/ u[i] = n
    BY <1>1, <1>3, AppendPlaces
  <2> QED
    BY <2>1, <2>2
<1>8. MadeOnly'
  <2>1. Made' = Made /\ a \in Made
    BY <1>0 DEF Made, IInv, Owned, NMOwned, Mine
  <2> QED
    BY <1>1, <1>2, <1>7, <2>1, MadeStays DEF ToldInv
<1>9. ShownInv' /\ ActsVpn'
  BY <1>0, <1>2, <1>7, ShownSent
<1> QED
  BY <1>5, <1>6, <1>8, <1>9 DEF ToldInv

(* An active connection is made or goes, and the new list is sent. *)
LEMMA ListSentTold ==
    ASSUME IInv, ToldInv, sig' = Append(sig, ListSignal(DOMAIN nmActive')),
           DOMAIN nmActive' # DOMAIN nmActive, DOMAIN nmActive' \subseteq Made',
           Made \subseteq Made', UNCHANGED <<conns, acts, links>>,
           \A a \in DOMAIN nmActive' \ {Other} :
               \/ a \in DOMAIN nmActive /\ nmActive'[a].state = nmActive[a].state
               \/ a \notin Made
    PROVE  ToldInv'
<1>0. sig \in Seq(Signals) /\ TypeInv /\ Made' \subseteq Paths
  BY DEF IInv, TypeInv, NMType, Made
<1>1. PICK m : m = ListSignal(DOMAIN nmActive')
  OBVIOUS
<1>2. m \in Signals /\ m.kind = "list" /\ m.list = DOMAIN nmActive'
  BY <1>0, <1>1 DEF ListSignal, Signals
<1>3. PICK u : u = sig'
  OBVIOUS
<1>4. u = Append(sig, m)
  BY <1>1, <1>3
<1>5. /\ DOMAIN sig \subseteq DOMAIN u /\ \A i \in DOMAIN sig : u[i] = sig[i]
      /\ \A i \in DOMAIN u : i \in DOMAIN sig \/ u[i] = m
      /\ Len(sig) + 1 \in DOMAIN u /\ u[Len(sig) + 1] = m
  BY <1>0, <1>2, <1>4, AppendPlaces
<1>6. ListsTold'
  <2>1. PICK known, current, next : /\ known = DOMAIN acts /\ current = DOMAIN nmActive
                                    /\ next = DOMAIN nmActive'
    OBVIOUS
  <2>2. Lists(sig, known, current)
    BY <2>1 DEF ToldInv, ListsTold
  <2>3. Lists(u, known, next)
    BY <1>0, <1>2, <1>4, <2>1, <2>2, ListsGrow
  <2> QED
    BY <1>3, <2>1, <2>3 DEF ListsTold
<1>7. StatesTold'
  <2> SUFFICES ASSUME NEW a \in DOMAIN nmActive' \ {Other}
               PROVE  /\ Tells(u, a, ReadStates(a), nmActive'[a].state)
                      /\ a \in DOMAIN acts => acts[a].type = "vpn"
    BY <1>3 DEF StatesTold, ReadStates
  <2>1. CASE a \in DOMAIN nmActive /\ nmActive'[a].state = nmActive[a].state
    <3>1. PICK read, state : read = ReadStates(a) /\ state = nmActive[a].state
      OBVIOUS
    <3>2. Tells(sig, a, read, state) /\ (a \in DOMAIN acts => acts[a].type = "vpn")
      BY <2>1, <3>1 DEF ToldInv, StatesTold
    <3>3. Tells(u, a, read, state)
      BY <1>0, <1>2, <1>4, <3>2, TellsKept
    <3> QED
      BY <2>1, <3>1, <3>2, <3>3
  <2>2. CASE a \notin Made
    <3>1. a \notin DOMAIN acts /\ ReadStates(a) = {}
      BY <2>2 DEF ToldInv, MadeOnly, ReadStates
    <3>2. \A i \in DOMAIN u : ~IsState(u, i, a)
      BY <1>2, <1>5, <2>2 DEF ToldInv, MadeOnly, IsState
    <3> QED
      BY <3>1, <3>2 DEF Tells
  <2> QED
    BY <2>1, <2>2
<1>8. MadeOnly'
  BY <1>2, <1>3, <1>5, MadeStays DEF ToldInv
<1>9. ShownInv' /\ ActsVpn'
  <2>1. ListComes'
    BY <1>2, <1>3, <1>5 DEF ListComes
  <2> QED
    BY <1>0, <2>1, ShownSent
<1> QED
  BY <1>6, <1>7, <1>8, <1>9 DEF ToldInv

(* Nothing happens to the active connections and what is known of them;    *)
(* perhaps a signal about the settings is sent.                            *)
LEMMA QuietTold ==
    ASSUME IInv, ToldInv, UNCHANGED <<nmActive, owner, acts>>, ShownInv',
           NEW m \in Signals, m.kind \in {"new", "removed"}, sig' = sig \/ sig' = Append(sig, m)
    PROVE  ToldInv'
<1>0. sig \in Seq(Signals) /\ Made' = Made
  BY DEF IInv, TypeInv, NMType, Made
<1>1. PICK u : u = sig'
  OBVIOUS
<1>2. u = sig \/ u = Append(sig, m)
  BY <1>1
<1>3. ListsTold'
  <2>1. PICK known, current : known = DOMAIN acts /\ current = DOMAIN nmActive
    OBVIOUS
  <2>2. Lists(u, known, current)
    BY <1>0, <1>2, <2>1, ListsKept DEF ToldInv, ListsTold
  <2> QED
    BY <1>1, <2>1, <2>2 DEF ListsTold
<1>4. StatesTold'
  <2> SUFFICES ASSUME NEW a \in DOMAIN nmActive \ {Other}
               PROVE  /\ Tells(u, a, ReadStates(a), nmActive[a].state)
                      /\ a \in DOMAIN acts => acts[a].type = "vpn"
    BY <1>1 DEF StatesTold, ReadStates
  <2>1. PICK read, state : read = ReadStates(a) /\ state = nmActive[a].state
    OBVIOUS
  <2>2. Tells(sig, a, read, state) /\ (a \in DOMAIN acts => acts[a].type = "vpn")
    BY <2>1 DEF ToldInv, StatesTold
  <2>3. Tells(u, a, read, state)
    BY <1>0, <1>2, <2>2, TellsKept
  <2> QED
    BY <2>1, <2>2, <2>3
<1>5. MadeOnly'
  <2>1. \A i \in DOMAIN u : (i \in DOMAIN sig /\ u[i] = sig[i]) \/ u[i] = m
    BY <1>0, <1>2, AppendPlaces
  <2> QED
    BY <1>0, <1>1, <2>1, MadeStays DEF ToldInv
<1>6. ActsVpn'
  BY DEF ToldInv, ActsVpn
<1> QED
  BY <1>3, <1>4, <1>5, <1>6 DEF ToldInv

(* Nothing is sent or handled. *)
LEMMA StillTold ==
    ASSUME ToldInv, UNCHANGED <<nmActive, owner, acts, sig>>, ShownInv'
    PROVE  ToldInv'
BY DEF ToldInv, ListsTold, StatesTold, ReadStates, MadeOnly, Made, ActsVpn

LEMMA ActivateTold ==
    ASSUME IInv, ToldInv, NEW a \in Actives, NMActivate(a)
    PROVE  ToldInv'
<1>1. /\ owner[a] = NoPath /\ Head(req).vpn \in Vpns \ {NoPath}
      /\ UNCHANGED <<conns, acts, links>>
      /\ nmActive' = With(nmActive, a, [conn |-> Head(req).vpn, state |-> "activating"])
      /\ owner' = [owner EXCEPT ![a] = Head(req).vpn]
      /\ sig' = Append(sig, ListSignal(DOMAIN nmActive'))
  BY VpnsAssumption DEF NMActivate, NextPath, Present, svcVars, NoPath
<1>2. a \in Paths /\ a # Other
  BY OtherAssumption DEF Paths
<1>3. /\ DOMAIN nmActive' = DOMAIN nmActive \cup {a}
      /\ \A b \in DOMAIN nmActive : b # a => nmActive'[b] = nmActive[b]
  BY <1>1 DEF With
<1>4. a \notin Made /\ a \in Made' /\ Made \subseteq Made'
  BY <1>1, <1>2 DEF Made, IInv, TypeInv, NMType
<1>5. DOMAIN nmActive \subseteq Made
  BY DEF IInv, TypeInv, NMType, Owned, NMOwned, Mine, Made
<1>6. DOMAIN nmActive' # DOMAIN nmActive /\ DOMAIN nmActive' \subseteq Made'
  BY <1>3, <1>4, <1>5
<1> QED
  BY <1>1, <1>3, <1>4, <1>6, ListSentTold

LEMMA RefuseTold ==
    ASSUME IInv, ToldInv, NMRefuse
    PROVE  ToldInv'
<1>1. /\ req # <<>> /\ req' = Tail(req) /\ refused' = refused \cup {Head(req).vpn}
      /\ UNCHANGED <<nmActive, owner, acts, conns, links, sig>>
  BY DEF NMRefuse, nmVars, svcVars
<1>2. ASSUME NEW v \in DOMAIN conns, Early(v) PROVE Early(v)'
  <2>1. CASE Asked(v) /\ v # Head(req).vpn
    BY <1>1, <2>1, AskedStays DEF Early, IInv
  <2>2. CASE ~Asked(v) \/ v = Head(req).vpn
    BY <1>1, <1>2, <2>2 DEF Early, ListComes
  <2> QED
    BY <2>1, <2>2
<1>3. ShownInv'
  BY <1>1, <1>2, ShownStays DEF ToldInv
<1> QED
  BY <1>1, <1>3, StillTold

LEMMA DeactivateTold ==
    ASSUME IInv, ToldInv, NMDeactivate
    PROVE  ToldInv'
<1> DEFINE a == Head(req).path
<1>1. /\ req # <<>> /\ req' = Tail(req) /\ Head(req).call = "Deactivate"
      /\ UNCHANGED <<owner, conns, acts, links, refused>>
      /\ IF a \in DOMAIN nmActive /\ nmActive[a].state \in {"activating", "activated"}
         THEN /\ nmActive' = [nmActive EXCEPT ![a].state = "deactivating"]
              /\ sig' = Append(sig, StateSignal(a, "deactivating"))
         ELSE UNCHANGED <<nmActive, sig>>
  BY DEF NMDeactivate, svcVars
<1>2. \A v \in Vpns : Asked(v) => Asked(v)'
  BY <1>1, AskedStays DEF IInv
<1>3. CASE a \in DOMAIN nmActive /\ nmActive[a].state \in {"activating", "activated"}
  <2>1. a # Other
    <3>1. Head(req) = req[1] /\ 1 \in DOMAIN req
      BY <1>1, HeadTailProperties, EmptySeq, LenProperties DEF IInv, TypeInv, NMType
    <3>2. a # NoPath => owner[a] = Head(req).vpn /\ Head(req).vpn # NoPath
      BY <3>1 DEF IInv, Owned, ReqOwned, Mine
    <3> QED
      BY <3>2, OtherAssumption DEF IInv, Owned, NMOwned, NoPath
  <2>2. PICK b \in DOMAIN nmActive \ {Other} : b = a
    BY <1>3, <2>1
  <2>3. "deactivating" \in States /\ b \in Paths
    BY DEF States, IInv, TypeInv, NMType
  <2>4. PICK m \in Signals : m.kind = "vpn"
    <3>1. VpnSignal(b, "FAILED", "NONE") \in Signals /\ VpnSignal(b, "FAILED", "NONE").kind = "vpn"
      BY <2>3 DEF VpnSignal, Signals
    <3> QED
      BY <3>1
  <2> HIDE DEF a
  <2> QED
    BY <1>1, <1>2, <1>3, <2>2, <2>3, <2>4, MoveTold
<1>4. CASE ~(a \in DOMAIN nmActive /\ nmActive[a].state \in {"activating", "activated"})
  <2>1. UNCHANGED <<nmActive, sig>>
    BY <1>1, <1>4
  <2>2. \A v \in DOMAIN conns : Early(v) => Early(v)'
    BY <1>1, <1>2, <2>1 DEF Early, ListComes, IInv, TypeInv, ServiceType
  <2> QED
    BY <1>1, <2>1, <2>2, ShownStays, StillTold DEF ToldInv
<1> QED
  BY <1>3, <1>4

LEMMA ProgressTold ==
    ASSUME IInv, ToldInv, NEW a \in Actives, NMProgress(a) \/ NMStopped(a)
    PROVE  ToldInv'
<1>0. /\ a \in DOMAIN nmActive \ {Other} /\ a \in Paths
      /\ UNCHANGED <<owner, conns, acts, links, refused, req>>
  BY DEF NMProgress, NMStopped, svcVars, Paths
<1>1. \A v \in Vpns : Asked(v) => Asked(v)'
  BY <1>0 DEF Asked
<1>2. ASSUME NEW s \in States, nmActive' = [nmActive EXCEPT ![a].state = s],
             sig' = Append(sig, StateSignal(a, s))
      PROVE  ToldInv'
  <2>1. PICK m \in Signals : m.kind = "vpn"
    <3>1. VpnSignal(a, "FAILED", "NONE") \in Signals /\ VpnSignal(a, "FAILED", "NONE").kind = "vpn"
      BY <1>0 DEF VpnSignal, Signals
    <3> QED
      BY <3>1
  <2> QED
    BY <1>0, <1>1, <1>2, <2>1, MoveTold
<1>3. ASSUME NEW s \in States, nmActive' = [nmActive EXCEPT ![a].state = s],
             NEW st \in {"ACTIVATED", "FAILED", "DISCONNECTED"},
             NEW r \in {"NONE", "LOGIN_FAILED", "DISCONNECTED", "SERVICE_STOPPED"},
             sig' = sig \o <<VpnSignal(a, st, r), StateSignal(a, s)>>
      PROVE  ToldInv'
  <2>0. VpnSignal(a, st, r) \in Signals /\ VpnSignal(a, st, r).kind = "vpn"
    BY <1>0 DEF VpnSignal, Signals
  <2>1. PICK m \in Signals : m = VpnSignal(a, st, r) /\ m.kind = "vpn"
    BY <2>0
  <2>2. PICK n \in Signals : n = StateSignal(a, s)
    BY <1>0 DEF StateSignal, Signals
  <2>3. PICK t : t = Append(sig, m)
    OBVIOUS
  <2>4. sig' = Append(t, n)
    <3>1. sig \in Seq(Signals)
      BY DEF IInv, TypeInv, NMType
    <3>2. sig \o <<m, n>> = Append(Append(sig, m), n)
      BY <3>1
    <3> QED
      BY <1>3, <2>1, <2>2, <2>3, <3>2
  <2> QED
    BY <1>0, <1>1, <1>3, <2>1, <2>2, <2>3, <2>4, MoveTold
<1>4. CASE /\ nmActive' = [b \in DOMAIN nmActive \ {a} |-> nmActive[b]]
           /\ sig' = Append(sig, ListSignal(DOMAIN nmActive'))
  <2>1. /\ DOMAIN nmActive' = DOMAIN nmActive \ {a}
        /\ \A b \in DOMAIN nmActive' : nmActive'[b] = nmActive[b]
    BY <1>4
  <2>2. DOMAIN nmActive \subseteq Made /\ Made' = Made
    BY <1>0 DEF IInv, TypeInv, NMType, Owned, NMOwned, Mine, Made
  <2>3. DOMAIN nmActive' # DOMAIN nmActive /\ DOMAIN nmActive' \subseteq Made'
    BY <1>0, <2>1, <2>2
  <2> QED
    BY <1>0, <1>4, <2>1, <2>2, <2>3, ListSentTold
<1>5. /\ {"activating", "activated", "deactivating", "deactivated"} \subseteq States
  BY DEF States
<1> QED
  BY <1>2, <1>3, <1>4, <1>5 DEF NMProgress, NMStopped

LEMMA OtherTold ==
    ASSUME IInv, ToldInv, NMOther
    PROVE  ToldInv'
<1>1. /\ UNCHANGED <<owner, conns, acts, links>>
      /\ nmActive' = IF Other \in DOMAIN nmActive
                     THEN [b \in DOMAIN nmActive \ {Other} |-> nmActive[b]]
                     ELSE With(nmActive, Other, [conn |-> NoPath, state |-> "activated"])
      /\ sig' = Append(sig, ListSignal(DOMAIN nmActive'))
  BY DEF NMOther, svcVars
<1>2. /\ DOMAIN nmActive' = IF Other \in DOMAIN nmActive THEN DOMAIN nmActive \ {Other}
                            ELSE DOMAIN nmActive \cup {Other}
      /\ \A b \in DOMAIN nmActive' \ {Other} : b \in DOMAIN nmActive /\ nmActive'[b] = nmActive[b]
  BY <1>1 DEF With
<1>3. DOMAIN nmActive \subseteq Made /\ Made' = Made /\ Other \in Made
  BY <1>1 DEF IInv, TypeInv, NMType, Owned, NMOwned, Mine, Made, Paths
<1>4. DOMAIN nmActive' # DOMAIN nmActive /\ DOMAIN nmActive' \subseteq Made'
  BY <1>2, <1>3
<1> QED
  BY <1>1, <1>2, <1>3, <1>4, ListSentTold

LEMMA SettingsTold ==
    ASSUME IInv, ToldInv, NEW v \in Vpns, AddConnection(v) \/ RemoveConnection(v)
    PROVE  ToldInv'
<1>1. PICK kind \in {"new", "removed"} : sig' = Append(sig, [kind |-> kind, vpn |-> v])
  BY DEF AddConnection, RemoveConnection
<1>2. PICK m \in Signals : m.kind \in {"new", "removed"} /\ m = [kind |-> kind, vpn |-> v]
  BY DEF Signals
<1>3. UNCHANGED <<nmActive, owner, conns, acts, links, refused, req>>
  BY DEF AddConnection, RemoveConnection, svcVars
<1>4. \A w \in Vpns : Asked(w) => Asked(w)'
  BY <1>3 DEF Asked
<1>5. \A i \in DOMAIN sig : i \in DOMAIN sig' /\ sig'[i] = sig[i]
  <2>1. PICK u : u = sig'
    OBVIOUS
  <2>2. \A i \in DOMAIN sig : i \in DOMAIN u /\ u[i] = sig[i]
    BY <1>1, <1>2, <2>1, AppendPlaces DEF IInv, TypeInv, NMType
  <2> QED
    BY <2>1, <2>2
<1>6. ShownInv'
  BY <1>3, <1>4, <1>5, ShownSent DEF IInv
<1> QED
  BY <1>1, <1>2, <1>3, <1>6, QuietTold

(* updateActiveAndBusy() changes nothing of what a connection shows. *)
LEMMA UpdateShows ==
    ASSUME NEW m, NEW cs, cs \in [DOMAIN cs -> Conns], DOMAIN cs \subseteq Vpns,
           NEW f, f = UpdateActiveAndBusy(m, cs)
    PROVE  /\ DOMAIN f = DOMAIN cs
           /\ \A v \in DOMAIN cs : /\ f[v].active = cs[v].active /\ f[v].busy = cs[v].busy
                                   /\ f[v].path = cs[v].path
<1> DEFINE now == ManagerOf(cs)
           bs == IF now.busy = m.busy THEN cs
                 ELSE [v \in DOMAIN cs |-> setOtherConnectionIsBusy(v, cs[v], now.busy)]
<1>0. now.busy \in BOOLEAN /\ now.path \in Vpns \cup {NoPath}
  BY ManagerType
<1>1. /\ bs \in [DOMAIN cs -> Conns]
      /\ \A v \in DOMAIN cs : /\ bs[v].active = cs[v].active /\ bs[v].busy = cs[v].busy
                              /\ bs[v].path = cs[v].path
  <2>1. \A v \in DOMAIN cs : cs[v] \in Conns
    OBVIOUS
  <2> HIDE DEF now
  <2> QED
    BY <1>0, <2>1, SetBusy
<1>2. f = IF now.path = m.path THEN bs
          ELSE [v \in DOMAIN bs |-> setActiveConnectionPath(v, bs[v], now.path)]
  BY DEF UpdateActiveAndBusy
<1> HIDE DEF now, bs
<1>3. DOMAIN bs = DOMAIN cs /\ \A v \in DOMAIN cs : bs[v] \in Conns
  BY <1>1
<1> QED
  BY <1>0, <1>1, <1>2, <1>3, SetPath

LEMMA SettleShows ==
    ASSUME IInv, NEW cs, cs \in [DOMAIN cs -> Conns], DOMAIN cs \subseteq Vpns, Settle(cs)
    PROVE  /\ DOMAIN conns' = DOMAIN cs
           /\ \A v \in DOMAIN cs : /\ conns'[v].active = cs[v].active
                                   /\ conns'[v].busy = cs[v].busy
                                   /\ conns'[v].path = cs[v].path
<1>1. PICK f : f = conns'
  OBVIOUS
<1>2. f = UpdateActiveAndBusy(mgr, cs)
  BY <1>1 DEF Settle
<1> QED
  BY <1>1, <1>2, UpdateShows

(* What a connection shows once it was told of the active connections. *)
LEMMA ConnectionUpdatedShows ==
    ASSUME NEW v, NEW c \in Conns, NEW as, as \in [DOMAIN as -> Objects], NEW listens,
           NEW a \in Matches(v, as), a \in listens, as[a].type = "vpn"
    PROVE  /\ Shows(v, ConnectionUpdated(v, c, as, a), as, listens)
           /\ Matches(v, as) # {}
<1>1. as[a].conn = v /\ a \in DOMAIN as
  BY DEF Matches
<1>2. PICK d : d = ConnectionUpdated(v, c, as, a)
  OBVIOUS
<1>3. PICK active, busy : /\ active = STATE_ACTIVE_MAP(as[a].state)
                          /\ busy = STATE_BUSY_MAP(as[a].state)
  OBVIOUS
<1>4. d = [c EXCEPT !.path = a, !.active = active, !.busy = busy]
  BY <1>1, <1>2, <1>3 DEF ConnectionUpdated
<1>5. d.path = a /\ d.active = active /\ d.busy = busy
  BY <1>4 DEF Conns
<1> QED
  BY <1>2, <1>3, <1>5 DEF Shows

LEMMA ActiveConnectionsUpdatedShows ==
    ASSUME NEW v \in Vpns, NEW c \in Conns, NEW as, as \in [DOMAIN as -> Objects],
           \A b \in DOMAIN as : as[b].conn # NoPath => as[b].type = "vpn",
           NEW listens, NEW a, Matches(v, as) = {} \/ (a \in Matches(v, as) /\ a \in listens)
    PROVE  LET d == ActiveConnectionsUpdated(v, c, as, a)
           IN  Shows(v, d, as, listens) /\ (Matches(v, as) = {} => ~d.active)
<1>1. CASE Matches(v, as) = {}
  <2>1. PICK d : d = ActiveConnectionsUpdated(v, c, as, a)
    OBVIOUS
  <2>2. d = [c EXCEPT !.active = FALSE, !.busy = FALSE, !.path = NoPath]
    BY <1>1, <2>1 DEF ActiveConnectionsUpdated
  <2>3. d.active = FALSE /\ d.busy = FALSE /\ d.path = NoPath
    BY <2>2 DEF Conns
  <2> QED
    BY <1>1, <2>1, <2>3 DEF Shows
<1>2. CASE Matches(v, as) # {}
  <2>1. a \in Matches(v, as) /\ a \in listens /\ as[a].type = "vpn"
    BY <1>2, VpnsAssumption DEF Matches, NoPath
  <2>2. ActiveConnectionsUpdated(v, c, as, a) = ConnectionUpdated(v, c, as, a)
    BY <1>2 DEF ActiveConnectionsUpdated
  <2>3. Shows(v, ConnectionUpdated(v, c, as, a), as, listens)
    BY <2>1, ConnectionUpdatedShows
  <2> QED
    BY <1>2, <2>2, <2>3
<1> QED
  BY <1>1, <1>2

(* The user switches a connection. *)
LEMMA AskTold ==
    ASSUME IInv, ToldInv, UNCHANGED <<nmActive, owner, sig, acts, links, refused>>,
           DOMAIN conns' = DOMAIN conns, req' = req \/ \E m \in Requests : req' = Append(req, m),
           \A v \in DOMAIN conns :
               /\ conns'[v].path = conns[v].path /\ conns'[v].busy = conns[v].busy
               /\ \/ conns'[v].active = conns[v].active
                  \/ conns'[v].active = TRUE /\ Asked(v)'
    PROVE  ToldInv'
<1>1. \A v \in DOMAIN conns : Early(v) => Early(v)'
  BY AskedStays DEF Early, ListComes, IInv
<1>2. ASSUME NEW v \in DOMAIN conns
      PROVE  /\ Shows(v, conns'[v], acts, links[v])
             /\ conns'[v].active /\ Matches(v, acts) = {} => Early(v)'
  <2>1. /\ Shows(v, conns[v], acts, links[v])
        /\ conns[v].active /\ Matches(v, acts) = {} => Early(v)
    BY DEF ToldInv, ShownInv
  <2>2. Shows(v, conns'[v], acts, links[v])
    BY <2>1 DEF Shows
  <2>3. conns'[v].active /\ Matches(v, acts) = {} => Early(v)'
    BY <1>1, <2>1 DEF Early
  <2> QED
    BY <2>2, <2>3
<1>3. ShownInv'
  BY <1>2 DEF ShownInv, Shows, Matches
<1> QED
  BY <1>3, StillTold

LEMMA SetActiveTold ==
    ASSUME IInv, ToldInv, NEW v \in DOMAIN conns, NEW on \in BOOLEAN, SetActive(v, on),
           UNCHANGED <<nmActive, owner, sig, acts, links, refused>>
    PROVE  ToldInv'
<1>0. v \in Vpns /\ conns \in [DOMAIN conns -> Conns] /\ conns[v] \in Conns /\ req \in Seq(Requests)
  BY DEF IInv, TypeInv, NMType, ServiceType
<1>1. PICK m : m = [call |-> IF on THEN "Activate" ELSE "Deactivate", vpn |-> v,
                    path |-> IF on THEN NoPath ELSE conns[v].path]
  OBVIOUS
<1>2. m \in Requests
  BY <1>0, <1>1 DEF Requests, Conns
<1>3. req' = req \/ req' = Append(req, m)
  BY <1>1 DEF SetActive
<1>4. CASE conns' = conns
  BY <1>2, <1>3, <1>4, AskTold
<1>5. CASE on /\ req' = Append(req, m) /\ Settle([conns EXCEPT ![v].active = TRUE])
  <2>1. PICK cs : cs = [conns EXCEPT ![v].active = TRUE]
    OBVIOUS
  <2>2. /\ cs \in [DOMAIN cs -> Conns] /\ DOMAIN cs = DOMAIN conns /\ DOMAIN cs \subseteq Vpns
        /\ cs[v].active = TRUE
        /\ \A w \in DOMAIN conns : /\ cs[w].path = conns[w].path /\ cs[w].busy = conns[w].busy
                                   /\ w # v => cs[w].active = conns[w].active
    BY <1>0, <2>1 DEF Conns, IInv, TypeInv, ServiceType
  <2>3. Settle(cs)
    BY <1>5, <2>1
  <2>4. /\ DOMAIN conns' = DOMAIN cs
        /\ \A w \in DOMAIN cs : /\ conns'[w].active = cs[w].active
                                /\ conns'[w].busy = cs[w].busy
                                /\ conns'[w].path = cs[w].path
    BY <2>2, <2>3, SettleShows
  <2>5. Asked(v)'
    <3>1. m.call = "Activate" /\ m.vpn = v
      BY <1>1, <1>5
    <3>2. Len(req) + 1 \in DOMAIN req' /\ req'[Len(req) + 1] = m
      BY <1>0, <1>2, <1>5, AppendProperties
    <3> QED
      BY <3>1, <3>2 DEF Asked
  <2> QED
    BY <1>2, <1>5, <2>2, <2>4, <2>5, AskTold
<1>6. \/ conns' = conns
      \/ on /\ req' = Append(req, m) /\ Settle([conns EXCEPT ![v].active = TRUE])
  BY <1>1 DEF SetActive
<1> QED
  BY <1>4, <1>5, <1>6

LEMMA UserTold ==
    ASSUME IInv, ToldInv, NEW v \in Vpns, NEW on \in BOOLEAN,
           ClientSetActive(v, on) \/ ToggleSwitch(v)
    PROVE  ToldInv'
<1>1. CASE ClientSetActive(v, on)
  BY <1>1, SetActiveTold DEF ClientSetActive
<1>2. CASE ToggleSwitch(v)
  <2>1. v \in DOMAIN conns /\ UNCHANGED <<nmActive, owner, sig, acts, links, refused>>
    BY <1>2 DEF ToggleSwitch, IInv, TypeInv, ServiceType
  <2>2. CASE SetActive(v, TRUE)
    BY <2>1, <2>2, SetActiveTold
  <2>3. PICK m : m = [call |-> "Deactivate", vpn |-> v, path |-> conns[v].path]
    OBVIOUS
  <2>4. m \in Requests
    BY <2>1, <2>3 DEF Requests, Conns, IInv, TypeInv, ServiceType
  <2>5. CASE conns' = conns /\ (req' = req \/ req' = Append(req, m))
    BY <2>1, <2>4, <2>5, AskTold
  <2>6. SetActive(v, TRUE) \/ (conns' = conns /\ (req' = req \/ req' = Append(req, m)))
    <3>1. PICK off : off = ~switch[v].state
      OBVIOUS
    <3> QED
      BY <1>2, <2>3, <3>1 DEF ToggleSwitch
  <2> QED
    BY <2>2, <2>5, <2>6
<1> QED
  BY <1>1, <1>2

(* A signal is handled. *)
LEMMA TakenTold ==
    ASSUME IInv, ToldInv, sig # <<>>, sig' = Tail(sig), UNCHANGED <<nmActive, owner>>,
           NEW m, m = Head(sig),
           DOMAIN acts' = IF m.kind = "list" THEN m.list ELSE DOMAIN acts,
           \A a \in DOMAIN nmActive \ {Other} : a \in DOMAIN acts' =>
               /\ acts'[a].type = "vpn"
               /\ acts'[a].state = IF m.kind = "state" /\ m.path = a THEN m.state
                                   ELSE IF a \in DOMAIN acts THEN acts[a].state
                                   ELSE nmActive[a].state
    PROVE  /\ ListsTold' /\ StatesTold' /\ MadeOnly'
           /\ m.kind = "list" => m.list # DOMAIN acts
<1>0. sig \in Seq(Signals) /\ TypeInv /\ Made' = Made
  BY DEF IInv, TypeInv, NMType, Made
<1>1. PICK u : u = sig'
  OBVIOUS
<1>2. u = Tail(sig)
  BY <1>1
<1>3. ListsTold' /\ (m.kind = "list" => m.list # DOMAIN acts)
  <2>1. PICK known, current, now : /\ known = DOMAIN acts /\ current = DOMAIN nmActive
                                   /\ now = DOMAIN acts'
    OBVIOUS
  <2>2. Lists(sig, known, current)
    BY <2>1 DEF ToldInv, ListsTold
  <2>3. now = IF Head(sig).kind = "list" THEN Head(sig).list ELSE known
    BY <2>1
  <2>4. Lists(u, now, current) /\ (Head(sig).kind = "list" => now # known)
    BY <1>0, <1>2, <2>2, <2>3, ListsTaken
  <2> QED
    BY <1>1, <2>1, <2>3, <2>4 DEF ListsTold
<1>4. StatesTold'
  <2> SUFFICES ASSUME NEW a \in DOMAIN nmActive \ {Other}
               PROVE  /\ Tells(u, a, ReadStates(a)', nmActive[a].state)
                      /\ a \in DOMAIN acts' => acts'[a].type = "vpn"
    BY <1>1 DEF StatesTold
  <2>1. PICK read, state, new : /\ read = ReadStates(a) /\ state = nmActive[a].state
                                /\ new = ReadStates(a)'
    OBVIOUS
  <2>2. Tells(sig, a, read, state)
    BY <2>1 DEF ToldInv, StatesTold
  <2>3. /\ m.kind = "state" /\ m.path = a => Tells(u, a, {m.state}, state)
        /\ ~(m.kind = "state" /\ m.path = a) => Tells(u, a, read, state)
    BY <1>0, <1>2, <2>2, TellsTaken
  <2>4. Tells(u, a, {state}, state) /\ Tells(u, a, {}, state)
    BY <2>3, TellsRead
  <2>5. new = IF a \in DOMAIN acts' THEN {acts'[a].state} ELSE {}
    BY <2>1 DEF ReadStates
  <2>6. read = IF a \in DOMAIN acts THEN {acts[a].state} ELSE {}
    BY <2>1 DEF ReadStates
  <2>7. Tells(u, a, new, state)
    <3>1. CASE a \notin DOMAIN acts'
      BY <2>4, <2>5, <3>1
    <3>2. CASE a \in DOMAIN acts' /\ m.kind = "state" /\ m.path = a
      BY <2>3, <2>5, <3>2
    <3>3. CASE a \in DOMAIN acts' /\ ~(m.kind = "state" /\ m.path = a)
      <4>1. CASE a \in DOMAIN acts
        BY <2>3, <2>5, <2>6, <3>3, <4>1
      <4>2. CASE a \notin DOMAIN acts
        BY <2>1, <2>4, <2>5, <3>3, <4>2
      <4> QED
        BY <4>1, <4>2
    <3> QED
      BY <3>1, <3>2, <3>3
  <2> QED
    BY <2>1, <2>7
<1>5. MadeOnly'
  <2>1. /\ 1 \in DOMAIN sig /\ m = sig[1]
        /\ \A i \in DOMAIN u : i + 1 \in DOMAIN sig /\ u[i] = sig[i + 1]
    BY <1>0, <1>2, TailPlaces
  <2>2. DOMAIN acts' \subseteq Made
    BY <2>1 DEF ToldInv, MadeOnly
  <2>3. \A i \in DOMAIN u : /\ u[i].kind = "list" => u[i].list \subseteq Made
                            /\ u[i].kind = "state" => u[i].path \in Made
    BY <2>1 DEF ToldInv, MadeOnly
  <2> QED
    BY <1>0, <1>1, <2>2, <2>3 DEF MadeOnly
<1> QED
  BY <1>3, <1>4, <1>5

(* An early "active" outlives every signal but a list. *)
LEMMA EarlyStays ==
    ASSUME IInv, sig # <<>>, sig' = Tail(sig), Head(sig).kind # "list", UNCHANGED <<req, refused>>,
           NEW v, Early(v)
    PROVE  Early(v)'
<1>1. sig \in Seq(Signals)
  BY DEF IInv, TypeInv, NMType
<1>2. PICK u : u = sig'
  OBVIOUS
<1>3. CASE ListComes
  <2>1. PICK i \in DOMAIN sig : sig[i].kind = "list"
    BY <1>3 DEF ListComes
  <2>2. /\ Len(sig) \in Nat \ {0} /\ DOMAIN sig = 1 .. Len(sig)
        /\ DOMAIN u = 1 .. (Len(sig) - 1)
        /\ \A j \in DOMAIN u : u[j] = sig[j + 1]
        /\ Head(sig) = sig[1]
    BY <1>1, <1>2, TailPlaces
  <2>3. i # 1
    BY <2>1, <2>2
  <2>4. PICK n \in Nat : n = Len(sig)
    BY <2>2
  <2>5. i \in 1 .. n
    BY <2>1, <2>2, <2>4, Zenon
  <2>6. i - 1 \in 1 .. (n - 1) /\ (i - 1) + 1 = i
    BY <2>3, <2>4, <2>5
  <2>7. i - 1 \in DOMAIN u /\ u[i - 1] = sig[(i - 1) + 1]
    BY <2>2, <2>4, <2>6
  <2>8. i - 1 \in DOMAIN sig' /\ sig'[i - 1].kind = "list"
    BY <1>2, <2>1, <2>6, <2>7
  <2> QED
    BY <2>8 DEF Early, ListComes
<1>4. CASE Asked(v) \/ v \in refused
  BY <1>4 DEF Early, Asked
<1> QED
  BY <1>3, <1>4 DEF Early

(* Every connection has its set of links, and the active connection that is*)
(* no VPN is that of none of them.                                         *)
OtherInv == /\ DOMAIN links = Vpns
            /\ Other \in DOMAIN nmActive => nmActive[Other].conn = NoPath

LEMMA OtherStays ==
    ASSUME IInv, OtherInv, [Next]_vars
    PROVE  OtherInv'
<1>0. \A a \in Actives : a # Other
  BY OtherAssumption
<1>1. DOMAIN links' = Vpns
  <2>1. CASE HandleSignal
    BY <2>1 DEF HandleSignal, HandleList, HandleState, HandleVpnState, HandleNew, HandleRemoved,
                OtherInv
  <2>2. CASE ~HandleSignal
    BY <2>2 DEF Next, ClientSetActive, ToggleSwitch, NMActivate, NMRefuse, NMDeactivate,
                NMProgress, NMStopped, NMOther, AddConnection, RemoveConnection, svcVars, vars,
                OtherInv
  <2> QED
    BY <2>1, <2>2
<1>2. Other \in DOMAIN nmActive' => nmActive'[Other].conn = NoPath
  <2>1. ASSUME NEW a \in Actives, NMActivate(a)
        PROVE  Other \in DOMAIN nmActive' => nmActive'[Other].conn = NoPath
    <3>1. nmActive' = With(nmActive, a, [conn |-> Head(req).vpn, state |-> "activating"])
      BY <2>1 DEF NMActivate
    <3> QED
      BY <1>0, <3>1 DEF With, OtherInv
  <2>2. ASSUME NEW a \in DOMAIN nmActive, NEW s \in States,
               nmActive' = [nmActive EXCEPT ![a].state = s]
        PROVE  Other \in DOMAIN nmActive' => nmActive'[Other].conn = NoPath
    BY <2>2 DEF OtherInv, IInv, TypeInv, NMType
  <2>3. CASE NMDeactivate
    <3>1. "deactivating" \in States
      BY DEF States
    <3>2. PICK a : a = Head(req).path
      OBVIOUS
    <3>3. \/ a \in DOMAIN nmActive /\ nmActive' = [nmActive EXCEPT ![a].state = "deactivating"]
          \/ nmActive' = nmActive
      BY <2>3, <3>2 DEF NMDeactivate
    <3> QED
      BY <2>2, <3>1, <3>3 DEF OtherInv
  <2>4. ASSUME NEW a \in Actives, NMProgress(a) \/ NMStopped(a)
        PROVE  Other \in DOMAIN nmActive' => nmActive'[Other].conn = NoPath
    <3>1. {"activated", "deactivating", "deactivated"} \subseteq States
      BY DEF States
    <3>2. /\ a \in DOMAIN nmActive
          /\ \/ \E s \in States : nmActive' = [nmActive EXCEPT ![a].state = s]
             \/ nmActive' = [b \in DOMAIN nmActive \ {a} |-> nmActive[b]]
      BY <2>4, <3>1 DEF NMProgress, NMStopped
    <3> QED
      BY <2>2, <3>2 DEF OtherInv
  <2>5. CASE NMOther
    <3>1. nmActive' = IF Other \in DOMAIN nmActive
                      THEN [b \in DOMAIN nmActive \ {Other} |-> nmActive[b]]
                      ELSE With(nmActive, Other, [conn |-> NoPath, state |-> "activated"])
      BY <2>5 DEF NMOther
    <3> QED
      BY <3>1 DEF With
  <2>6. CASE nmActive' = nmActive
    BY <2>6 DEF OtherInv
  <2> QED
    BY <2>1, <2>3, <2>4, <2>5, <2>6
       DEF Next, ClientSetActive, ToggleSwitch, HandleSignal, NMRefuse, AddConnection,
           RemoveConnection, nmVars, vars
<1> QED
  BY <1>1, <1>2 DEF OtherInv

LEMMA ShowsSame ==
    ASSUME NEW v, NEW c, NEW d, NEW as, NEW listens, Shows(v, c, as, listens),
           d.active = c.active, d.busy = c.busy, d.path = c.path
    PROVE  Shows(v, d, as, listens)
BY DEF Shows

(* The list changed: whatever was shown is shown anew. *)
LEMMA ListShown ==
    ASSUME IInv, ToldInv, OtherInv, UNCHANGED nmVars, notified' = notified,
           NEW list \in SUBSET Paths, list # DOMAIN acts, HandleList(list)
    PROVE  ShownInv' /\ ActsVpn'
<1>0. NoPath \notin Paths /\ \A v \in Vpns : v # NoPath
  BY VpnsAssumption, OtherAssumption DEF Paths, NoPath
<1>1. PICK as : as = acts'
  OBVIOUS
<1>2. /\ as = [a \in list |-> IF a \in DOMAIN acts THEN acts[a] ELSE ReadActive(a)]
      /\ \E pick \in [DOMAIN conns -> Paths \cup {NoPath}] :
             /\ \A v \in DOMAIN conns :
                    pick[v] \in (IF Matches(v, as) = {} THEN {NoPath} ELSE Matches(v, as))
             /\ Settle([v \in DOMAIN conns |->
                           ActiveConnectionsUpdated(v, conns[v], as, pick[v])])
             /\ links' = [v \in Vpns |->
                    IF v \in DOMAIN conns /\ pick[v] # NoPath
                    THEN (links[v] \cap list) \cup {pick[v]} ELSE links[v] \cap list]
  BY <1>1 DEF HandleList
<1>3. as \in [DOMAIN as -> Objects] /\ DOMAIN as \subseteq Paths
  BY <1>1, ListStep DEF ServiceType
<1>4. \A a \in DOMAIN as : as[a].conn # NoPath => as[a].type = "vpn"
  BY <1>2 DEF ReadActive, OtherInv, ToldInv, ActsVpn
<1>5. PICK pick \in [DOMAIN conns -> Paths \cup {NoPath}] :
             /\ \A v \in DOMAIN conns :
                    pick[v] \in (IF Matches(v, as) = {} THEN {NoPath} ELSE Matches(v, as))
             /\ Settle([v \in DOMAIN conns |->
                           ActiveConnectionsUpdated(v, conns[v], as, pick[v])])
             /\ links' = [v \in Vpns |->
                    IF v \in DOMAIN conns /\ pick[v] # NoPath
                    THEN (links[v] \cap list) \cup {pick[v]} ELSE links[v] \cap list]
  BY <1>2
<1>6. PICK cs : cs = [v \in DOMAIN conns |-> ActiveConnectionsUpdated(v, conns[v], as, pick[v])]
  OBVIOUS
<1>7. Settle(cs) /\ DOMAIN cs = DOMAIN conns /\ DOMAIN cs \subseteq Vpns
  BY <1>5, <1>6 DEF IInv, TypeInv, ServiceType
<1>8. ASSUME NEW v \in DOMAIN cs
      PROVE  /\ cs[v] \in Conns
             /\ Shows(v, cs[v], as, links'[v])
             /\ Matches(v, as) = {} => ~cs[v].active
  <2>1. v \in Vpns /\ conns[v] \in Conns
    BY <1>7 DEF IInv, TypeInv, ServiceType
  <2>2. PICK c \in Conns : c = conns[v]
    BY <2>1
  <2>3. PICK a : a = pick[v]
    OBVIOUS
  <2>4. PICK listens : listens = links'[v]
    OBVIOUS
  <2>5. Matches(v, as) = {} \/ (a \in Matches(v, as) /\ a \in listens)
    <3>1. CASE Matches(v, as) # {}
      <4>1. a \in Matches(v, as)
        BY <1>5, <1>7, <2>3, <3>1
      <4>2. a # NoPath
        BY <1>0, <1>3, <4>1 DEF Matches
      <4> QED
        BY <1>5, <1>7, <2>1, <2>3, <2>4, <4>1, <4>2
    <3> QED
      BY <3>1
  <2>6. cs[v] = ActiveConnectionsUpdated(v, c, as, a)
    BY <1>6, <1>7, <2>2, <2>3
  <2>7. ActiveConnectionsUpdated(v, c, as, a) \in Conns
    BY <1>3, <2>5, ActiveConnectionsUpdatedSound DEF TakesOver
  <2>8. /\ Shows(v, ActiveConnectionsUpdated(v, c, as, a), as, listens)
        /\ Matches(v, as) = {} => ~ActiveConnectionsUpdated(v, c, as, a).active
    BY <1>3, <1>4, <2>1, <2>5, ActiveConnectionsUpdatedShows
  <2> QED
    BY <2>4, <2>6, <2>7, <2>8
<1>9. cs \in [DOMAIN cs -> Conns]
  BY <1>6, <1>8
<1>10. /\ DOMAIN conns' = DOMAIN cs
       /\ \A v \in DOMAIN cs : /\ conns'[v].active = cs[v].active
                               /\ conns'[v].busy = cs[v].busy
                               /\ conns'[v].path = cs[v].path
  BY <1>7, <1>9, SettleShows
<1>11. ASSUME NEW v \in DOMAIN conns'
       PROVE  /\ Shows(v, conns'[v], as, links'[v])
              /\ conns'[v].active => Matches(v, as) # {}
  BY <1>8, <1>10, ShowsSame
<1>12. ShownInv'
  BY <1>1, <1>11 DEF ShownInv, Shows, Matches
<1> QED
  BY <1>1, <1>4, <1>12 DEF ActsVpn

(* The state of an active connection changed: those that listen show it,   *)
(* and no others showed that active connection.                            *)
LEMMA StateShown ==
    ASSUME IInv, ToldInv, UNCHANGED nmVars, notified' = notified,
           NEW a \in Paths, NEW state \in States, HandleState(a, state),
           \A v \in Vpns : Early(v) => Early(v)'
    PROVE  ShownInv' /\ ActsVpn'
<1>0. links' = links /\ \A v \in DOMAIN conns : v \in Vpns
  BY DEF HandleState, IInv, TypeInv, ServiceType
<1>1. CASE a \notin DOMAIN acts \/ acts[a].state = state
  <2>1. UNCHANGED <<conns, acts>>
    BY <1>1 DEF HandleState
  <2> QED
    BY <1>0, <2>1, ShownStays DEF ToldInv, ActsVpn
<1>2. CASE a \in DOMAIN acts /\ acts[a].state # state
  <2>1. PICK as : as = acts'
    OBVIOUS
  <2>2. /\ as = [acts EXCEPT ![a].state = state]
        /\ Settle([v \in DOMAIN conns |-> IF a \in links[v]
                       THEN ConnectionUpdated(v, conns[v], as, a) ELSE conns[v]])
    BY <1>2, <2>1 DEF HandleState
  <2>3. /\ as \in [DOMAIN as -> Objects] /\ DOMAIN as = DOMAIN acts /\ DOMAIN as \subseteq Paths
        /\ \A b \in DOMAIN as : /\ as[b].type = acts[b].type /\ as[b].conn = acts[b].conn
                                /\ b # a => as[b].state = acts[b].state
    <3>1. acts \in [DOMAIN acts -> Objects] /\ DOMAIN acts \subseteq Paths
      BY DEF IInv, TypeInv, ServiceType
    <3>2. PICK old : old = acts[a]
      OBVIOUS
    <3>3. PICK new : new = [old EXCEPT !.state = state]
      OBVIOUS
    <3>4. new \in Objects /\ new.type = old.type /\ new.conn = old.conn
      BY <1>2, <3>1, <3>2, <3>3 DEF Objects
    <3>5. as = [acts EXCEPT ![a] = new]
      BY <2>2, <3>2, <3>3
    <3> QED
      BY <1>2, <3>1, <3>2, <3>4, <3>5
  <2>4. ActsVpn'
    BY <2>1, <2>3 DEF ToldInv, ActsVpn
  <2>5. \A v : Matches(v, as) = Matches(v, acts)
    BY <2>3 DEF Matches
  <2>6. PICK cs : cs = [v \in DOMAIN conns |-> IF a \in links[v]
                            THEN ConnectionUpdated(v, conns[v], as, a) ELSE conns[v]]
    OBVIOUS
  <2>7. Settle(cs) /\ DOMAIN cs = DOMAIN conns /\ DOMAIN cs \subseteq Vpns
    BY <2>2, <2>6 DEF IInv, TypeInv, ServiceType
  <2>8. ASSUME NEW v \in DOMAIN cs
        PROVE  /\ cs[v] \in Conns /\ Shows(v, cs[v], as, links[v])
               /\ cs[v].active /\ Matches(v, as) = {} => Early(v)
    <3>1. conns[v] \in Conns /\ v \in Vpns
      BY <2>7 DEF IInv, TypeInv, ServiceType
    <3>2. PICK c \in Conns : c = conns[v]
      BY <3>1
    <3>3. PICK listens : listens = links[v]
      OBVIOUS
    <3>4. Shows(v, c, acts, listens) /\ (c.active /\ Matches(v, as) = {} => Early(v))
      BY <2>5, <2>7, <3>2, <3>3 DEF ToldInv, ShownInv
    <3>5. CASE a \in listens /\ a \in Matches(v, as)
      <4>1. cs[v] = ConnectionUpdated(v, c, as, a)
        BY <2>6, <2>7, <3>2, <3>3, <3>5
      <4>2. as[a].type = "vpn" /\ a \in DOMAIN as
        BY <1>2, <2>1, <2>3, <2>4, <3>1, <3>5, VpnsAssumption DEF ActsVpn, Matches, NoPath
      <4>3. ConnectionUpdated(v, c, as, a) \in Conns
        BY <2>3, <4>2, ConnectionUpdatedSound DEF TakesOver
      <4>4. Shows(v, ConnectionUpdated(v, c, as, a), as, listens) /\ Matches(v, as) # {}
        BY <2>3, <3>5, <4>2, ConnectionUpdatedShows
      <4> QED
        BY <3>3, <4>1, <4>3, <4>4
    <3>6. CASE ~(a \in listens /\ a \in Matches(v, as))
      <4>1. cs[v] = c
        <5>1. a \in listens => as[a].conn # v
          BY <1>2, <2>3, <3>6 DEF Matches
        <5>2. a \in listens => ConnectionUpdated(v, c, as, a) = c
          BY <5>1 DEF ConnectionUpdated
        <5> QED
          BY <2>6, <2>7, <3>2, <3>3, <5>2
      <4>2. Shows(v, c, as, listens)
        <5>1. Matches(v, as) # {} => c.path # a /\ c.path \in DOMAIN as
          BY <2>5, <3>4, <3>6 DEF Shows, Matches
        <5>2. Matches(v, as) # {} => as[c.path].state = acts[c.path].state
          BY <2>3, <5>1
        <5>3. CASE Matches(v, as) # {}
          <6>1. /\ STATE_ACTIVE_MAP(as[c.path].state) <=> STATE_ACTIVE_MAP(acts[c.path].state)
                /\ STATE_BUSY_MAP(as[c.path].state) <=> STATE_BUSY_MAP(acts[c.path].state)
            BY <5>2, <5>3 DEF STATE_ACTIVE_MAP, STATE_BUSY_MAP
          <6>2. /\ c.path \in Matches(v, as) \cap listens
                /\ STATE_ACTIVE_MAP(acts[c.path].state) => c.active
                /\ c.busy <=> STATE_BUSY_MAP(acts[c.path].state)
            BY <2>5, <3>4, <5>3 DEF Shows
          <6> QED
            BY <5>3, <6>1, <6>2, Zenon DEF Shows
        <5>4. CASE Matches(v, as) = {}
          BY <2>5, <3>4, <5>4 DEF Shows
        <5> QED
          BY <5>3, <5>4
      <4> QED
        BY <3>3, <3>4, <4>1, <4>2
    <3> QED
      BY <3>5, <3>6
  <2>9. cs \in [DOMAIN cs -> Conns]
    BY <2>6, <2>8
  <2>10. /\ DOMAIN conns' = DOMAIN cs
         /\ \A v \in DOMAIN cs : /\ conns'[v].active = cs[v].active
                                 /\ conns'[v].busy = cs[v].busy
                                 /\ conns'[v].path = cs[v].path
    BY <2>7, <2>9, SettleShows
  <2>11. ASSUME NEW v \in DOMAIN conns'
         PROVE  /\ Shows(v, conns'[v], as, links[v])
                /\ conns'[v].active /\ Matches(v, as) = {} => Early(v)'
    BY <1>0, <2>7, <2>8, <2>10, ShowsSame
  <2>12. ShownInv'
    BY <1>0, <2>1, <2>11 DEF ShownInv, Shows, Matches
  <2> QED
    BY <2>4, <2>12
<1> QED
  BY <1>1, <1>2

(* A connection is created: it reads the active connections as they are    *)
(* known.                                                                  *)
LEMMA NewShown ==
    ASSUME IInv, ToldInv, OtherInv, NEW v \in Vpns, HandleNew(v),
           \A w \in Vpns : Early(w) => Early(w)'
    PROVE  ShownInv' /\ ActsVpn'
<1>0. acts' = acts /\ \A w \in DOMAIN conns : w \in Vpns
  BY DEF HandleNew, IInv, TypeInv, ServiceType
<1>1. ActsVpn'
  BY <1>0 DEF ToldInv, ActsVpn
<1>2. CASE v \in DOMAIN conns \/ v \notin Present
  <2>1. UNCHANGED <<conns, links>>
    BY <1>2 DEF HandleNew
  <2> QED
    BY <1>0, <1>1, <2>1, ShownStays DEF ToldInv
<1>3. CASE ~(v \in DOMAIN conns \/ v \notin Present)
  <2>1. PICK as : as = acts
    OBVIOUS
  <2>2. PICK a \in (IF Matches(v, as) = {} THEN {NoPath} ELSE Matches(v, as)) :
            /\ Settle(With(conns, v,
                   setActiveConnectionPath(v,
                       setOtherConnectionIsBusy(v, ActiveConnectionsUpdated(v, NewVpn, as, a),
                                                mgr.busy), mgr.path)))
            /\ links' = [links EXCEPT ![v] = IF a = NoPath THEN {} ELSE {a}]
    BY <1>3, <2>1 DEF HandleNew
  <2>3. as \in [DOMAIN as -> Objects] /\ DOMAIN as \subseteq Paths
    BY <2>1 DEF IInv, TypeInv, ServiceType
  <2>4. \A b \in DOMAIN as : as[b].conn # NoPath => as[b].type = "vpn"
    BY <2>1 DEF ToldInv, ActsVpn
  <2>5. PICK listens : listens = links'[v]
    OBVIOUS
  <2>6. listens = (IF a = NoPath THEN {} ELSE {a}) /\ \A w \in Vpns : w # v => links'[w] = links[w]
    BY <2>2, <2>5 DEF OtherInv
  <2>7. Matches(v, as) = {} \/ (a \in Matches(v, as) /\ a \in listens)
    <3>1. CASE Matches(v, as) # {}
      <4>1. a \in Matches(v, as) /\ a \in Paths
        BY <2>2, <2>3, <3>1 DEF Matches
      <4>2. a # NoPath
        BY <4>1, OtherAssumption, VpnsAssumption DEF Paths, NoPath
      <4> QED
        BY <2>6, <4>1, <4>2
    <3> QED
      BY <3>1
  <2>8. NewVpn \in Conns
    BY DEF NewVpn, Conns
  <2>9. PICK n \in Conns : n = NewVpn
    BY <2>8
  <2>10. PICK c : c = ActiveConnectionsUpdated(v, n, as, a)
    OBVIOUS
  <2>11. c \in Conns
    BY <2>3, <2>7, <2>10, ActiveConnectionsUpdatedSound DEF TakesOver
  <2>12. Shows(v, c, as, listens) /\ (Matches(v, as) = {} => ~c.active)
    BY <2>3, <2>4, <2>7, <2>10, ActiveConnectionsUpdatedShows
  <2>13. mgr.busy \in BOOLEAN /\ mgr.path \in Vpns \cup {NoPath}
    BY ManagerType DEF IInv, Agree, TypeInv, ServiceType
  <2>14. PICK b \in BOOLEAN, p \in Vpns \cup {NoPath} : b = mgr.busy /\ p = mgr.path
    BY <2>13
  <2>15. PICK e : e = setOtherConnectionIsBusy(v, c, b)
    OBVIOUS
  <2>16. e \in Conns /\ e.active = c.active /\ e.busy = c.busy /\ e.path = c.path
    BY <2>11, <2>15, SetBusy
  <2>17. PICK d : d = setActiveConnectionPath(v, e, p)
    OBVIOUS
  <2>18. d \in Conns /\ d.active = c.active /\ d.busy = c.busy /\ d.path = c.path
    BY <2>16, <2>17, SetPath
  <2>19. PICK cs : cs = With(conns, v, d)
    OBVIOUS
  <2>20. Settle(cs)
    BY <2>2, <2>9, <2>10, <2>14, <2>15, <2>17, <2>19
  <2>21. /\ DOMAIN cs = DOMAIN conns \cup {v} /\ cs[v] = d /\ DOMAIN cs \subseteq Vpns
         /\ \A w \in DOMAIN conns : cs[w] = conns[w] /\ w # v
         /\ cs = [w \in DOMAIN cs |-> cs[w]]
    BY <1>0, <1>3, <2>19 DEF With
  <2>22. cs \in [DOMAIN cs -> Conns]
    BY <2>18, <2>21 DEF IInv, TypeInv, ServiceType
  <2>23. /\ DOMAIN conns' = DOMAIN cs
         /\ \A w \in DOMAIN cs : /\ conns'[w].active = cs[w].active
                                 /\ conns'[w].busy = cs[w].busy
                                 /\ conns'[w].path = cs[w].path
    BY <2>20, <2>21, <2>22, SettleShows
  <2>24. ASSUME NEW w \in DOMAIN conns'
         PROVE  /\ Shows(w, conns'[w], as, links'[w])
                /\ conns'[w].active /\ Matches(w, as) = {} => Early(w)'
    <3>1. CASE w = v
      <4>1. Shows(v, conns'[v], as, listens)
        BY <2>12, <2>18, <2>21, <2>23, ShowsSame
      <4> QED
        BY <2>5, <2>12, <2>18, <2>21, <2>23, <3>1, <4>1
    <3>2. CASE w # v
      <4>1. w \in DOMAIN conns /\ w \in Vpns /\ links'[w] = links[w]
        BY <1>0, <2>6, <2>21, <2>23, <3>2
      <4>2. /\ conns'[w].active = conns[w].active /\ conns'[w].busy = conns[w].busy
            /\ conns'[w].path = conns[w].path
        BY <2>21, <2>23, <4>1
      <4>3. Shows(w, conns[w], as, links[w])
            /\ (conns[w].active /\ Matches(w, as) = {} => Early(w))
        BY <2>1, <4>1 DEF ToldInv, ShownInv
      <4>4. Shows(w, conns'[w], as, links[w])
        BY <4>2, <4>3, ShowsSame
      <4> QED
        BY <4>1, <4>2, <4>3, <4>4
    <3> QED
      BY <3>1, <3>2
  <2>25. ShownInv'
    BY <1>0, <2>1, <2>24 DEF ShownInv, Shows, Matches
  <2> QED
    BY <1>1, <2>25
<1> QED
  BY <1>2, <1>3

LEMMA RemovedShown ==
    ASSUME IInv, ToldInv, OtherInv, NEW v \in Vpns, HandleRemoved(v),
           \A w \in Vpns : Early(w) => Early(w)'
    PROVE  ShownInv' /\ ActsVpn'
<1>0. acts' = acts /\ \A w \in DOMAIN conns : w \in Vpns
  BY DEF HandleRemoved, IInv, TypeInv, ServiceType
<1>1. ActsVpn'
  BY <1>0 DEF ToldInv, ActsVpn
<1>2. CASE v \notin DOMAIN conns
  <2>1. UNCHANGED <<conns, links>>
    BY <1>2 DEF HandleRemoved
  <2> QED
    BY <1>0, <1>1, <2>1, ShownStays DEF ToldInv
<1>3. CASE v \in DOMAIN conns
  <2>1. PICK cs : cs = [w \in DOMAIN conns \ {v} |-> conns[w]]
    OBVIOUS
  <2>2. Settle(cs) /\ links' = [links EXCEPT ![v] = {}]
    BY <1>3, <2>1 DEF HandleRemoved
  <2>3. /\ cs \in [DOMAIN cs -> Conns] /\ DOMAIN cs \subseteq Vpns
        /\ \A w \in DOMAIN cs : w \in DOMAIN conns /\ cs[w] = conns[w] /\ w # v
    BY <2>1 DEF IInv, TypeInv, ServiceType
  <2>4. /\ DOMAIN conns' = DOMAIN cs
        /\ \A w \in DOMAIN cs : /\ conns'[w].active = cs[w].active
                                /\ conns'[w].busy = cs[w].busy
                                /\ conns'[w].path = cs[w].path
    BY <2>2, <2>3, SettleShows
  <2>5. ASSUME NEW w \in DOMAIN conns'
        PROVE  /\ Shows(w, conns'[w], acts, links'[w])
               /\ conns'[w].active /\ Matches(w, acts) = {} => Early(w)'
    <3>1. w \in DOMAIN conns /\ w \in Vpns /\ links'[w] = links[w]
      BY <1>0, <2>2, <2>3, <2>4 DEF OtherInv
    <3>2. /\ conns'[w].active = conns[w].active /\ conns'[w].busy = conns[w].busy
          /\ conns'[w].path = conns[w].path
      BY <2>3, <2>4
    <3>3. Shows(w, conns[w], acts, links[w])
          /\ (conns[w].active /\ Matches(w, acts) = {} => Early(w))
      BY <3>1 DEF ToldInv, ShownInv
    <3>4. Shows(w, conns'[w], acts, links[w])
      BY <3>2, <3>3, ShowsSame
    <3> QED
      BY <3>1, <3>2, <3>3, <3>4
  <2>6. ShownInv'
    BY <1>0, <2>5 DEF ShownInv, Shows, Matches
  <2> QED
    BY <1>1, <2>6
<1> QED
  BY <1>2, <1>3
LEMMA SignalTold ==
    ASSUME IInv, ToldInv, OtherInv, HandleSignal
    PROVE  ToldInv'
<1>1. /\ sig # <<>> /\ sig' = Tail(sig) /\ UNCHANGED nmVars /\ UNCHANGED <<nmActive, owner, req>>
  BY DEF HandleSignal, nmVars
<1>2. PICK s \in Signals : s = Head(sig)
  BY <1>1, Taken DEF IInv
<1>3. \A a \in DOMAIN nmActive \ {Other} : a \in DOMAIN acts => acts[a].type = "vpn"
  BY DEF ToldInv, StatesTold
<1>4. CASE s.kind = "list" /\ HandleList(s.list) /\ notified' = notified
  <2>1. PICK list \in SUBSET Paths : list = s.list
    BY <1>4 DEF Signals
  <2>2. /\ DOMAIN acts' = list
        /\ \A a \in list : acts'[a] = IF a \in DOMAIN acts THEN acts[a] ELSE ReadActive(a)
    <3>1. CASE list = DOMAIN acts
      BY <1>4, <2>1, <3>1 DEF HandleList
    <3>2. CASE list # DOMAIN acts
      <4>1. acts' = [a \in list |-> IF a \in DOMAIN acts THEN acts[a] ELSE ReadActive(a)]
        BY <1>4, <2>1, <3>2 DEF HandleList
      <4> QED
        BY <4>1
    <3> QED
      BY <3>1, <3>2
  <2>3. \A a \in DOMAIN nmActive \ {Other} : a \in DOMAIN acts' =>
            /\ acts'[a].type = "vpn"
            /\ acts'[a].state = IF a \in DOMAIN acts THEN acts[a].state ELSE nmActive[a].state
    <3>1. \A a \in DOMAIN nmActive \ {Other} :
              ReadActive(a).type = "vpn" /\ ReadActive(a).state = nmActive[a].state
      <4> SUFFICES ASSUME NEW a \in DOMAIN nmActive \ {Other}
                   PROVE  ReadActive(a).type = "vpn" /\ ReadActive(a).state = nmActive[a].state
        OBVIOUS
      <4>1. ReadActive(a) = [type |-> "vpn", conn |-> nmActive[a].conn, state |-> nmActive[a].state]
        BY DEF ReadActive
      <4> QED
        BY <4>1
    <3> QED
      BY <1>3, <2>2, <3>1
  <2>4. ListsTold' /\ StatesTold' /\ MadeOnly' /\ list # DOMAIN acts
    BY <1>1, <1>2, <1>4, <2>1, <2>2, <2>3, TakenTold
  <2>5. ShownInv' /\ ActsVpn'
    BY <1>1, <1>4, <2>1, <2>4, ListShown
  <2> QED
    BY <2>4, <2>5 DEF ToldInv
<1>5. CASE s.kind # "list"
  <2>1. \A v \in Vpns : Early(v) => Early(v)'
    <3>1. UNCHANGED <<req, refused>>
      BY <1>2, <1>5 DEF HandleSignal, HandleState, HandleVpnState, HandleNew, HandleRemoved
    <3> QED
      BY <1>1, <1>2, <1>5, <3>1, EarlyStays
  <2>2. ASSUME DOMAIN acts' = DOMAIN acts,
               \A a \in DOMAIN acts :
                   /\ acts'[a].type = acts[a].type
                   /\ acts'[a].state = IF s.kind = "state" /\ s.path = a THEN s.state
                                       ELSE acts[a].state
        PROVE  ListsTold' /\ StatesTold' /\ MadeOnly'
    BY <1>1, <1>2, <1>3, <1>5, <2>2, TakenTold
  <2>3. CASE s.kind = "state" /\ HandleState(s.path, s.state) /\ notified' = notified
    <3>1. PICK a \in Paths, state \in States : a = s.path /\ state = s.state
      BY <2>3 DEF Signals
    <3>2. /\ DOMAIN acts' = DOMAIN acts
          /\ \A b \in DOMAIN acts : /\ acts'[b].type = acts[b].type
                                    /\ acts'[b].state = IF a = b THEN state ELSE acts[b].state
      <4>1. \/ acts' = acts /\ (a \in DOMAIN acts => acts[a].state = state)
            \/ a \in DOMAIN acts /\ acts' = [acts EXCEPT ![a].state = state]
        BY <2>3, <3>1 DEF HandleState
      <4>2. PICK as : as = acts'
        OBVIOUS
      <4>3. CASE as = acts /\ (a \in DOMAIN acts => acts[a].state = state)
        BY <4>2, <4>3
      <4>4. CASE a \in DOMAIN acts /\ as = [acts EXCEPT ![a].state = state]
        <5>1. /\ DOMAIN as = DOMAIN acts
              /\ \A b \in DOMAIN acts : /\ as[b].type = acts[b].type
                                        /\ as[b].state = IF a = b THEN state ELSE acts[b].state
          BY <4>4 DEF IInv, TypeInv, ServiceType, Objects
        <5> QED
          BY <4>2, <5>1
      <4> QED
        BY <4>1, <4>2, <4>3, <4>4
    <3>3. ListsTold' /\ StatesTold' /\ MadeOnly'
      BY <2>2, <2>3, <3>1, <3>2
    <3>4. ShownInv' /\ ActsVpn'
      BY <1>1, <2>1, <2>3, <3>1, StateShown
    <3> QED
      BY <3>3, <3>4 DEF ToldInv
  <2>4. CASE s.kind # "state" /\ acts' = acts /\ ShownInv' /\ ActsVpn'
    BY <2>2, <2>4 DEF ToldInv
  <2>5. CASE s.kind = "vpn" /\ HandleVpnState(s.path, s.state, s.reason)
    <3>1. UNCHANGED <<conns, acts, links>>
      BY <2>5 DEF HandleVpnState
    <3>2. ShownInv' /\ ActsVpn'
      BY <2>1, <3>1, ShownStays DEF ToldInv, ActsVpn, IInv, TypeInv, ServiceType
    <3> QED
      BY <2>4, <2>5, <3>1, <3>2
  <2>6. CASE s.kind = "new" /\ HandleNew(s.vpn)
    <3>1. PICK v \in Vpns : v = s.vpn
      BY <1>2, <2>6 DEF Signals
    <3>2. ShownInv' /\ ActsVpn' /\ acts' = acts
      BY <2>1, <2>6, <3>1, NewShown DEF HandleNew
    <3> QED
      BY <2>4, <2>6, <3>2
  <2>7. CASE s.kind = "removed" /\ HandleRemoved(s.vpn)
    <3>1. PICK v \in Vpns : v = s.vpn
      BY <1>2, <2>7 DEF Signals
    <3>2. ShownInv' /\ ActsVpn' /\ acts' = acts
      BY <2>1, <2>7, <3>1, RemovedShown DEF HandleRemoved
    <3> QED
      BY <2>4, <2>7, <3>2
  <2> QED
    BY <1>2, <1>5, <2>3, <2>5, <2>6, <2>7 DEF HandleSignal
<1> QED
  BY <1>2, <1>4, <1>5 DEF HandleSignal

-----------------------------------------------------------------------------
(* The theorem *)

LEMMA InitTold == Init => ToldInv /\ OtherInv
<1> SUFFICES ASSUME Init PROVE ToldInv /\ OtherInv
  OBVIOUS
<1>0. IInv /\ sig = <<>> /\ links = [v \in Vpns |-> Matches(v, acts)] /\ Present \subseteq Vpns
  <2>1. sig = <<>> /\ links = [v \in Vpns |-> Matches(v, acts)]
    BY DEF Init
  <2> QED
    BY <2>1, InitIInv DEF Present
<1>1. /\ DOMAIN nmActive \subseteq Actives
      /\ \A a \in DOMAIN nmActive : nmActive[a].conn \in Vpns
      /\ owner = [a \in Paths |-> IF a \in DOMAIN nmActive THEN nmActive[a].conn ELSE NoPath]
  <2>1. PICK start \in {Empty} \cup {With(Empty, a, [conn |-> v, state |-> "activated"]) :
                                     a \in {b \in Actives : \A c \in Actives : b <= c},
                                     v \in Present} :
            /\ nmActive = start
            /\ owner = [a \in Paths |-> IF a \in DOMAIN start THEN start[a].conn ELSE NoPath]
    BY DEF Init
  <2>2. CASE start = Empty
    BY <2>1, <2>2 DEF Empty
  <2>3. CASE start # Empty
    <3>1. PICK a \in Actives, v \in Present :
              start = With(Empty, a, [conn |-> v, state |-> "activated"])
      BY <2>1, <2>3
    <3>2. start = [z \in {a} |-> [conn |-> v, state |-> "activated"]]
      BY <3>1 DEF With, Empty
    <3> QED
      BY <1>0, <2>1, <3>2
  <2> QED
    BY <2>2, <2>3
<1>2. /\ \A a \in DOMAIN nmActive : a # Other /\ a \in Paths
      /\ DOMAIN acts = DOMAIN nmActive
      /\ \A a \in DOMAIN nmActive : /\ acts[a].type = "vpn" /\ acts[a].conn = nmActive[a].conn
                                    /\ acts[a].state = nmActive[a].state
  <2>1. \A a \in DOMAIN nmActive : a # Other /\ a \in Paths
    BY <1>1, OtherAssumption DEF Paths
  <2>2. acts = [a \in DOMAIN nmActive |-> ReadActive(a)]
    BY DEF Init
  <2>3. ASSUME NEW a \in DOMAIN nmActive
        PROVE  acts[a] = [type |-> "vpn", conn |-> nmActive[a].conn, state |-> nmActive[a].state]
    BY <2>1, <2>2 DEF ReadActive
  <2> QED
    BY <2>1, <2>2, <2>3
<1>3. ListsTold
  <2>1. DOMAIN sig = {} /\ Places(sig) = {0}
    BY <1>0 DEF Places
  <2> QED
    BY <1>2, <2>1 DEF ListsTold, Lists, ListAt
<1>4. StatesTold
  BY <1>0, <1>2 DEF StatesTold, Tells, ReadStates
<1>5. MadeOnly /\ ActsVpn
  BY <1>0, <1>1, <1>2, VpnsAssumption DEF MadeOnly, Made, ActsVpn, NoPath
<1>6. conns = UpdateActiveAndBusy(Fresh, Started(Read(acts)))
  BY DEF Init, Fresh, Started, Read, FirstMatch
<1>7. PICK as : as = acts
  OBVIOUS
<1>8. PICK cs : cs = Read(as)
  OBVIOUS
<1>9. as \in [DOMAIN as -> Objects] /\ DOMAIN as \subseteq Paths
      /\ \A b \in DOMAIN as : as[b].conn # NoPath => as[b].type = "vpn"
  BY <1>0, <1>5, <1>7 DEF IInv, TypeInv, ServiceType, ActsVpn
<1>10. DOMAIN cs = Present /\ \A v \in Present :
           /\ Unread(cs[v]) /\ Shows(v, cs[v], as, Matches(v, as))
           /\ Matches(v, as) = {} => ~cs[v].active
  <2>0. DOMAIN cs = Present
    BY <1>8 DEF Read
  <2> SUFFICES ASSUME NEW v \in Present
               PROVE  /\ Unread(cs[v]) /\ Shows(v, cs[v], as, Matches(v, as))
                      /\ Matches(v, as) = {} => ~cs[v].active
    BY <2>0
  <2>1. PICK a : a = FirstMatch(v, as)
    OBVIOUS
  <2>2. Matches(v, as) = {} \/ a \in Matches(v, as)
    BY <2>1 DEF FirstMatch
  <2>3. Unread(NewVpn)
    BY DEF NewVpn, Conns, Unread
  <2>4. PICK n \in Conns : n = NewVpn
    BY <2>3 DEF Unread
  <2>5. TakesOver(v, n, as, a, ActiveConnectionsUpdated(v, n, as, a))
    BY <1>9, <2>2, ActiveConnectionsUpdatedSound
  <2>6. PICK listens : listens = Matches(v, as)
    OBVIOUS
  <2>7. v \in Vpns
    BY <1>0
  <2>8. /\ Shows(v, ActiveConnectionsUpdated(v, n, as, a), as, listens)
        /\ Matches(v, as) = {} => ~ActiveConnectionsUpdated(v, n, as, a).active
    BY <1>9, <2>2, <2>6, <2>7, ActiveConnectionsUpdatedShows
  <2>9. cs[v] = ActiveConnectionsUpdated(v, n, as, a)
    BY <1>8, <2>1, <2>4 DEF Read
  <2>10. Unread(cs[v])
    BY <2>3, <2>4, <2>5, <2>9 DEF Unread, TakesOver
  <2> QED
    BY <2>6, <2>8, <2>9, <2>10
<1>11. PICK start0 : start0 = Started(cs)
  OBVIOUS
<1>12. /\ start0 \in [DOMAIN start0 -> Conns] /\ DOMAIN start0 = Present
       /\ \A v \in Present : /\ start0[v].active = cs[v].active
                             /\ start0[v].busy = cs[v].busy /\ start0[v].path = cs[v].path
  BY <1>0, <1>10, <1>11, StartedSound DEF StartsAs
<1>13. PICK f : f = conns
  OBVIOUS
<1>14. /\ DOMAIN f = Present
       /\ \A v \in Present : /\ f[v].active = cs[v].active
                             /\ f[v].busy = cs[v].busy /\ f[v].path = cs[v].path
  <2>1. f = UpdateActiveAndBusy(Fresh, start0)
    BY <1>6, <1>7, <1>8, <1>11, <1>13
  <2> QED
    BY <1>0, <1>12, <2>1, UpdateShows
<1>15. \A v \in Present : /\ Shows(v, f[v], as, Matches(v, as))
                          /\ f[v].active => Matches(v, as) # {}
  BY <1>10, <1>14, ShowsSame
<1>16. ShownInv
  BY <1>0, <1>7, <1>13, <1>14, <1>15 DEF ShownInv
<1> QED
  BY <1>0, <1>2, <1>3, <1>4, <1>5, <1>16 DEF ToldInv, OtherInv

LEMMA NextTold ==
    ASSUME IInv, ToldInv, OtherInv, [Next]_vars
    PROVE  ToldInv'
<1>1. CASE UNCHANGED vars
  <2>1. UNCHANGED <<nmActive, owner, acts, sig, conns, links, req, refused>>
    BY <1>1 DEF vars
  <2>2. \A v : Early(v) => Early(v)'
    BY <2>1 DEF Early, Asked, ListComes
  <2> QED
    BY <2>1, <2>2, ShownStays, StillTold DEF ToldInv
<1>2. CASE HandleSignal
  BY <1>2, SignalTold
<1>3. CASE NMRefuse
  BY <1>3, RefuseTold
<1>4. CASE NMDeactivate
  BY <1>4, DeactivateTold
<1>5. CASE NMOther
  BY <1>5, OtherTold
<1> QED
  BY <1>1, <1>2, <1>3, <1>4, <1>5, UserTold, ActivateTold, ProgressTold, SettingsTold DEF Next

(* Nothing on its way: what is known is what is. *)
LEMMA ToldIsShown ==
    ASSUME IInv, ToldInv, OtherInv
    PROVE  ShownIsActive
<1> SUFFICES ASSUME AtRest, NEW v \in DOMAIN conns \cap Present
             PROVE  LET up == \E a \in DOMAIN nmActive : nmActive[a].conn = v
                    IN  /\ up => conns[v].active
                        /\ conns[v].active => up \/ v \in refused
                        /\ ~conns[v].busy
  BY DEF ShownIsActive
<1>1. /\ sig = <<>> /\ req = <<>> /\ v \in Vpns /\ v # NoPath
      /\ \A a \in DOMAIN nmActive : nmActive[a].state = "activated"
  BY VpnsAssumption DEF AtRest, Present, NoPath
<1>2. DOMAIN sig = {} /\ DOMAIN req = {} /\ Places(sig) = {0}
  BY <1>1 DEF Places
<1>3. DOMAIN acts = DOMAIN nmActive
  BY <1>2 DEF ToldInv, ListsTold, Lists, IsList, ListAt
<1>4. ASSUME NEW a \in DOMAIN acts, a # Other
      PROVE  acts[a].state = "activated" /\ acts[a].conn = nmActive[a].conn
  <2>1. acts[a].type = "vpn" /\ acts[a].state = nmActive[a].state
    BY <1>2, <1>3, <1>4 DEF ToldInv, StatesTold, Tells, ReadStates, IsState
  <2>2. acts[a].conn = owner[a] /\ nmActive[a].conn = owner[a]
    BY <1>3, <1>4, <2>1 DEF IInv, Owned, ActsOwned, NMOwned, Mine
  <2> QED
    BY <1>1, <1>3, <2>1, <2>2
<1>5. Other \in DOMAIN acts => acts[Other].conn # v /\ nmActive[Other].conn # v
  <2>1. ASSUME Other \in DOMAIN acts, acts[Other].conn = v PROVE FALSE
    <3>1. acts[Other].type = "vpn"
      BY <1>1, <2>1 DEF ToldInv, ActsVpn
    <3> QED
      BY <1>1, <2>1, <3>1 DEF IInv, Owned, ActsOwned, NMOwned, Mine
  <2> QED
    BY <1>1, <1>3, <2>1 DEF OtherInv
<1>6. \A a \in DOMAIN acts : acts[a].conn = v <=> nmActive[a].conn = v
  BY <1>4, <1>5
<1>7. Matches(v, acts) # {} <=> \E a \in DOMAIN nmActive : nmActive[a].conn = v
  BY <1>3, <1>6 DEF Matches
<1>8. PICK c : c = conns[v]
  OBVIOUS
<1>9. Shows(v, c, acts, links[v]) /\ (c.active /\ Matches(v, acts) = {} => v \in refused)
  BY <1>2, <1>8 DEF ToldInv, ShownInv, Early, Asked, ListComes
<1>10. CASE Matches(v, acts) = {}
  BY <1>7, <1>8, <1>9, <1>10 DEF Shows
<1>11. CASE Matches(v, acts) # {}
  <2>1. /\ c.path \in Matches(v, acts)
        /\ STATE_ACTIVE_MAP(acts[c.path].state) => c.active
        /\ c.busy <=> STATE_BUSY_MAP(acts[c.path].state)
    BY <1>9, <1>11 DEF Shows
  <2>2. acts[c.path].state = "activated"
    BY <1>4, <1>5, <2>1 DEF Matches
  <2>3. c.active /\ ~c.busy
    BY <2>1, <2>2 DEF STATE_ACTIVE_MAP, STATE_BUSY_MAP
  <2> QED
    BY <1>7, <1>8, <1>11, <2>3
<1> QED
  BY <1>10, <1>11

(* When nothing is on its way and NetworkManager is at rest, a connection  *)
(* shows that it is active exactly when it is, and shows no activity,      *)
(* whichever lists and states were read late, twice or of objects that     *)
(* were gone; only an activation that was refused shows active in vain.    *)
THEOREM VpnShownIsActive == Spec => []ShownIsActive
<1>1. Init => IInv /\ ToldInv /\ OtherInv
  BY InitIInv, InitTold
<1>2. IInv /\ ToldInv /\ OtherInv /\ [Next]_vars => (IInv /\ ToldInv /\ OtherInv)'
  BY NextIInv, NextTold, OtherStays
<1>3. IInv /\ ToldInv /\ OtherInv => ShownIsActive
  BY ToldIsShown
<1> QED
  BY <1>1, <1>2, <1>3, PTL DEF Spec
=============================================================================
