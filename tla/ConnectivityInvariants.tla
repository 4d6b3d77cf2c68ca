------------------------- MODULE ConnectivityInvariants ---------------------
(***************************************************************************)
(* The inductive invariants of Connectivity, and the predicates they are   *)
(* made of: the types of service, bus and client (TypeInv), what waits to  *)
(* be announced (PendInv), what is on its way (NewsInv), and what          *)
(* AddedIsListed (ReplyInv), NoEcho (EchoInv) and AtRestMirrored           *)
(* (MirrorInv) need.                                                       *)
(*                                                                         *)
(* The invariants look along the bus, at what the client will know by the  *)
(* time it takes a message.                                                *)
(***************************************************************************)
EXTENDS Connectivity

(* The objects of the service that can be named, and the properties each   *)
(* may have.                                                               *)
Objects == {Private, Status} \cup {ModemObject(p) : p \in Nat} \cup {SimObject(p) : p \in Nat}

Properties(o) ==
    {p \in PrivateProperties : o = Private} \cup {p \in StatusProperties : o = Status}
    \cup {p \in {"Sim"} : \E n \in Nat : o = ModemObject(n)}
    \cup {p \in SimProperties : \E n \in Nat : o = SimObject(n)}

(* A function, and a sequence: whatever their values are.                  *)
IsMap(f) == f = [x \in DOMAIN f |-> f[x]]

IsSeq(s) == \E S : s \in Seq(S)

\* What may be said of an object while the manager has n SIMs: they are numbered
\* from 1, in every life of the service.
Values(o, vs, n) ==
    /\ IsMap(vs) /\ DOMAIN vs \subseteq Properties(o)
    /\ "Sims" \in DOMAIN vs => \E k \in 0 .. n : vs["Sims"] = 1 .. k
    /\ "Modems" \in DOMAIN vs => vs["Modems"] \subseteq Nat
    /\ "SimForMobileData" \in DOMAIN vs => vs["SimForMobileData"] \in 0 .. n
    /\ "Sim" \in DOMAIN vs => vs["Sim"] \in 0 .. n

-----------------------------------------------------------------------------
(* Maps and sequences                                                      *)

\* t is s with b behind it.
Behind(s, b, t) ==
    /\ IsSeq(t) /\ Len(t) = Len(s) + Len(b)
    /\ \A n \in DOMAIN t : t[n] = IF n <= Len(s) THEN s[n] ELSE b[n - Len(s)]

-----------------------------------------------------------------------------
(* Announcements                                                           *)

(* The signal that is sent for object o of the queue q.                    *)
Signal(q, o) == [type |-> "changed", object |-> o, values |-> q[o]]

\* b has one message or more for every object of q, and no other.
Announced(b, q) ==
    /\ IsSeq(b)
    /\ \A n \in DOMAIN b : \E o \in DOMAIN q : b[n] = Signal(q, o)
    /\ \A o \in DOMAIN q : \E n \in DOMAIN b : b[n] = Signal(q, o)

(* The messages of a bus.                                                  *)
Elements(s) == {s[n] : n \in DOMAIN s}

-----------------------------------------------------------------------------
(* The client's copies                                                     *)

(* The objects a client with these modems and SIMs keeps caches of.        *)
ClientObjects(ms, ss) ==
    {Private, Status} \cup {ModemObject(p) : p \in ms} \cup {SimObject(p) : p \in ss}

(* What a call may ask for while the manager has n SIMs.                   *)
Request(e, n) ==
    /\ e.method = "setSimForMobileData" => e.path \in 0 .. n
    /\ e.method = "Set" => e.flag \in Flags /\ e.value \in BOOLEAN
    /\ e.method = "SetRoaming" => e.value \in BOOLEAN

Calls(cs, n) == \A k \in DOMAIN cs : Request(cs[k], n)

\* A client has these fields.
IsClient(c) ==
    c = [cache |-> c.cache, sims |-> c.sims, modems |-> c.modems, vpns |-> c.vpns,
         choice |-> c.choice, mine |-> c.mine, calls |-> c.calls]

(* The types of the client: its SIMs are numbered from 1, and it has a     *)
(* cache for each listed object.                                           *)
Client(c, n) ==
    /\ IsClient(c) /\ IsMap(c.cache) /\ IsMap(c.modems) /\ IsSeq(c.calls)
    /\ \E k \in 0 .. n : c.sims = 1 .. k
    /\ DOMAIN c.modems \subseteq Nat
    /\ DOMAIN c.cache = ClientObjects(DOMAIN c.modems, c.sims)
    /\ \A o \in DOMAIN c.cache : Values(o, c.cache[o], n)
    /\ c.choice \in 0 .. n /\ c.mine \in BOOLEAN
    /\ Calls(c.calls, n)

\* A modem shows the SIM its object names, if that is listed.
ModemsShown(c) ==
    \A p \in DOMAIN c.modems : "Sim" \in DOMAIN c.cache[ModemObject(p)] =>
        c.modems[p] = getSimByPath(c.sims, c.cache[ModemObject(p)]["Sim"])

\* What the service answers is well typed.
ReadsTyped(n) == n \in Nat /\ \A o \in Objects : Values(o, Read(o), n)

\* Beside o an object of d is read anew or as it was in c.
Kept(c, d, o) ==
    \A x \in DOMAIN d.cache : x # o =>
        d.cache[x] = Read(x) \/ (x \in DOMAIN c.cache /\ d.cache[x] = c.cache[x])

(* The client's choice, and what it has told of it, are the same.          *)
SameChoice(c, d) == d.choice = c.choice /\ d.mine = c.mine /\ d.calls = c.calls

\* cs are the caches of c for the modems, or SIMs, ps: the old ones, and new ones read.
ModemsCached(c, n, ps, cs) ==
    /\ IsMap(cs) /\ DOMAIN cs = ClientObjects(ps, c.sims)
    /\ \A o \in DOMAIN cs : Values(o, cs[o], n)
    /\ \A o \in DOMAIN cs : cs[o] = IF o \in DOMAIN c.cache THEN c.cache[o] ELSE Read(o)

SimsCached(c, n, ps, cs) ==
    /\ IsMap(cs) /\ DOMAIN cs = ClientObjects(DOMAIN c.modems, ps)
    /\ \A o \in DOMAIN cs : Values(o, cs[o], n)
    /\ \A o \in DOMAIN cs : cs[o] = IF o \in DOMAIN c.cache THEN c.cache[o] ELSE Read(o)

(* The SIM that the service's choice names, if it is listed.               *)
Shown(c) == getSimByPath(c.sims, Cached(c, Private, "SimForMobileData", NoPath))

\* d is c with another choice, told to the service unless it is c's or cached.
Chosen(c, d, p, by, mine) ==
    /\ d = [cache |-> c.cache, sims |-> c.sims, modems |-> c.modems, vpns |-> c.vpns,
            choice |-> p, mine |-> mine, calls |-> d.calls]
    /\ \/ d.calls = c.calls
       \/ up /\ d.calls = Append(c.calls, [method |-> "setSimForMobileData", path |-> p, by |-> by])
    /\ (p = c.choice \/ p = Cached(c, Private, "SimForMobileData", -1)) => d.calls = c.calls
    /\ up /\ p # c.choice /\ p # Cached(c, Private, "SimForMobileData", -1) =>
           d.calls = Append(c.calls, [method |-> "setSimForMobileData", path |-> p, by |-> by])

\* The client c with vs in its cache of o.
Caching(c, o, vs) == [c EXCEPT !.cache[o] = vs]

(* d is c with vs in the cache of o.                                       *)
Recached(c, d, o, vs, n) ==
    /\ Client(d, n) /\ d.cache[o] = vs /\ DOMAIN d.cache = DOMAIN c.cache
    /\ \A x \in DOMAIN c.cache : x # o => d.cache[x] = c.cache[x]
    /\ d.sims = c.sims /\ d.modems = c.modems /\ d.vpns = c.vpns /\ SameChoice(c, d)
    /\ (\A p : o # ModemObject(p)) /\ ModemsShown(c) => ModemsShown(d)

(* The slot of p runs: p is among the values, and differs if it must.      *)
Taken(c, o, vs, p, always) ==
    p \in DOMAIN vs /\ (always \/ p \notin DOMAIN c.cache[o] \/ vs[p] # c.cache[o][p])

\* d is c after the properties S among vs were stored for Private.
Stores(c, d, n, vs, S) ==
    /\ Client(d, n) /\ ModemsShown(d) /\ Kept(c, d, Private)
    /\ d.cache[Private] = Over(Only(vs, S), c.cache[Private])

(* The client's choice is the service's, where that is listed.             *)
Settled(d) == d.choice = Shown(d) /\ ~d.mine

\* What OneChanged does with a property of Private, up to its slot.
Change(c, n, vs, p, always) ==
    LET d == OneChanged(c, Private, vs, p, always)
    IN  /\ ~Taken(c, Private, vs, p, always) => d = c /\ Stores(c, c, n, vs, {p})
        /\ Taken(c, Private, vs, p, always) => \E e :
               /\ d = PropertyChanged(e, Private, p, vs[p])
               /\ Stores(c, e, n, vs, {p}) /\ e.cache[Private][p] = vs[p]
               /\ \A x \in DOMAIN c.cache[Private] :
                      x # p => x \in DOMAIN e.cache[Private]
                               /\ e.cache[Private][x] = c.cache[Private][x]
               /\ p \in DOMAIN e.cache[Private]
               /\ e.sims = c.sims /\ e.modems = c.modems /\ e.vpns = c.vpns /\ SameChoice(c, e)

\* The lists are those that are cached.
ListsShown(c) ==
    /\ "Modems" \in DOMAIN c.cache[Private] => DOMAIN c.modems = c.cache[Private]["Modems"]
    /\ "Sims" \in DOMAIN c.cache[Private] => c.sims = c.cache[Private]["Sims"]
    /\ "VpnConnections" \in DOMAIN c.cache[Private] => c.vpns = c.cache[Private]["VpnConnections"]

\* What the values vs of Private make of the client c, all of them if always.
TookPrivate(c, d, vs, always) ==
    LET calls == /\ "SimForMobileData" \in DOMAIN vs =>
                        getSimByPath(c.sims, vs["SimForMobileData"])
                            \in {c.choice, vs["SimForMobileData"]}
                 /\ "Sims" \in DOMAIN vs =>
                        /\ "SimForMobileData" \in DOMAIN d.cache[Private]
                        /\ d.cache[Private]["SimForMobileData"] \in vs["Sims"] \cup {NoPath}
    IN  /\ "Modems" \in DOMAIN vs => DOMAIN d.modems = vs["Modems"]
        /\ "Modems" \notin DOMAIN vs => DOMAIN d.modems = DOMAIN c.modems
        /\ "Sims" \in DOMAIN vs => d.sims = vs["Sims"]
        /\ "Sims" \notin DOMAIN vs => d.sims = c.sims
        /\ "VpnConnections" \in DOMAIN vs => d.vpns = vs["VpnConnections"]
        /\ "VpnConnections" \notin DOMAIN vs => d.vpns = c.vpns
        /\ Settled(d) \/ (SameChoice(c, d) /\ Shown(d) = Shown(c))
        /\ always /\ "Sims" \in DOMAIN vs => Settled(d)
        /\ calls => d.calls = c.calls

\* d shows what c does, but for a modem's SIM.
Alike(c, d) ==
    /\ d.sims = c.sims /\ DOMAIN d.modems = DOMAIN c.modems /\ d.vpns = c.vpns
    /\ d.cache[Private] = c.cache[Private] /\ SameChoice(c, d)

-----------------------------------------------------------------------------
(* The service's objects                                                   *)

(* The types of the manager.                                               *)
Manager(m) ==
    /\ m = [flags |-> m.flags, sims |-> m.sims, choice |-> m.choice, modems |-> m.modems,
            bits |-> m.bits]
    /\ m.flags \in [Flags -> BOOLEAN]
    /\ m.sims \subseteq Iccids /\ m.choice \in m.sims \cup {NoSim}
    /\ IsMap(m.modems) /\ DOMAIN m.modems \subseteq Serials
    /\ \A x \in DOMAIN m.modems : m.modems[x] \in m.sims \cup {NoSim}
    /\ m.bits \in [Iccids -> [SimProperties -> BOOLEAN]]

(* The path under which the service shows SIM i.                           *)
PathIn(s, i) == IF i = NoSim THEN NoPath ELSE s.sims[i]

ModemAt(d, p) == d = [path |-> d.path, sim |-> p]

(* The objects of a service that is up: one for each SIM, numbered from 1, *)
(* and one for each modem, which shows the path of the SIM the manager has *)
(* in it.                                                                  *)
Service(m, s) ==
    /\ s = [sims |-> s.sims, modems |-> s.modems, vpns |-> s.vpns, addQueue |-> s.addQueue,
            nextModem |-> s.nextModem, nextVpn |-> s.nextVpn]
    /\ IsMap(s.sims) /\ DOMAIN s.sims = m.sims /\ Paths(s.sims) = 1 .. Cardinality(m.sims)
    /\ \A i, j \in m.sims : s.sims[i] = s.sims[j] => i = j
    /\ IsMap(s.modems) /\ DOMAIN s.modems = DOMAIN m.modems
    /\ \A x \in DOMAIN s.modems :
          /\ ModemAt(s.modems[x], PathIn(s, m.modems[x]))
          /\ s.modems[x].path \in 1 .. s.nextModem - 1
    /\ \A x, y \in DOMAIN s.modems : s.modems[x].path = s.modems[y].path => x = y
    /\ s.nextModem \in Nat \ {0}

\* The objects of a service with n SIMs: its own, and those of modems.
ObjectsOf(n) ==
    {Private, Status} \cup {ModemObject(p) : p \in Nat} \cup {SimObject(p) : p \in 1 .. n}

-----------------------------------------------------------------------------
(* What is announced, and the messages on their way                        *)

(* The types of the queue of announcements, of a message and of the bus.   *)
Pending(q, n) ==
    /\ IsMap(q) /\ IsFiniteSet(DOMAIN q) /\ DOMAIN q \subseteq ObjectsOf(n)
    /\ \A o \in DOMAIN q : Values(o, q[o], n)

Message(m, n) ==
    \/ m.type = "changed" /\ m.object \in ObjectsOf(n) /\ Values(m.object, m.values, n)
    \/ m.type = "owner" /\ m.object \in {Private, Status, Listed}
    \/ m.type \in {"reply", "lost"}

Messages(b, n) == IsSeq(b) /\ \A m \in Elements(b) : Message(m, n)

\* Replies to the client's calls, and the news that the service is gone.
Answers(e) == IsSeq(e) /\ \A m \in Elements(e) : m.type \in {"reply", "lost"}

-----------------------------------------------------------------------------
(* The types                                                               *)

(* A manager with just these fields.                                       *)
Mgr(F, S, C, M, B) == [flags |-> F, sims |-> S, choice |-> C, modems |-> M, bits |-> B]

(* A service with just these fields.                                       *)
Svc(S, M, V, A, x, y) ==
    [sims |-> S, modems |-> M, vpns |-> V, addQueue |-> A, nextModem |-> x, nextVpn |-> y]

(* A client with its types whose lists and modems show what is cached.     *)
Shows(c, n) == Client(c, n) /\ ModemsShown(c) /\ ListsShown(c)

(* The number of SIMs the manager has.                                     *)
N == Cardinality(mgr.sims)

(* The inductive type invariant.                                           *)
TypeInv ==
    /\ up \in BOOLEAN /\ Manager(mgr) /\ IsFiniteSet(svc.addQueue)
    /\ up => Service(mgr, svc)
    /\ ~up => svc = Gone /\ pend = Empty /\ mgr.modems = Empty
    /\ Pending(pend, N) /\ Messages(bus, N) /\ Shows(cl, N)

\* The client with other calls on their way.
Calling(c, cs) == [c EXCEPT !.calls = cs]

(* The manager m with modems M.                                            *)
ModemsOf(m, M) == Mgr(m.flags, m.sims, m.choice, M, m.bits)

(* The service s with modem objects M.                                     *)
ModemsIn(s, M, next) == Svc(s.sims, M, s.vpns, s.addQueue, next, s.nextVpn)

\* One modem holds another SIM; its object shows that one's path.
Exchanged(f, x, v) == [f EXCEPT ![x] = v]

\* The manager and the service with one SIM more, and the manager with a choice.
WithSim(m, i) == Mgr(m.flags, m.sims \cup {i}, m.choice, m.modems, m.bits)

Choosing(m, i) == Mgr(m.flags, m.sims, i, m.modems, m.bits)

SimIn(s, i, k) == Svc(With(s.sims, i, k), s.modems, s.vpns, s.addQueue, s.nextModem, s.nextVpn)

(* What a client hears of a service that starts.                           *)
Started == <<Owner(Private), Owner(Status), Owner(Listed)>>

\* The user's other requests leave the client's copies alone.
UserCalls(e) ==
    /\ UNCHANGED <<up, mgr, nm, svc, pend, hist>>
    /\ Request(e, N) /\ e.method # "setSimForMobileData"
    /\ cl' \in {cl, Call(cl, e)}
    /\ bus' = bus \/ (~up /\ \E id : bus' = Append(bus, Reply(id, NoPath)))

-----------------------------------------------------------------------------
(* What a step of the service says                                         *)

(* The lists of objects; m says the property p of o; q holds it; the       *)
(* objects the service s has.                                              *)
Lists == {"Modems", "Sims", "VpnConnections"}

Says(m, o, p) == m.type = "changed" /\ m.object = o /\ p \in DOMAIN m.values

Holds(q, o, p) == o \in DOMAIN q /\ p \in DOMAIN q[o]

Served(s) ==
    {Private, Status} \cup {ModemObject(s.modems[x].path) : x \in DOMAIN s.modems}
        \cup {SimObject(s.sims[i]) : i \in DOMAIN s.sims}

\* What waits is what the service has: the lists of objects never wait.
Current(q, m, s) ==
    \A o \in DOMAIN q : o \in Served(s) => \A p \in DOMAIN q[o] : q[o][p] = GetAll(m, s, o)[p]

(* No modem with number k or higher is in the queue; no list waits in it.  *)
NoModemFrom(q, k) == \A j \in Nat : ModemObject(j) \in DOMAIN q => j < k

Waiting(q) == \A p \in Lists : ~Holds(q, Private, p)

(* The invariant of the queue: no list waits, what waits is current, and   *)
(* there are no modems in it that come later.                              *)
PendInv == Waiting(pend) /\ Current(pend, mgr, svc) /\ NoModemFrom(pend, svc.nextModem)

(* The property p of o is as it was.                                       *)
Same(m, s, o, p) == o \in Served(svc) /\ GetAll(m, s, o)[p] = GetAll(mgr, svc, o)[p]

\* An object nobody has been told of in this life of the service.
Unheard(o) ==
    \E k \in Nat : (o = ModemObject(k) /\ k >= svc.nextModem) \/ (o = SimObject(k) /\ k > N)

\* Only the named properties of o differ from what the service had.
Untouched(m, s, o, names) ==
    \A x \in Served(s) : \A p \in Properties(x) :
        (x = o /\ p \in names) \/ Same(m, s, x, p) \/ Unheard(x)

\* q says what has changed, and all that waited.
Tells(q, m, s) ==
    /\ Current(q, m, s) /\ NoModemFrom(q, s.nextModem)
    /\ \A o \in Served(s) : \A p \in Properties(o) :
          Holds(q, o, p) \/ Same(m, s, o, p) \/ Unheard(o)
    /\ \A o, p : Holds(pend, o, p) => Holds(q, o, p)

-----------------------------------------------------------------------------
(* What the service's operations change                                    *)

(* The paths of the modems.                                                *)
ModemPaths(s) == {s.modems[x].path : x \in DOMAIN s.modems}

\* No bit but one differs.
OneBit(m, i, p) ==
    \A j \in Iccids : \A r \in SimProperties :
        ~(j = i /\ r = p) => m.bits[j][r] = mgr.bits[j][r]

-----------------------------------------------------------------------------
(* A step of the service that keeps its SIMs: q is announced later or now, *)
(* and calls are answered.                                                 *)

Waits(q, replies) ==
    /\ pend' = q /\ bus' = bus \o replies /\ Waiting(q)
    /\ \A e \in Elements(replies) : e.path = NoPath

Speaks(q, replies) ==
    /\ pend' = Empty /\ bus' = bus \o Signals(q) \o replies
    /\ \A e \in Elements(replies) :
          \/ e.path = NoPath
          \/ Holds(q, Private, "VpnConnections") /\ e.path \in q[Private]["VpnConnections"]

Serving(q, replies) ==
    /\ up /\ mgr'.sims = mgr.sims /\ svc'.sims = svc.sims /\ svc.nextModem <= svc'.nextModem
    /\ Pending(q, N) /\ Tells(q, mgr', svc') /\ ~Holds(q, Private, "Sims")
    /\ IsSeq(replies) /\ \A e \in Elements(replies) : e.type = "reply"
    /\ Waits(q, replies) \/ Speaks(q, replies)

-----------------------------------------------------------------------------
(* What the client and the choice of a SIM are after a step of the service *)

(* A call that chooses a SIM.                                              *)
Asks(e) == e.method = "setSimForMobileData"

\* The client waits; the manager may choose a SIM.
Awaits ==
    /\ up' = up /\ cl' = cl
    /\ \/ hist' = hist /\ mgr'.choice = mgr.choice
       \/ hist' = Contested

\* The client's first call is handled.
Handled ==
    /\ up' = up /\ hist' = hist /\ cl.calls # <<>> /\ cl' = Calling(cl, Tail(cl.calls))
    /\ Asks(Head(cl.calls)) => PathIn(svc, mgr'.choice) = Head(cl.calls).path
    /\ ~Asks(Head(cl.calls)) => mgr'.choice = mgr.choice

(* A step of the manager or the service other than a new SIM, a crash and  *)
(* a start.                                                                *)
ServiceSteps == (\E q, replies : Serving(q, replies)) /\ (Awaits \/ Handled)

\* A SIM is added: q with the list of SIMs is announced before a choice of it.
Enlarges(q, m) ==
    /\ up /\ up' = up /\ cl' = cl /\ N' = N + 1 /\ svc.nextModem <= svc'.nextModem
    /\ Pending(q, N + 1) /\ Tells(q, m, svc') /\ bus' = bus \o Signals(q)
    /\ Holds(q, Private, "Sims") /\ q[Private]["Sims"] = 1 .. N + 1
    /\ ~Holds(q, Private, "VpnConnections") /\ ~Holds(q, Private, "Modems")
    /\ Holds(q, Private, "SimForMobileData") => q[Private]["SimForMobileData"] \in 0 .. N
    /\ \A o \in Served(svc') : \A p \in Properties(o) :
          Holds(pend', o, p) \/ GetAll(mgr', svc', o)[p] = GetAll(m, svc', o)[p]
    /\ PendInv'
    /\ \/ hist' = hist /\ PathIn(svc', mgr'.choice) = PathIn(svc, mgr.choice)
       \/ hist' = Contested

-----------------------------------------------------------------------------
(* A new connection is listed before its path is told                      *)

(* The message m lists the connection p.                                   *)
ListsVpn(m, p) == Says(m, Private, "VpnConnections") /\ p \in m.values["VpnConnections"]

\* A message after which a listed connection still is.
Passes(m, p) ==
    /\ m.type \in {"reply", "changed"}
    /\ Says(m, Private, "VpnConnections") => p \in m.values["VpnConnections"]

\* At place n of the bus p will be listed, if it was in vs or some message lists it.
ListedAt(b, vs, n, p) ==
    \/ p \in vs /\ \A k \in 1 .. n - 1 : Passes(b[k], p)
    \/ \E l \in 1 .. n - 1 : ListsVpn(b[l], p) /\ \A k \in l + 1 .. n - 1 : Passes(b[k], p)

(* What makes AddedIsListed inductive: a path that is told on the bus is   *)
(* listed before it, and no message in between takes it back.              *)
ReplyInv ==
    \A n \in DOMAIN bus :
        bus[n].type = "reply" /\ bus[n].path # NoPath => ListedAt(bus, cl.vpns, n, bus[n].path)

\* e has messages that announce q, and after them only the replies.
Spoken(e, q, replies) ==
    /\ IsSeq(e)
    /\ \E k \in Nat :
          /\ \A n \in DOMAIN e : n <= k => \E o \in DOMAIN q : e[n] = Signal(q, o)
          /\ \A n \in DOMAIN e : n > k => e[n] \in Elements(replies)
          /\ \A o \in DOMAIN q : \E n \in DOMAIN e : n <= k /\ e[n] = Signal(q, o)

\* t is b and an announcement of q with the replies behind it.
SpokenTo(t, b, q, replies) == t = b \o Signals(q) \o replies

-----------------------------------------------------------------------------
(* The bus grows at its end and is taken from its head                     *)

\* t is s, and then the messages of e.
Appends(t, s, e) ==
    \E len, more \in Nat :
        /\ DOMAIN s = 1 .. len /\ DOMAIN t = 1 .. len + more
        /\ \A n \in 1 .. len : t[n] = s[n]
        /\ \A n \in len + 1 .. len + more : t[n] \in Elements(e)
        /\ \A m \in Elements(e) : \E n \in len + 1 .. len + more : t[n] = m

\* t is s without its head.
Takes(t, s) ==
    \E len \in Nat :
        /\ len >= 1 /\ DOMAIN s = 1 .. len /\ DOMAIN t = 1 .. len - 1 /\ Head(s) = s[1]
        /\ \A n \in 1 .. len - 1 : t[n] = s[n + 1]

-----------------------------------------------------------------------------
(* The client never answers an announcement                                *)

(* m says which SIMs there are; m is the news of the owner of o.           *)
SaysSims(m) == Says(m, Private, "Sims")

Owns(m, o) == m.type = "owner" /\ m.object = o

\* The service that is up has told of itself since the last one died.
Owned ==
    up => \A n \in DOMAIN bus : bus[n].type = "lost" =>
              \A o \in {Private, Status, Listed} : \E m \in DOMAIN bus : m > n /\ Owns(bus[m], o)

\* The client that has heard of the service has the chosen SIM.
HasRead ==
    up /\ (\A n \in DOMAIN bus : ~Owns(bus[n], Private)) =>
        "SimForMobileData" \in DOMAIN cl.cache[Private]

\* The lists of SIMs on their way grow, and the last one is the manager's.
Growing ==
    /\ \A n, m \in DOMAIN bus : n < m /\ SaysSims(bus[n]) /\ SaysSims(bus[m]) =>
           bus[n].values["Sims"] \subseteq bus[m].values["Sims"]
    /\ \A n \in DOMAIN bus : SaysSims(bus[n]) =>
           \E m \in DOMAIN bus : SaysSims(bus[m]) /\ bus[m].values["Sims"] = 1 .. N

(* The client has the chosen SIM in its cache.                             *)
HasChoice(c) == "SimForMobileData" \in DOMAIN c.cache[Private]

\* The list of SIMs at place n of b only adds to the client's, which has a choice by then.
ListAhead(b, c, n) ==
    /\ c.sims \subseteq b[n].values["Sims"]
    /\ \/ \E m \in 1 .. n - 1 : Owns(b[m], Private)
       \/ HasChoice(c) /\ \A m \in 1 .. n - 1 : b[m].type # "lost"

\* At place n of b the client knows the SIM v.
ChoiceAhead(b, c, n, v) ==
    \/ v \in c.sims \cup {NoPath}
    \/ \E m \in 1 .. n - 1 :
          Owns(b[m], Private) \/ (SaysSims(b[m]) /\ v \in b[m].values["Sims"])

(* All calls that choose a SIM are the user's.                             *)
OwnCalls(c) == \A n \in DOMAIN c.calls : Asks(c.calls[n]) => c.calls[n].by = "user"

(* What makes NoEcho inductive, while no reading has overtaken a signal:   *)
(* lists on their way only add SIMs, a choice on its way is of a SIM the   *)
(* client will know by then, and so is the cached one; and when no list is *)
(* on its way the client has all SIMs, or none and no choice.              *)
EchoInv ==
    /\ \A n \in DOMAIN bus : SaysSims(bus[n]) => ListAhead(bus, cl, n)
    /\ \A n \in DOMAIN bus : Says(bus[n], Private, "SimForMobileData") =>
           ChoiceAhead(bus, cl, n, bus[n].values["SimForMobileData"])
    /\ (\A n \in DOMAIN bus : ~SaysSims(bus[n])) =>
           cl.sims = 1 .. N \/ (cl.sims = {} /\ cl.choice = NoPath)
    /\ up /\ (\A n \in DOMAIN bus : ~SaysSims(bus[n]) /\ ~Owns(bus[n], Private)) =>
           cl.sims = 1 .. N
    /\ HasChoice(cl) => cl.cache[Private]["SimForMobileData"] \in cl.sims \cup {NoPath}
    /\ OwnCalls(cl)

(* The invariants of the bus that hold whether or not a reading overtook   *)
(* signals.                                                                *)
NewsInv == Owned /\ HasRead /\ Growing

\* A step that says no list of SIMs, in short.
Adds(e) ==
    /\ Appends(bus', bus, e) /\ N' = N /\ cl'.sims = cl.sims /\ cl'.cache = cl.cache
    /\ cl.sims = {} => cl'.choice \in {cl.choice, NoPath}
    /\ OwnCalls(cl) => OwnCalls(cl')
    /\ \A m \in Elements(e) : ~SaysSims(m)
    /\ \A m \in Elements(e) : Says(m, Private, "SimForMobileData") =>
           up /\ m.values["SimForMobileData"] \in 0 .. N
    /\ up' => \/ up /\ \A m \in Elements(e) : m.type # "lost"
              \/ e = Started

-----------------------------------------------------------------------------
(* What the client will have heard when the bus is empty                   *)

(* The news at which the client reads the object o.                        *)
Herald(o) == IF o \in {Private, Status} THEN o ELSE Listed

\* After m the client knows p of o anew, or not at all; after m it has the value v.
Concerns(m, o, p) == m.type = "lost" \/ Owns(m, Herald(o)) \/ Says(m, o, p)

Conveys(m, o, p, v) == Owns(m, Herald(o)) \/ (Says(m, o, p) /\ m.values[p] = v)

\* The client has the value v, if it has a cache of o.
CachedAs(c, o, p, v) == o \in DOMAIN c.cache => p \in DOMAIN c.cache[o] /\ c.cache[o][p] = v

(* The client c that takes what is on the bus b has the value v of p in    *)
(* the end: the last message about p conveys v, or the client has it.      *)
Heard(b, c, o, p, v) ==
    /\ \A n \in DOMAIN b : Concerns(b[n], o, p) =>
           \E m \in DOMAIN b : m >= n /\ Conveys(b[m], o, p, v)
    /\ (\A n \in DOMAIN b : ~Concerns(b[n], o, p)) => CachedAs(c, o, p, v)

\* Everything the service has waits to be announced, or will have been heard.
HeardInv ==
    up => \A o \in Served(svc) : \A p \in Properties(o) :
              Holds(pend, o, p) \/ Heard(bus, cl, o, p, GetAll(mgr, svc, o)[p])

(* The message m is about a modem with the number k.                       *)
Names(m, k) ==
    \/ m.type = "changed" /\ m.object = ModemObject(k)
    \/ Says(m, Private, "Modems") /\ k \in m.values["Modems"]

\* What is said of a modem k is of another life of the service, and will be forgotten.
Unnamed(b, c, k) ==
    /\ \A n \in DOMAIN b : Names(b[n], k) => \E m \in DOMAIN b : m > n /\ Owns(b[m], Private)
    /\ (\A n \in DOMAIN b : ~Owns(b[n], Private)) => k \notin DOMAIN c.modems

(* Of modems that the service will number later the client has not heard.  *)
FreshInv == up => \A k \in Nat : k >= svc.nextModem => Unnamed(bus, cl, k)

(* The news of Private is followed by that of the listed objects.          *)
Paired ==
    \A n \in DOMAIN bus : Owns(bus[n], Private) =>
        \E m \in DOMAIN bus : m > n /\ Owns(bus[m], Listed)

\* The messages e are signals of q, one or more for each object, and replies.
SaysAll(e, q) ==
    /\ IsSeq(e)
    /\ \A x \in Elements(e) : x.type = "reply" \/ \E o \in DOMAIN q : x = Signal(q, o)
    /\ \A o \in DOMAIN q : Signal(q, o) \in Elements(e)

-----------------------------------------------------------------------------
(* The chosen SIM                                                          *)

\* When the calls cs are handled, and f was the manager's choice, that is v.
Ends(cs, f, v) ==
    /\ \A n \in DOMAIN cs : Asks(cs[n]) => \E m \in DOMAIN cs : m >= n /\ Asks(cs[m]) /\ cs[m].path = v
    /\ (\A n \in DOMAIN cs : ~Asks(cs[n])) => f = v

(* A client that has heard of the service shows its choice, or one of its  *)
(* user that is cached or on its way, and that the manager has not undone. *)
ChoiceInv ==
    up /\ (\A n \in DOMAIN bus : ~Owns(bus[n], Private)) =>
        \/ cl.choice = Shown(cl)
        \/ /\ cl.mine
           /\ "contested" \in hist \/ Ends(cl.calls, PathIn(svc, mgr.choice), cl.choice)

-----------------------------------------------------------------------------
(* When nothing is on its way the client shows what the service has        *)

\* The client has every property of every object it knows.
Copied ==
    \A o \in Served(svc) : \A p \in Properties(o) : CachedAs(cl, o, p, GetAll(mgr, svc, o)[p])

\* The invariants that lead to it, together.
MirrorInv == HeardInv /\ FreshInv /\ Paired /\ ChoiceInv
=============================================================================
