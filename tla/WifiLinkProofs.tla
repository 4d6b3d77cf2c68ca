--------------------------- MODULE WifiLinkProofs ---------------------------
(***************************************************************************)
(* Proofs for WifiLink, for any access points, networks and strengths and  *)
(* without the bounds of TLC's runs: GroupSound, that the networks of the  *)
(* link are what its access points make of them, and LinkAgrees, that its  *)
(* status, its active network and its strength agree with NetworkManager   *)
(* once nothing is under way.                                              *)
(*                                                                         *)
(* The invariant follows the signals that are under way.  The last one of  *)
(* an access point says what NetworkManager has of it now, the first one   *)
(* what the link knows of it; the last change of state is that of the      *)
(* device; and the active connection the link holds is the one of          *)
(* NetworkManager only if it was looked up since that was taken up.        *)
(***************************************************************************)
EXTENDS WifiLink, TLAPS, FiniteSetTheorems, SequenceTheorems

DeviceStates == DownStates \cup BusyStates \cup UpStates

Levels == 0 .. 100

ApSignals ==
    [t : {"added", "removed"}, ap : Aps] \cup [t : {"strength"}, ap : Aps, strength : Strengths]
Signals == ApSignals \cup [t : {"state"}, state : DeviceStates] \cup [t : {"kill"}]

\* f is a function from a part of S to T.
Partial(f, S, T) ==
    /\ f = [x \in DOMAIN f |-> f[x]]
    /\ DOMAIN f \subseteq S
    /\ \A x \in DOMAIN f : f[x] \in T

NetworkKeys == Nat
AccessPoints == [key : NetworkKeys, strength : Levels]
Groups == [key : NetworkKeys, aps : SUBSET Aps, strength : Levels]

NmTyped ==
    /\ nm = [aps |-> nm.aps, used |-> nm.used, dev |-> nm.dev, act |-> nm.act, ap |-> nm.ap,
             saved |-> nm.saved, kill |-> nm.kill]
    /\ Partial(nm.aps, nm.used, Strengths)
    /\ nm.used \subseteq Aps
    /\ nm.dev \in DeviceStates
    /\ nm.act \in 0 .. 3

LinkTyped(l) ==
    /\ l = [raw |-> l.raw, groups |-> l.groups, grouper |-> l.grouper, active |-> l.active,
            conn |-> l.conn, status |-> l.status, signal |-> l.signal, lastState |-> l.lastState,
            kill |-> l.kill, disconnect |-> l.disconnect]
    /\ Partial(l.raw, Aps, AccessPoints)
    /\ Partial(l.groups, Aps, Groups)
    /\ Partial(l.grouper, NetworkKeys, Aps)
    /\ l.active \in DOMAIN l.groups \cup {NoAp}
    /\ l.conn \in -1 .. 3
    /\ l.lastState \in DeviceStates

TypeInv == NmTyped /\ sig \in Seq(Signals) /\ LinkTyped(link)

-----------------------------------------------------------------------------
(* The signals under way                                                   *)

About(i, a) == sig[i] \in ApSignals /\ sig[i].ap = a
IsState(i) == sig[i].t = "state"

NoneAbout(a) == \A i \in DOMAIN sig : ~About(i, a)
NoState == \A i \in DOMAIN sig : ~IsState(i)
LastAbout(i, a) == About(i, a) /\ \A j \in DOMAIN sig : j > i => ~About(j, a)
LastState(i) == IsState(i) /\ \A j \in DOMAIN sig : j > i => ~IsState(j)

\* An access point is added first and once, and removed last and once.
SignalOrder ==
    \A i \in DOMAIN sig, a \in Aps : About(i, a) =>
        /\ a \in nm.used
        /\ sig[i].t = "added" => a \notin DOMAIN link.raw /\ a \notin DOMAIN link.groups
        /\ sig[i].t # "added" =>
               a \in DOMAIN link.raw \/ \E h \in 1 .. i - 1 : About(h, a) /\ sig[h].t = "added"
        /\ \A j \in 1 .. i - 1 : About(j, a) => sig[i].t # "added" /\ sig[j].t # "removed"

\* The last signal of an access point tells how it is now.
SignalsCurrent ==
    \A i \in DOMAIN sig, a \in Aps : LastAbout(i, a) =>
        /\ sig[i].t = "removed" <=> a \notin DOMAIN nm.aps
        /\ sig[i].t = "strength" => nm.aps[a] = sig[i].strength

\* Without a signal under way the link knows it.
RawCurrent ==
    /\ \A a \in Aps : NoneAbout(a) =>
           /\ a \in DOMAIN link.raw <=> a \in DOMAIN nm.aps
           /\ a \in DOMAIN nm.aps => link.raw[a] = [key |-> KeyOf[a], strength |-> nm.aps[a]]
    /\ \A a \in DOMAIN link.raw : link.raw[a].key = KeyOf[a]
                                  \/ (link.raw[a].key = NoKey /\ a \notin DOMAIN nm.aps)
    /\ DOMAIN link.raw \subseteq nm.used /\ DOMAIN link.groups \subseteq nm.used

-----------------------------------------------------------------------------
(* The networks                                                            *)

GroupsOf(l) ==
    /\ \A k \in DOMAIN l.grouper :
           /\ l.grouper[k] \in DOMAIN l.groups
           /\ l.groups[l.grouper[k]].key = k
           /\ l.groups[l.grouper[k]].aps = {a \in DOMAIN l.raw : l.raw[a].key = k}
           /\ l.groups[l.grouper[k]].aps # {}
           /\ l.groups[l.grouper[k]].strength = StrongestOf(l.raw, l.groups[l.grouper[k]].aps)
    /\ \A a \in DOMAIN l.raw : l.raw[a].key \in DOMAIN l.grouper

GroupInv == SignalOrder /\ SignalsCurrent /\ RawCurrent /\ GroupsOf(link)

-----------------------------------------------------------------------------
(* The device and the active connection                                    *)

StatusOf(dev, kill) ==
    CASE dev \in DownStates -> IF kill = "blocked" THEN "disabled" ELSE "offline"
      [] dev \in BusyStates -> "connecting"
      [] dev = "secondaries" -> "connected"
      [] dev = "activated" -> "online"

DeviceInv ==
    /\ \A i \in DOMAIN sig : LastState(i) => sig[i].state = nm.dev
    /\ NoState => link.lastState = nm.dev
    /\ (\A i \in DOMAIN sig : sig[i].t # "kill") => link.kill = nm.kill
    /\ nm.act = NoAct <=> nm.dev \in DownStates
    /\ link.status = StatusOf(link.lastState, link.kill)

\* A change that is under way and does not take the device down.
Rising == \E i \in DOMAIN sig : IsState(i) /\ sig[i].state \notin DownStates

ConnInv ==
    /\ link.lastState \in DownStates /\ ~Rising /\ link.conn # BadAct
           => link.active = NoAp /\ link.conn = NoAct
    /\ link.lastState \in UpStates /\ NoState /\ link.conn # BadAct => link.conn = nm.act
    /\ link.conn = nm.act /\ nm.act # NoAct /\ found
           => /\ link.active \in DOMAIN link.groups
              /\ link.groups[link.active].key \in {KeyOf[nm.ap], NoKey}

SignalOf(l) ==
    LET want == strengthUpdated(l).signal
    IN  l.signal.level = want.level /\ (want.level > 0 => l.signal = want)

IInv == TypeInv /\ GroupInv /\ DeviceInv /\ ConnInv /\ SignalOf(link)

-----------------------------------------------------------------------------
(* Strengths                                                               *)

\* A nonempty set of natural numbers has a least element.
LEMMA Least ==
    ASSUME NEW S, S \subseteq Nat, S # {}
    PROVE  \E x \in S : \A y \in S : x <= y
<1>1. PICK x \in S : \A y \in S : <<y, x>> \notin OpToRel(<, Nat)
  BY NatLessThanWellFounded, WFMin
<1>2. \A y \in S : x \in Nat /\ y \in Nat /\ ~(y < x)
  BY <1>1 DEF OpToRel
<1>3. \A y \in S : x <= y
  BY <1>2
<1> QED
  BY <1>3

\* A nonempty set of strengths has a greatest one, and Max() is it.
LEMMA MaxOfLevels ==
    ASSUME NEW S, S \subseteq Levels, S # {}
    PROVE  Max(S) \in S /\ \A y \in S : y <= Max(S)
<1> DEFINE T == {100 - y : y \in S}
<1>1. T \subseteq Nat /\ T # {}
  <2>1. \A y \in S : y \in Int /\ 0 <= y /\ y <= 100
    BY DEF Levels
  <2>2. \A y \in S : 100 - y \in Nat
    BY <2>1
  <2> QED
    BY <2>2
<1>2. PICK t \in T : \A y \in T : t <= y
  BY <1>1, Least
<1>3. PICK m \in S : t = 100 - m
  OBVIOUS
<1>4. \A y \in S : m >= y
  <2> TAKE y \in S
  <2>1. t <= 100 - y
    BY <1>2
  <2> QED
    BY <2>1, <1>3 DEF Levels
<1>5. Max(S) \in S /\ \A y \in S : Max(S) >= y
  BY <1>4 DEF Max
<1> QED
  BY <1>5 DEF Levels

\* The greatest strength of a set is the one that is in it and not exceeded.
LEMMA MaxIs ==
    ASSUME NEW S, S \subseteq Levels, NEW m \in S, \A y \in S : y <= m
    PROVE  Max(S) = m
<1>1. Max(S) \in S /\ \A y \in S : y <= Max(S)
  BY MaxOfLevels
<1>2. Max(S) <= m /\ m <= Max(S)
  BY <1>1
<1>3. \A y \in S : y \in Int
  BY DEF Levels
<1> QED
  BY <1>1, <1>2, <1>3

\* The greater of two strengths.
LEMMA MaxOfTwo ==
    ASSUME NEW m \in Levels, NEW v \in Levels
    PROVE  \E n \in {m, v} : Max({m, v}) = n /\ m <= n /\ v <= n
<1>1. {m, v} \subseteq Levels /\ {m, v} # {}
  OBVIOUS
<1> QED
  BY <1>1, MaxOfLevels

\* What the strength of a network is: 0, or that of an access point, and not exceeded by one.
LEMMA StrongestIs ==
    ASSUME NEW raw, NEW aps, \A a \in aps : raw[a].strength \in Levels
    PROVE  /\ StrongestOf(raw, aps) \in Levels
           /\ \A a \in aps : raw[a].strength <= StrongestOf(raw, aps)
           /\ StrongestOf(raw, aps) = 0 \/ \E a \in aps : StrongestOf(raw, aps) = raw[a].strength
<1> DEFINE S == {0} \cup {raw[a].strength : a \in aps}
<1>1. S \subseteq Levels /\ S # {}
  BY DEF Levels
<1>2. Max(S) \in S /\ \A y \in S : y <= Max(S)
  BY <1>1, MaxOfLevels
<1>3. StrongestOf(raw, aps) = Max(S)
  BY DEF StrongestOf
<1>4. (\A a \in aps : raw[a].strength \in S) /\ \A y \in S : y = 0 \/ \E a \in aps : y = raw[a].strength
  OBVIOUS
<1> HIDE DEF S
<1> QED
  BY <1>1, <1>2, <1>3, <1>4

\* The strength of a network is characterised by that.
LEMMA StrongestEquals ==
    ASSUME NEW raw, NEW aps, \A a \in aps : raw[a].strength \in Levels,
           NEW m \in Levels, \A a \in aps : raw[a].strength <= m,
           m = 0 \/ \E a \in aps : m = raw[a].strength
    PROVE  StrongestOf(raw, aps) = m
<1> DEFINE S == {0} \cup {raw[a].strength : a \in aps}
<1>1. S \subseteq Levels /\ m \in S /\ \A y \in S : y <= m
  BY DEF Levels
<1>2. Max(S) = m
  BY <1>1, MaxIs
<1> QED
  BY <1>2 DEF StrongestOf

\* A network without access points has strength 0, and 0 does not count among others.
LEMMA StrongestOfSome ==
    ASSUME NEW raw, NEW aps, \A a \in aps : raw[a].strength \in Levels
    PROVE  /\ aps = {} => StrongestOf(raw, aps) = 0
           /\ aps # {} => StrongestOf(raw, aps) = Max({raw[a].strength : a \in aps})
<1>1. ASSUME aps = {} PROVE StrongestOf(raw, aps) = 0
  BY <1>1, StrongestEquals DEF Levels
<1>2. ASSUME aps # {} PROVE StrongestOf(raw, aps) = Max({raw[a].strength : a \in aps})
  <2> DEFINE S == {raw[a].strength : a \in aps}
  <2>1. S \subseteq Levels /\ S # {}
    BY <1>2
  <2>2. Max(S) \in S /\ \A y \in S : y <= Max(S)
    BY <2>1, MaxOfLevels
  <2>3. Max(S) \in Levels /\ (\A a \in aps : raw[a].strength <= Max(S)) /\ \E a \in aps : Max(S) = raw[a].strength
    BY <2>1, <2>2
  <2>4. StrongestOf(raw, aps) = Max(S)
    BY <2>3, StrongestEquals
  <2> QED
    BY <2>4
<1> QED
  BY <1>1, <1>2

\* An access point that is added can only raise the strength.
LEMMA StrongestAdded ==
    ASSUME NEW raw, NEW aps, NEW a, a \notin aps,
           \A x \in aps \cup {a} : raw[x].strength \in Levels
    PROVE  StrongestOf(raw, aps \cup {a}) = Max({StrongestOf(raw, aps), raw[a].strength})
<1> DEFINE m == StrongestOf(raw, aps)
           v == raw[a].strength
<1>1. /\ m \in Levels /\ \A x \in aps : raw[x].strength <= m
      /\ m = 0 \/ \E x \in aps : m = raw[x].strength
  BY StrongestIs
<1>2. v \in Levels
  OBVIOUS
<1>3. PICK n \in {m, v} : Max({m, v}) = n /\ m <= n /\ v <= n
  <2> HIDE DEF m, v
  <2> QED
    BY <1>1, <1>2, MaxOfTwo
<1>4. n \in Levels
  BY <1>1, <1>2
<1>5. \A x \in aps \cup {a} : raw[x].strength <= n
  <2> SUFFICES ASSUME NEW x \in aps PROVE raw[x].strength <= n
    BY <1>3
  <2>1. raw[x].strength <= m
    BY <1>1
  <2>2. \A y \in Levels : y \in Int
    BY DEF Levels
  <2> HIDE DEF m
  <2> QED
    BY <2>1, <2>2, <1>1, <1>3, <1>4
<1>6. n = 0 \/ \E x \in aps \cup {a} : n = raw[x].strength
  <2>1. CASE n = m
    BY <2>1, <1>1
  <2>2. CASE n = v
    BY <2>2
  <2> QED
    BY <2>1, <2>2
<1>7. StrongestOf(raw, aps \cup {a}) = n
  BY <1>4, <1>5, <1>6, StrongestEquals
<1> QED
  BY <1>3, <1>7

\* The strength of a network depends on its access points only.
LEMMA StrongestSame ==
    ASSUME NEW raw, NEW new, NEW aps, \A a \in aps : raw[a].strength \in Levels /\ new[a] = raw[a]
    PROVE  StrongestOf(new, aps) = StrongestOf(raw, aps)
<1>1. {new[a].strength : a \in aps} = {raw[a].strength : a \in aps}
  OBVIOUS
<1> QED
  BY <1>1 DEF StrongestOf
-----------------------------------------------------------------------------
(* Access points that are added, removed or change their strength          *)

IsService(s) ==
    s = [link |-> s.link, item |-> s.item, menus |-> s.menus, found |-> s.found]

LinkOk(l) == LinkTyped(l) /\ GroupsOf(l) /\ SignalOf(l)

\* What an access point does not change in the link.
SameConn(l, r) ==
    /\ r.active = l.active /\ r.conn = l.conn /\ r.status = l.status /\ r.lastState = l.lastState
    /\ r.kill = l.kill /\ r.disconnect = l.disconnect
    /\ DOMAIN l.groups \subseteq DOMAIN r.groups
    /\ \A g \in DOMAIN l.groups : r.groups[g].key = l.groups[g].key

\* The parts of what the service works on.
LEMMA ServiceRecord ==
    ASSUME NEW l, NEW i, NEW m, NEW f,
           NEW r, r = [link |-> l, item |-> i, menus |-> m, found |-> f]
    PROVE  r.link = l /\ r.item = i /\ r.menus = m /\ r.found = f /\ IsService(r)
BY DEF IsService

\* The item follows the link.
LEMMA ItemFollows ==
    ASSUME NEW s, IsService(s), NEW l, NEW r, r = update_grouped_access_points([s EXCEPT !.link = l])
    PROVE  r.link = l /\ r.found = s.found /\ IsService(r)
<1>1. [s EXCEPT !.link = l] = [link |-> l, item |-> s.item, menus |-> s.menus, found |-> s.found]
  BY DEF IsService
<1> QED
  BY <1>1 DEF update_grouped_access_points, IsService

\* What is not assigned stays.
LEMMA GroupUpdate ==
    ASSUME NEW g \in Groups, NEW aps, NEW strength,
           NEW r, r = [g EXCEPT !.aps = aps, !.strength = strength]
    PROVE  r = [key |-> g.key, aps |-> aps, strength |-> strength]
BY DEF Groups

\* What is not assigned stays.
LEMMA LinkUpdate ==
    ASSUME NEW l, LinkTyped(l), NEW raw, NEW groups, NEW grouper,
           NEW r, r = [l EXCEPT !.raw = raw, !.groups = groups, !.grouper = grouper]
    PROVE  r = [raw |-> raw, groups |-> groups, grouper |-> grouper, active |-> l.active,
                conn |-> l.conn, status |-> l.status, signal |-> l.signal,
                lastState |-> l.lastState, kill |-> l.kill, disconnect |-> l.disconnect]
BY DEF LinkTyped

\* What is not assigned stays.
LEMMA LinkStrengths ==
    ASSUME NEW l, LinkTyped(l), NEW raw, NEW groups,
           NEW r, r = [l EXCEPT !.raw = raw, !.groups = groups]
    PROVE  r = [raw |-> raw, groups |-> groups, grouper |-> l.grouper, active |-> l.active,
                conn |-> l.conn, status |-> l.status, signal |-> l.signal,
                lastState |-> l.lastState, kill |-> l.kill, disconnect |-> l.disconnect]
BY DEF LinkTyped

\* What the link shows of its strength.
LEMMA SignalIs ==
    ASSUME NEW l, LinkTyped(l)
    PROVE  strengthUpdated(l).signal =
               IF l.active = NoAp \/ l.disconnect THEN Disconnected
               ELSE [level |-> Level(l.groups[l.active].strength), secure |-> secured(l.groups[l.active])]
BY DEF strengthUpdated, LinkTyped

\* The strength shown is computed anew without other changes, and is right after.
LEMMA StrengthUpdated ==
    ASSUME NEW l, LinkTyped(l), NEW r, r = strengthUpdated(l)
    PROVE  /\ LinkTyped(r) /\ SignalOf(r) /\ SameConn(l, r)
           /\ r.raw = l.raw /\ r.groups = l.groups /\ r.grouper = l.grouper
           /\ GroupsOf(l) => GroupsOf(r)
<1> DEFINE sig0 == IF l.active = NoAp \/ l.disconnect THEN Disconnected
                   ELSE [level |-> Level(l.groups[l.active].strength), secure |-> secured(l.groups[l.active])]
<1>1. r = [raw |-> l.raw, groups |-> l.groups, grouper |-> l.grouper, active |-> l.active,
           conn |-> l.conn, status |-> l.status, signal |-> sig0, lastState |-> l.lastState,
           kill |-> l.kill, disconnect |-> l.disconnect]
  BY DEF strengthUpdated, LinkTyped
<1>2. strengthUpdated(r).signal = sig0
  BY <1>1 DEF strengthUpdated
<1> HIDE DEF sig0
<1>3. LinkTyped(r) /\ SameConn(l, r)
  BY <1>1 DEF LinkTyped, SameConn
<1>4. SignalOf(r)
  BY <1>1, <1>2 DEF SignalOf
<1>5. GroupsOf(l) => GroupsOf(r)
  BY <1>1 DEF GroupsOf
<1> QED
  BY <1>1, <1>3, <1>4, <1>5
\* A function with one value more is a function.
LEMMA WithPartial ==
    ASSUME NEW S, NEW T, NEW f, Partial(f, S, T), NEW x \in S, NEW v \in T
    PROVE  /\ Partial(With(f, x, v), S, T)
           /\ DOMAIN With(f, x, v) = DOMAIN f \cup {x}
           /\ With(f, x, v)[x] = v
           /\ \A y \in DOMAIN f : y # x => With(f, x, v)[y] = f[y]
BY DEF Partial, With

\* And so is one with a value less.
LEMMA WithoutPartial ==
    ASSUME NEW S, NEW T, NEW f, Partial(f, S, T), NEW x
    PROVE  /\ Partial(Without(f, x), S, T)
           /\ DOMAIN Without(f, x) = DOMAIN f \ {x}
           /\ \A y \in DOMAIN f \ {x} : Without(f, x)[y] = f[y]
BY DEF Partial, Without

\* What a new access point reads.
LEMMA NewApTyped ==
    ASSUME NmTyped, NEW a \in Aps
    PROVE  /\ NewAp(a) \in AccessPoints
           /\ NewAp(a).key = IF a \in DOMAIN nm.aps THEN KeyOf[a] ELSE NoKey
           /\ a \in DOMAIN nm.aps => NewAp(a) = [key |-> KeyOf[a], strength |-> nm.aps[a]]
<1>1. 0 \in Levels /\ NoKey \in NetworkKeys /\ KeyOf[a] \in NetworkKeys
  BY KeysAssumption DEF Levels, NoKey, NetworkKeys
<1>2. a \in DOMAIN nm.aps => nm.aps[a] \in Levels
  BY StrengthsAssumption DEF NmTyped, Partial, Levels
<1> QED
  BY <1>1, <1>2 DEF NewAp, AccessPoints

\* An access point the link did not know: it is read and joins the network of its
\* key, which is made if there is none.
LEMMA AddedLink ==
    ASSUME NEW s, IsService(s), LinkOk(s.link), NmTyped,
           NEW a \in Aps, a \notin DOMAIN s.link.raw, a \notin DOMAIN s.link.groups,
           NEW r, r = ap_added(s, a)
    PROVE  /\ LinkOk(r.link) /\ SameConn(s.link, r.link)
           /\ r.found = s.found /\ IsService(r)
           /\ r.link.raw = With(s.link.raw, a, NewAp(a))
           /\ DOMAIN r.link.groups \subseteq DOMAIN s.link.groups \cup {a}
<1> DEFINE raw0 == s.link.raw
           groups0 == s.link.groups
           grouper0 == s.link.grouper
           new == NewAp(a)
           key == new.key
           raw == With(raw0, a, new)
           known == key \in DOMAIN grouper0
           g == IF known THEN grouper0[key] ELSE a
           old == IF known THEN groups0[g] ELSE [key |-> key, aps |-> {}, strength |-> 0]
           group == add_ap(old, raw, a)
           groups == With(groups0, g, group)
           grouper == With(grouper0, key, g)
           l == [s.link EXCEPT !.raw = raw, !.groups = groups, !.grouper = grouper]
           emits == g = l.active /\ group.strength # old.strength
           out == IF emits THEN strengthUpdated(l) ELSE l
<1>1. r.link = out /\ r.found = s.found /\ IsService(r)
  <2>1. r = update_grouped_access_points([s EXCEPT !.link = out])
    BY DEF ap_added
  <2> HIDE DEF out
  <2> QED
    BY <2>1, ItemFollows
<1>2. new \in AccessPoints /\ new.key = key /\ key \in NetworkKeys /\ new.strength \in Levels
  BY NewApTyped DEF AccessPoints
<1>3. /\ Partial(raw0, Aps, AccessPoints) /\ Partial(groups0, Aps, Groups) /\ Partial(grouper0, NetworkKeys, Aps)
      /\ s.link.active \in DOMAIN groups0 \cup {NoAp}
  BY DEF LinkOk, LinkTyped
<1>4. /\ \A x \in DOMAIN raw0 : raw0[x].strength \in Levels
      /\ \A x \in DOMAIN groups0 : x \in Aps /\ groups0[x] \in Groups
      /\ \A k \in DOMAIN grouper0 : grouper0[k] \in Aps
  BY <1>3 DEF Partial, AccessPoints
<1>5. /\ \A k \in DOMAIN grouper0 :
             /\ grouper0[k] \in DOMAIN groups0
             /\ groups0[grouper0[k]].key = k
             /\ groups0[grouper0[k]].aps = {x \in DOMAIN raw0 : raw0[x].key = k}
             /\ groups0[grouper0[k]].aps # {}
             /\ groups0[grouper0[k]].strength = StrongestOf(raw0, groups0[grouper0[k]].aps)
      /\ \A x \in DOMAIN raw0 : raw0[x].key \in DOMAIN grouper0
  BY DEF LinkOk, GroupsOf
<1>6. a \notin DOMAIN raw0 /\ a \notin DOMAIN groups0
  OBVIOUS
<1>7. l = [raw |-> raw, groups |-> groups, grouper |-> grouper, active |-> s.link.active,
           conn |-> s.link.conn, status |-> s.link.status, signal |-> s.link.signal,
           lastState |-> s.link.lastState, kill |-> s.link.kill, disconnect |-> s.link.disconnect]
  <2>1. l = [s.link EXCEPT !.raw = raw, !.groups = groups, !.grouper = grouper]
    OBVIOUS
  <2> HIDE DEF l, groups, grouper, raw
  <2> QED
    <3>1. LinkTyped(s.link)
      BY DEF LinkOk
    <3> QED
      BY <2>1, <3>1 DEF LinkTyped
<1> HIDE DEF raw0, groups0, grouper0, new, key, l, out
<1>8. /\ Partial(raw, Aps, AccessPoints)
      /\ DOMAIN raw = DOMAIN raw0 \cup {a}
      /\ raw[a] = new /\ raw[a].key = key
      /\ \A x \in DOMAIN raw0 : raw[x] = raw0[x]
  <2>1. Partial(raw0, Aps, AccessPoints) /\ new \in AccessPoints
    BY <1>2, <1>3
  <2>2. /\ Partial(raw, Aps, AccessPoints)
        /\ DOMAIN raw = DOMAIN raw0 \cup {a}
        /\ raw[a] = new
        /\ \A x \in DOMAIN raw0 : x # a => raw[x] = raw0[x]
    <3>1. raw = With(raw0, a, new)
      OBVIOUS
    <3> HIDE DEF raw
    <3>2. PICK f : f = With(raw0, a, new)
      OBVIOUS
    <3>3. /\ Partial(f, Aps, AccessPoints) /\ DOMAIN f = DOMAIN raw0 \cup {a} /\ f[a] = new
          /\ \A x \in DOMAIN raw0 : x # a => f[x] = raw0[x]
      BY <2>1, <3>2 DEF With, Partial
    <3> QED
      BY <3>1, <3>2, <3>3
  <2> HIDE DEF raw
  <2> QED
    BY <2>2, <1>2, <1>6
<1> HIDE DEF raw
<1>9. /\ g \in Aps /\ (~known => g = a)
      /\ old \in Groups /\ old.key = key
      /\ old.aps = {x \in DOMAIN raw0 : raw0[x].key = key}
      /\ old.strength = StrongestOf(raw0, old.aps)
  <2>1. CASE known
    BY <2>1, <1>4, <1>5
  <2>2. CASE ~known
    <3>1. \A x \in DOMAIN raw0 : raw0[x].key # key
      BY <2>2, <1>5
    <3>2. 0 \in Levels
      BY DEF Levels
    <3>3. StrongestOf(raw0, {}) = 0
      BY StrongestOfSome
    <3>4. g = a /\ old = [key |-> key, aps |-> {}, strength |-> 0]
      BY <2>2
    <3> HIDE DEF known, g, old
    <3>5. old.key = key /\ old.aps = {} /\ old.strength = 0 /\ old \in Groups
      BY <3>2, <3>4, <1>2 DEF Groups
    <3> QED
      BY <2>2, <3>1, <3>3, <3>4, <3>5
  <2> QED
    BY <2>1, <2>2
<1>10. known => g \in DOMAIN groups0 /\ old = groups0[g] /\ g = grouper0[key]
  BY <1>5
<1> HIDE DEF known, g, old
<1>11. /\ group.key = key /\ group.aps = old.aps \cup {a}
       /\ group.strength = StrongestOf(raw, old.aps \cup {a})
       /\ group \in Groups
  <2> DEFINE aps == old.aps
             strength == Max({old.strength, raw[a].strength})
  <2>1. a \notin aps /\ \A x \in aps : x \in DOMAIN raw0
    BY <1>6, <1>9
  <2>2. \A x \in aps \cup {a} : raw[x].strength \in Levels
    BY <2>1, <1>2, <1>4, <1>8
  <2>3. StrongestOf(raw, aps) = StrongestOf(raw0, aps)
    BY <2>1, <1>4, <1>8, StrongestSame
  <2>4. StrongestOf(raw, aps) = old.strength
    BY <2>3, <1>9
  <2>5. group = [old EXCEPT !.aps = aps \cup {a}, !.strength = strength]
    BY DEF add_ap
  <2>6. aps \cup {a} \in SUBSET Aps
    BY <1>9 DEF Groups
  <2> HIDE DEF aps, group
  <2>7. StrongestOf(raw, aps \cup {a}) = Max({StrongestOf(raw, aps), raw[a].strength})
    BY <2>1, <2>2, StrongestAdded
  <2>8. StrongestOf(raw, aps \cup {a}) = strength
    BY <2>4, <2>7
  <2> HIDE DEF strength
  <2>9. StrongestOf(raw, aps \cup {a}) \in Levels
    BY <2>2, StrongestIs
  <2>10. group = [key |-> old.key, aps |-> aps \cup {a}, strength |-> strength]
    BY <2>5, <1>9, GroupUpdate
  <2>11. group.key = old.key /\ group.aps = aps \cup {a} /\ group.strength = strength
    BY <2>10
  <2>12. group \in Groups
    BY <2>6, <2>8, <2>9, <2>10, <1>2, <1>9 DEF Groups
  <2> QED
    BY <2>8, <2>11, <2>12, <1>9 DEF aps
<1> HIDE DEF group
<1>12. /\ Partial(groups, Aps, Groups)
       /\ DOMAIN groups = DOMAIN groups0 \cup {g}
       /\ groups[g] = group
       /\ \A y \in DOMAIN groups0 : y # g => groups[y] = groups0[y]
  <2>1. Partial(groups0, Aps, Groups) /\ g \in Aps /\ group \in Groups
    BY <1>3, <1>9, <1>11
  <2> QED
    BY <2>1, WithPartial
<1>13. /\ Partial(grouper, NetworkKeys, Aps)
       /\ DOMAIN grouper = DOMAIN grouper0 \cup {key}
       /\ grouper[key] = g
       /\ \A y \in DOMAIN grouper0 : y # key => grouper[y] = grouper0[y]
  <2>1. Partial(grouper0, NetworkKeys, Aps) /\ key \in NetworkKeys /\ g \in Aps
    BY <1>2, <1>3, <1>9
  <2> QED
    BY <2>1, WithPartial
<1> HIDE DEF groups, grouper
<1>14. LinkTyped(l)
  BY <1>3, <1>7, <1>8, <1>12, <1>13 DEF LinkOk, LinkTyped, groups0
<1>15. GroupsOf(l)
  <2>1. ASSUME NEW k \in DOMAIN grouper
        PROVE  /\ grouper[k] \in DOMAIN groups
               /\ groups[grouper[k]].key = k
               /\ groups[grouper[k]].aps = {x \in DOMAIN raw : raw[x].key = k}
               /\ groups[grouper[k]].aps # {}
               /\ groups[grouper[k]].strength = StrongestOf(raw, groups[grouper[k]].aps)
    <3>1. CASE k = key
      <4>1. grouper[k] = g /\ groups[g] = group /\ g \in DOMAIN groups
        BY <3>1, <1>12, <1>13
      <4>2. group.aps = {x \in DOMAIN raw : raw[x].key = k}
        BY <3>1, <1>8, <1>9, <1>11
      <4> QED
        BY <3>1, <4>1, <4>2, <1>11
    <3>2. CASE k # key
      <4> DEFINE h == grouper0[k]
                 aps == groups0[h].aps
      <4>1. k \in DOMAIN grouper0 /\ grouper[k] = h
        BY <3>2, <1>13
      <4>2. /\ h \in DOMAIN groups0 /\ groups0[h].key = k
            /\ aps = {x \in DOMAIN raw0 : raw0[x].key = k} /\ aps # {}
            /\ groups0[h].strength = StrongestOf(raw0, aps)
        BY <4>1, <1>5
      <4>3. h # g
        <5>1. CASE known
          BY <5>1, <4>2, <3>2, <1>9, <1>10
        <5>2. CASE ~known
          BY <5>2, <4>2, <1>6, <1>9
        <5> QED
          BY <5>1, <5>2
      <4> HIDE DEF h, aps
      <4>4. h \in DOMAIN groups /\ groups[h] = groups0[h]
        BY <4>2, <4>3, <1>12
      <4>5. {x \in DOMAIN raw : raw[x].key = k} = {x \in DOMAIN raw0 : raw0[x].key = k}
        BY <3>2, <1>8
      <4>6. StrongestOf(raw, aps) = StrongestOf(raw0, aps)
        BY <4>2, <1>4, <1>8, StrongestSame
      <4> QED
        BY <4>1, <4>2, <4>4, <4>5, <4>6 DEF aps
    <3> QED
      BY <3>1, <3>2
  <2>2. \A x \in DOMAIN raw : raw[x].key \in DOMAIN grouper
    BY <1>5, <1>8, <1>13
  <2> QED
    BY <2>1, <2>2, <1>7 DEF GroupsOf
<1>16. \A x \in DOMAIN groups0 : x = g => known
  BY <1>6, <1>9
<1>17. \A x \in DOMAIN groups0 : x \in DOMAIN groups /\ groups[x].key = groups0[x].key
  BY <1>9, <1>10, <1>11, <1>12, <1>16
<1>18. SameConn(s.link, l)
  BY <1>7, <1>17 DEF SameConn, groups0
<1>19. DOMAIN l.groups \subseteq DOMAIN groups0 \cup {a}
  BY <1>7, <1>9, <1>10, <1>12
<1>20. CASE emits
  <2>1. out = strengthUpdated(l)
    BY <1>20 DEF out
  <2>2. LinkOk(out) /\ SameConn(l, out) /\ out.raw = l.raw /\ out.groups = l.groups
    BY <2>1, <1>14, <1>15, StrengthUpdated DEF LinkOk
  <2>3. SameConn(s.link, out)
    BY <2>2, <1>18 DEF SameConn
  <2> QED
    BY <1>1, <2>2, <2>3, <1>7, <1>19 DEF raw, new, raw0, groups0
<1>21. CASE ~emits
  <2>1. out = l
    BY <1>21 DEF out
  <2> DEFINE c == s.link.active
  <2>2. strengthUpdated(l).signal = strengthUpdated(s.link).signal
    <3>1. /\ strengthUpdated(l).signal =
                 IF c = NoAp \/ s.link.disconnect THEN Disconnected
                 ELSE [level |-> Level(groups[c].strength), secure |-> secured(groups[c])]
          /\ strengthUpdated(s.link).signal =
                 IF c = NoAp \/ s.link.disconnect THEN Disconnected
                 ELSE [level |-> Level(groups0[c].strength), secure |-> secured(groups0[c])]
      BY <1>7, <1>14, SignalIs DEF LinkOk, groups0
    <3>2. ASSUME c # NoAp
          PROVE  groups[c].strength = groups0[c].strength /\ secured(groups[c]) = secured(groups0[c])
      <4>1. c \in DOMAIN groups0
        BY <3>2, <1>3
      <4>2. CASE c # g
        BY <4>1, <4>2, <1>12
      <4>3. CASE c = g
        <5>1. known /\ old = groups0[c] /\ groups[c] = group
          BY <4>1, <4>3, <1>10, <1>12, <1>16
        <5>2. group.strength = old.strength
          BY <4>3, <1>21, <1>7
        <5>3. old.aps # {}
          BY <5>1, <4>3, <1>5, <1>10 DEF known
        <5>4. secured(group) = secured(old)
          BY <5>3, <1>9, <1>11 DEF secured
        <5> QED
          BY <5>1, <5>2, <5>4
      <4> QED
        BY <4>2, <4>3
    <3> HIDE DEF c
    <3> QED
      BY <3>1, <3>2
  <2>3. SignalOf(l)
    BY <2>2, <1>7 DEF SignalOf, LinkOk
  <2> QED
    BY <1>1, <2>1, <2>3, <1>7, <1>14, <1>15, <1>18, <1>19 DEF LinkOk, raw, new, raw0, groups0
<1> QED
  BY <1>20, <1>21
\* The strength shown stays right while the active network has the strength and security it had.
LEMMA SignalKept ==
    ASSUME NEW l, LinkTyped(l), SignalOf(l), NEW r, LinkTyped(r),
           r.signal = l.signal, r.active = l.active, r.disconnect = l.disconnect,
           l.active # NoAp => /\ r.groups[l.active].strength = l.groups[l.active].strength
                              /\ secured(r.groups[l.active]) = secured(l.groups[l.active])
    PROVE  SignalOf(r)
<1>1. strengthUpdated(r).signal = strengthUpdated(l).signal
  <2>1. /\ strengthUpdated(r).signal =
               IF l.active = NoAp \/ l.disconnect THEN Disconnected
               ELSE [level |-> Level(r.groups[l.active].strength), secure |-> secured(r.groups[l.active])]
        /\ strengthUpdated(l).signal =
               IF l.active = NoAp \/ l.disconnect THEN Disconnected
               ELSE [level |-> Level(l.groups[l.active].strength), secure |-> secured(l.groups[l.active])]
    BY SignalIs
  <2> QED
    BY <2>1
<1> QED
  BY <1>1 DEF SignalOf

\* Below 20 no level is shown.
LEMMA LevelOfZero == Level(0) = 0
<1>1. {t \in {20, 40, 60, 80} : t <= 0} = {}
  OBVIOUS
<1> QED
  BY <1>1, FS_EmptySet DEF Level

\* The access point is taken out of its network, which goes when it was the last one.
LEMMA RemovedLink ==
    ASSUME NEW s, IsService(s), LinkOk(s.link), NEW a \in DOMAIN s.link.raw,
           NEW r, r = ap_removed(s, a)
    PROVE  /\ LinkOk(r.link) /\ SameConn(s.link, r.link)
           /\ r.found = s.found /\ IsService(r)
           /\ r.link.raw = Without(s.link.raw, a)
           /\ DOMAIN r.link.groups \subseteq DOMAIN s.link.groups
<1> DEFINE raw0 == s.link.raw
           groups0 == s.link.groups
           grouper0 == s.link.grouper
           key == raw0[a].key
           raw == Without(raw0, a)
           g == grouper0[key]
           old == groups0[g]
           group == remove_ap(old, raw, a)
           groups == With(groups0, g, group)
           grouper == IF group.aps = {} THEN Without(grouper0, key) ELSE grouper0
           l == [s.link EXCEPT !.raw = raw, !.groups = groups, !.grouper = grouper]
           dimmed == IF l.disconnect THEN l.signal ELSE [level |-> 0, secure |-> FALSE]
           signal == IF group.strength > 0 THEN strengthUpdated(l).signal ELSE dimmed
           out == IF g = l.active THEN [l EXCEPT !.signal = signal] ELSE l
<1>1. r.link = out /\ r.found = s.found /\ IsService(r)
  <2>1. r = update_grouped_access_points([s EXCEPT !.link = out])
    BY DEF ap_removed
  <2> HIDE DEF out
  <2> QED
    BY <2>1, ItemFollows
<1>2. /\ Partial(raw0, Aps, AccessPoints) /\ Partial(groups0, Aps, Groups)
      /\ Partial(grouper0, NetworkKeys, Aps)
      /\ s.link.active \in DOMAIN groups0 \cup {NoAp}
  BY DEF LinkOk, LinkTyped
<1>3. /\ \A x \in DOMAIN raw0 : raw0[x].strength \in Levels
      /\ \A x \in DOMAIN groups0 : x \in Aps /\ groups0[x] \in Groups
  BY <1>2 DEF Partial, AccessPoints
<1>4. /\ \A k \in DOMAIN grouper0 :
             /\ grouper0[k] \in DOMAIN groups0
             /\ groups0[grouper0[k]].key = k
             /\ groups0[grouper0[k]].aps = {x \in DOMAIN raw0 : raw0[x].key = k}
             /\ groups0[grouper0[k]].aps # {}
             /\ groups0[grouper0[k]].strength = StrongestOf(raw0, groups0[grouper0[k]].aps)
      /\ \A x \in DOMAIN raw0 : raw0[x].key \in DOMAIN grouper0
  BY DEF LinkOk, GroupsOf
<1>5. /\ key \in DOMAIN grouper0 /\ g \in DOMAIN groups0 /\ g \in Aps
      /\ old \in Groups /\ old.key = key
      /\ old.aps = {x \in DOMAIN raw0 : raw0[x].key = key}
  BY <1>3, <1>4
<1>6. l = [raw |-> raw, groups |-> groups, grouper |-> grouper, active |-> s.link.active,
           conn |-> s.link.conn, status |-> s.link.status, signal |-> s.link.signal,
           lastState |-> s.link.lastState, kill |-> s.link.kill, disconnect |-> s.link.disconnect]
  <2>1. l = [s.link EXCEPT !.raw = raw, !.groups = groups, !.grouper = grouper]
    OBVIOUS
  <2> HIDE DEF l, groups, grouper, raw
  <2> QED
    <3>1. PICK k : k = s.link
      OBVIOUS
    <3>2. LinkTyped(k) /\ l = [k EXCEPT !.raw = raw, !.groups = groups, !.grouper = grouper]
      BY <2>1, <3>1 DEF LinkOk
    <3> QED
      BY <3>1, <3>2 DEF LinkTyped
<1> HIDE DEF raw0, groups0, grouper0, key, l, out, signal
<1>7. /\ Partial(raw, Aps, AccessPoints)
      /\ DOMAIN raw = DOMAIN raw0 \ {a}
      /\ \A x \in DOMAIN raw0 \ {a} : raw[x] = raw0[x]
  <2>1. Partial(raw0, Aps, AccessPoints)
    BY <1>2
  <2>2. /\ Partial(raw, Aps, AccessPoints)
        /\ DOMAIN raw = DOMAIN raw0 \ {a}
        /\ \A y \in DOMAIN raw0 \ {a} : raw[y] = raw0[y]
    BY <2>1 DEF Partial, Without
  <2> QED
    BY <2>2
<1> HIDE DEF raw, g, old
<1>8. /\ group.key = key /\ group.aps = old.aps \ {a}
      /\ group.strength = StrongestOf(raw, group.aps)
      /\ group \in Groups
  <2> DEFINE aps == old.aps \ {a}
             strength == StrongestOf(raw, aps)
  <2>1. group = [old EXCEPT !.aps = aps, !.strength = strength]
    BY DEF remove_ap
  <2>2. \A x \in aps : raw[x].strength \in Levels
    BY <1>3, <1>5, <1>7
  <2>3. aps \in SUBSET Aps
    BY <1>5 DEF Groups
  <2> HIDE DEF aps, group
  <2>4. strength \in Levels
    BY <2>2, StrongestIs
  <2> HIDE DEF strength
  <2>5. group = [key |-> old.key, aps |-> aps, strength |-> strength]
    BY <2>1, <1>5, GroupUpdate
  <2>6. group.key = old.key /\ group.aps = aps /\ group.strength = strength
    BY <2>5
  <2>7. group \in Groups
    BY <2>3, <2>4, <2>5, <1>5 DEF Groups
  <2> QED
    BY <2>6, <2>7, <1>5 DEF aps, strength
<1> HIDE DEF group
<1>9. /\ Partial(groups, Aps, Groups)
      /\ DOMAIN groups = DOMAIN groups0
      /\ groups[g] = group
      /\ \A y \in DOMAIN groups0 : y # g => groups[y] = groups0[y]
  <2>1. Partial(groups0, Aps, Groups) /\ g \in Aps /\ group \in Groups
    BY <1>2, <1>5, <1>8
  <2>2. /\ Partial(groups, Aps, Groups)
        /\ DOMAIN groups = DOMAIN groups0 \cup {g}
        /\ groups[g] = group
        /\ \A y \in DOMAIN groups0 : y # g => groups[y] = groups0[y]
    BY <2>1, WithPartial
  <2> HIDE DEF groups
  <2> QED
    BY <2>2, <1>5
<1>10. /\ Partial(grouper, NetworkKeys, Aps)
       /\ DOMAIN grouper = IF group.aps = {} THEN DOMAIN grouper0 \ {key} ELSE DOMAIN grouper0
       /\ \A k \in DOMAIN grouper : grouper[k] = grouper0[k]
  <2>1. /\ Partial(Without(grouper0, key), NetworkKeys, Aps)
        /\ DOMAIN Without(grouper0, key) = DOMAIN grouper0 \ {key}
        /\ \A y \in DOMAIN grouper0 \ {key} : Without(grouper0, key)[y] = grouper0[y]
    <3>1. Partial(grouper0, NetworkKeys, Aps)
      BY <1>2
    <3> QED
      BY <3>1, WithoutPartial
  <2>2. CASE group.aps = {}
    BY <2>1, <2>2
  <2>3. CASE group.aps # {}
    BY <2>3, <1>2
  <2> QED
    BY <2>2, <2>3
<1> HIDE DEF groups, grouper
<1>11. LinkTyped(l)
  BY <1>2, <1>6, <1>7, <1>9, <1>10 DEF LinkOk, LinkTyped, groups0
<1>12. GroupsOf(l)
  <2>1. ASSUME NEW k \in DOMAIN grouper
        PROVE  /\ grouper[k] \in DOMAIN groups
               /\ groups[grouper[k]].key = k
               /\ groups[grouper[k]].aps = {x \in DOMAIN raw : raw[x].key = k}
               /\ groups[grouper[k]].aps # {}
               /\ groups[grouper[k]].strength = StrongestOf(raw, groups[grouper[k]].aps)
    <3>1. k \in DOMAIN grouper0 /\ grouper[k] = grouper0[k]
      BY <1>10
    <3>2. CASE k = key
      <4>1. grouper[k] = g /\ groups[g] = group /\ g \in DOMAIN groups
        BY <3>1, <3>2, <1>5, <1>9 DEF g
      <4>2. group.aps = {x \in DOMAIN raw : raw[x].key = k}
        BY <3>2, <1>5, <1>7, <1>8
      <4>3. group.aps # {}
        BY <3>2, <1>10
      <4> QED
        BY <3>2, <4>1, <4>2, <4>3, <1>8
    <3>3. CASE k # key
      <4> DEFINE h == grouper0[k]
                 aps == groups0[h].aps
      <4>1. /\ h \in DOMAIN groups0 /\ groups0[h].key = k
            /\ aps = {x \in DOMAIN raw0 : raw0[x].key = k} /\ aps # {}
            /\ groups0[h].strength = StrongestOf(raw0, aps)
        BY <3>1, <1>4
      <4>2. h # g
        BY <4>1, <3>3, <1>5 DEF old
      <4>3. a \notin aps
        BY <4>1, <3>3 DEF key
      <4> HIDE DEF h, aps
      <4>4. h \in DOMAIN groups /\ groups[h] = groups0[h]
        BY <4>1, <4>2, <1>9
      <4>5. {x \in DOMAIN raw : raw[x].key = k} = {x \in DOMAIN raw0 : raw0[x].key = k}
        BY <4>1, <4>3, <1>7
      <4>6. StrongestOf(raw, aps) = StrongestOf(raw0, aps)
        BY <4>1, <4>3, <1>3, <1>7, StrongestSame
      <4> QED
        BY <3>1, <4>1, <4>4, <4>5, <4>6 DEF aps, h
    <3> QED
      BY <3>2, <3>3
  <2>2. ASSUME NEW x \in DOMAIN raw PROVE raw[x].key \in DOMAIN grouper
    <3>1. x \in DOMAIN raw0 /\ x # a /\ raw[x] = raw0[x] /\ raw0[x].key \in DOMAIN grouper0
      BY <1>4, <1>7
    <3>2. raw0[x].key = key => x \in group.aps
      BY <3>1, <1>5, <1>8
    <3> QED
      BY <3>1, <3>2, <1>10
  <2> QED
    BY <2>1, <2>2, <1>6 DEF GroupsOf
<1>13. SameConn(s.link, l)
  BY <1>5, <1>6, <1>8, <1>9 DEF SameConn, groups0, old
<1>14. CASE g # l.active
  <2>1. out = l
    BY <1>14 DEF out
  <2>2. l.active # NoAp => l.groups[l.active] = groups0[l.active]
    BY <1>14, <1>2, <1>6, <1>9
  <2>3. SignalOf(l)
    BY <2>2, <1>6, <1>11, SignalKept DEF LinkOk, groups0
  <2> QED
    BY <1>1, <2>1, <2>3, <1>6, <1>9, <1>11, <1>12, <1>13 DEF LinkOk, raw, raw0, groups0
<1>15. CASE g = l.active
  <2>1. out = [raw |-> raw, groups |-> groups, grouper |-> grouper, active |-> s.link.active,
               conn |-> s.link.conn, status |-> s.link.status, signal |-> signal,
               lastState |-> s.link.lastState, kill |-> s.link.kill, disconnect |-> s.link.disconnect]
    <3>1. out = [l EXCEPT !.signal = signal]
      BY <1>15 DEF out
    <3> QED
      BY <3>1, <1>6
  <2>2. LinkTyped(out) /\ GroupsOf(out) /\ SameConn(s.link, out)
    BY <2>1, <1>6, <1>11, <1>12, <1>13 DEF LinkTyped, GroupsOf, SameConn
  <2>3. strengthUpdated(out).signal = strengthUpdated(l).signal
    <3>1. /\ strengthUpdated(out).signal =
                 IF s.link.active = NoAp \/ s.link.disconnect THEN Disconnected
                 ELSE [level |-> Level(groups[s.link.active].strength), secure |-> secured(groups[s.link.active])]
          /\ strengthUpdated(l).signal =
                 IF s.link.active = NoAp \/ s.link.disconnect THEN Disconnected
                 ELSE [level |-> Level(groups[s.link.active].strength), secure |-> secured(groups[s.link.active])]
      BY <2>1, <2>2, <1>6, <1>11, SignalIs
    <3> QED
      BY <3>1
  <2>4. SignalOf(out)
    <3>1. CASE group.strength > 0
      BY <3>1, <2>1, <2>3 DEF SignalOf, signal
    <3>2. CASE ~(group.strength > 0) /\ s.link.disconnect
      <4>1. signal = s.link.signal
        BY <3>2, <1>6 DEF signal
      <4>2. strengthUpdated(out).signal = Disconnected /\ strengthUpdated(s.link).signal = Disconnected
        <5>1. out.disconnect
          BY <3>2, <2>1
        <5>2. LinkTyped(out) /\ LinkTyped(s.link)
          BY <2>2 DEF LinkOk
        <5> HIDE DEF raw, key, g
        <5> QED
          BY <3>2, <5>1, <5>2, SignalIs
      <4> QED
        BY <4>1, <4>2, <2>1 DEF SignalOf, LinkOk
    <3>3. CASE ~(group.strength > 0) /\ ~s.link.disconnect
      <4>1. signal = [level |-> 0, secure |-> FALSE]
        BY <3>3, <1>6 DEF signal
      <4>2. group.strength = 0
        BY <3>3, <1>8 DEF Groups, Levels
      <4>3. s.link.active = g /\ g # NoAp
        BY <1>5, <1>6, <1>15, ApsAssumption DEF NoAp
      <4>4. strengthUpdated(out).signal = [level |-> 0, secure |-> secured(group)]
        BY <3>3, <4>2, <4>3, <2>1, <2>2, <1>9, SignalIs, LevelOfZero
      <4> QED
        BY <4>1, <4>4, <2>1 DEF SignalOf
    <3> QED
      BY <3>1, <3>2, <3>3
  <2> QED
    BY <1>1, <2>1, <2>2, <2>4, <1>9 DEF LinkOk, raw, raw0, groups0
<1> QED
  BY <1>14, <1>15
\* A change of strength changes the strength of the network, and nothing else.
LEMMA StrengthLink ==
    ASSUME NEW s, IsService(s), LinkOk(s.link), NEW a \in DOMAIN s.link.raw, NEW v \in Levels,
           NEW r, r = ap_properties_changed(s, a, v)
    PROVE  /\ LinkOk(r.link) /\ SameConn(s.link, r.link)
           /\ r.found = s.found /\ IsService(r)
           /\ r.link.raw = With(s.link.raw, a, [key |-> s.link.raw[a].key, strength |-> v])
           /\ DOMAIN r.link.groups \subseteq DOMAIN s.link.groups
<1> DEFINE raw0 == s.link.raw
           groups0 == s.link.groups
           grouper0 == s.link.grouper
           key == raw0[a].key
           new == [raw0[a] EXCEPT !.strength = v]
           raw == With(raw0, a, new)
           g == grouper0[raw[a].key]
           old == groups0[g]
           group == update_strength(old, raw)
           groups == With(groups0, g, group)
           l == [s.link EXCEPT !.raw = raw, !.groups = groups]
           out == IF g = l.active THEN strengthUpdated(l) ELSE l
<1>1. r.link = out /\ r.found = s.found /\ IsService(r)
  <2>1. r = [s EXCEPT !.link = out]
    BY DEF ap_properties_changed
  <2> HIDE DEF out
  <2> QED
    BY <2>1 DEF IsService
<1>2. /\ Partial(raw0, Aps, AccessPoints) /\ Partial(groups0, Aps, Groups)
      /\ s.link.active \in DOMAIN groups0 \cup {NoAp}
  BY DEF LinkOk, LinkTyped
<1>3. /\ \A x \in DOMAIN raw0 : raw0[x].strength \in Levels
      /\ \A x \in DOMAIN groups0 : x \in Aps /\ groups0[x] \in Groups
      /\ raw0[a] \in AccessPoints /\ a \in Aps
  BY <1>2 DEF Partial, AccessPoints
<1>4. /\ \A k \in DOMAIN grouper0 :
             /\ grouper0[k] \in DOMAIN groups0
             /\ groups0[grouper0[k]].key = k
             /\ groups0[grouper0[k]].aps = {x \in DOMAIN raw0 : raw0[x].key = k}
             /\ groups0[grouper0[k]].aps # {}
             /\ groups0[grouper0[k]].strength = StrongestOf(raw0, groups0[grouper0[k]].aps)
      /\ \A x \in DOMAIN raw0 : raw0[x].key \in DOMAIN grouper0
  BY DEF LinkOk, GroupsOf
<1>5. l = [raw |-> raw, groups |-> groups, grouper |-> grouper0, active |-> s.link.active,
           conn |-> s.link.conn, status |-> s.link.status, signal |-> s.link.signal,
           lastState |-> s.link.lastState, kill |-> s.link.kill, disconnect |-> s.link.disconnect]
  <2>1. l = [s.link EXCEPT !.raw = raw, !.groups = groups]
    OBVIOUS
  <2> HIDE DEF l, groups, raw
  <2> QED
    BY <2>1, LinkStrengths DEF LinkOk
<1>6. new = [key |-> key, strength |-> v]
  <2>1. new = [raw0[a] EXCEPT !.strength = v]
    OBVIOUS
  <2> HIDE DEF new, raw0
  <2> QED
    BY <2>1, <1>3 DEF AccessPoints
<1>7. key \in DOMAIN grouper0 /\ key \in NetworkKeys
  BY <1>3, <1>4 DEF AccessPoints
<1> HIDE DEF raw0, groups0, grouper0, key, new, l, out
<1>8. /\ Partial(raw, Aps, AccessPoints)
      /\ DOMAIN raw = DOMAIN raw0
      /\ raw[a] = new /\ raw[a].key = key
      /\ \A x \in DOMAIN raw0 : raw[x].key = raw0[x].key
      /\ \A x \in DOMAIN raw0 : x # a => raw[x] = raw0[x]
      /\ \A x \in DOMAIN raw0 : raw[x].strength \in Levels
  <2>1. Partial(raw0, Aps, AccessPoints) /\ new \in AccessPoints /\ new.key = key
    BY <1>2, <1>6, <1>7 DEF AccessPoints
  <2>2. /\ Partial(raw, Aps, AccessPoints)
        /\ DOMAIN raw = DOMAIN raw0 \cup {a}
        /\ raw[a] = new
        /\ \A x \in DOMAIN raw0 : x # a => raw[x] = raw0[x]
    <3>1. Partial(raw0, Aps, AccessPoints) /\ a \in Aps /\ new \in AccessPoints
      BY <2>1, <1>3
    <3> QED
      BY <3>1 DEF Partial, With
  <2> HIDE DEF raw
  <2>3. a \in DOMAIN raw0
    BY DEF raw0
  <2>4. \A x \in DOMAIN raw : raw[x].strength \in Levels
    BY <2>2 DEF Partial, AccessPoints
  <2>5. raw0[a].key = key
    BY DEF key
  <2> QED
    BY <2>1, <2>2, <2>3, <2>4, <2>5
<1>9. g = grouper0[key]
  BY <1>8
<1>10. /\ g \in DOMAIN groups0 /\ g \in Aps
       /\ old \in Groups /\ old.key = key
       /\ old.aps = {x \in DOMAIN raw0 : raw0[x].key = key} /\ old.aps # {}
  BY <1>3, <1>4, <1>7, <1>9
<1> HIDE DEF raw, g, old
<1>11. /\ group.key = key /\ group.aps = old.aps
       /\ group.strength = StrongestOf(raw, group.aps)
       /\ group \in Groups
  <2> DEFINE strength == StrongestOf(raw, old.aps)
  <2>1. group = [old EXCEPT !.strength = strength]
    BY DEF update_strength
  <2>2. \A x \in old.aps : raw[x].strength \in Levels
    BY <1>8, <1>10
  <2>3. strength \in Levels
    BY <2>2, StrongestIs
  <2> HIDE DEF strength, group
  <2>4. group = [key |-> old.key, aps |-> old.aps, strength |-> strength]
    BY <2>1, <1>10 DEF Groups
  <2>5. group.key = old.key /\ group.aps = old.aps /\ group.strength = strength
    BY <2>4
  <2>6. group \in Groups
    BY <2>3, <2>4, <1>10 DEF Groups
  <2> QED
    BY <2>5, <2>6, <1>10 DEF strength
<1> HIDE DEF group
<1>12. /\ Partial(groups, Aps, Groups)
       /\ DOMAIN groups = DOMAIN groups0
       /\ groups[g] = group
       /\ \A y \in DOMAIN groups0 : y # g => groups[y] = groups0[y]
  <2>1. Partial(groups0, Aps, Groups) /\ g \in Aps /\ group \in Groups
    BY <1>2, <1>10, <1>11
  <2>2. /\ Partial(groups, Aps, Groups)
        /\ DOMAIN groups = DOMAIN groups0 \cup {g}
        /\ groups[g] = group
        /\ \A y \in DOMAIN groups0 : y # g => groups[y] = groups0[y]
    BY <2>1, WithPartial
  <2> HIDE DEF groups
  <2> QED
    BY <2>2, <1>10
<1> HIDE DEF groups
<1>13. LinkTyped(l)
  BY <1>2, <1>5, <1>8, <1>12 DEF LinkOk, LinkTyped, groups0, grouper0
<1>14. GroupsOf(l)
  <2>1. ASSUME NEW k \in DOMAIN grouper0
        PROVE  /\ grouper0[k] \in DOMAIN groups
               /\ groups[grouper0[k]].key = k
               /\ groups[grouper0[k]].aps = {x \in DOMAIN raw : raw[x].key = k}
               /\ groups[grouper0[k]].aps # {}
               /\ groups[grouper0[k]].strength = StrongestOf(raw, groups[grouper0[k]].aps)
    <3>1. {x \in DOMAIN raw : raw[x].key = k} = {x \in DOMAIN raw0 : raw0[x].key = k}
      BY <1>8
    <3>2. CASE k = key
      <4>1. grouper0[k] = g /\ groups[g] = group /\ g \in DOMAIN groups
        BY <3>2, <1>9, <1>10, <1>12
      <4> QED
        BY <3>1, <3>2, <4>1, <1>10, <1>11
    <3>3. CASE k # key
      <4> DEFINE h == grouper0[k]
                 aps == groups0[h].aps
      <4>1. /\ h \in DOMAIN groups0 /\ groups0[h].key = k
            /\ aps = {x \in DOMAIN raw0 : raw0[x].key = k} /\ aps # {}
            /\ groups0[h].strength = StrongestOf(raw0, aps)
        BY <1>4
      <4>2. h # g
        BY <4>1, <3>3, <1>10 DEF old
      <4>3. a \notin aps
        BY <4>1, <3>3 DEF key
      <4> HIDE DEF h, aps
      <4>4. h \in DOMAIN groups /\ groups[h] = groups0[h]
        BY <4>1, <4>2, <1>12
      <4>5. StrongestOf(raw, aps) = StrongestOf(raw0, aps)
        BY <4>1, <4>3, <1>3, <1>8, StrongestSame
      <4> QED
        BY <3>1, <4>1, <4>4, <4>5 DEF aps, h
    <3> QED
      BY <3>2, <3>3
  <2>2. \A x \in DOMAIN raw : raw[x].key \in DOMAIN grouper0
    BY <1>4, <1>8
  <2> QED
    BY <2>1, <2>2, <1>5 DEF GroupsOf
<1>15. SameConn(s.link, l)
  BY <1>5, <1>10, <1>11, <1>12 DEF SameConn, groups0, old
<1>16. l.raw = With(s.link.raw, a, [key |-> s.link.raw[a].key, strength |-> v])
  BY <1>5, <1>6 DEF raw, raw0, key
<1>17. DOMAIN l.groups \subseteq DOMAIN s.link.groups
  BY <1>5, <1>12 DEF groups0
<1>18. CASE g # l.active
  <2>1. out = l
    BY <1>18 DEF out
  <2>2. l.active # NoAp => l.groups[l.active] = groups0[l.active]
    BY <1>18, <1>2, <1>5, <1>12
  <2>3. SignalOf(l)
    BY <2>2, <1>5, <1>13, SignalKept DEF LinkOk, groups0
  <2> QED
    BY <1>1, <2>1, <2>3, <1>13, <1>14, <1>15, <1>16, <1>17 DEF LinkOk
<1>19. CASE g = l.active
  <2>1. out = strengthUpdated(l)
    BY <1>19 DEF out
  <2>2. LinkOk(out) /\ SameConn(l, out) /\ out.raw = l.raw /\ out.groups = l.groups
    BY <2>1, <1>13, <1>14, StrengthUpdated DEF LinkOk
  <2>3. SameConn(s.link, out)
    BY <2>2, <1>15 DEF SameConn
  <2> QED
    BY <1>1, <2>2, <2>3, <1>16, <1>17
<1> QED
  BY <1>18, <1>19
-----------------------------------------------------------------------------
(* The active connection and the state of the device                       *)

\* What a change of the device does not change in the link.
SameAps(l, r) ==
    /\ r.raw = l.raw /\ r.groups = l.groups /\ r.grouper = l.grouper
    /\ r.disconnect = l.disconnect

Holds(l, ap) == \E g \in Grouped(l) : ap \in l.groups[g].aps

\* The networks depend on the access points only.
LEMMA GroupsKept ==
    ASSUME NEW l, GroupsOf(l), NEW r, SameAps(l, r)
    PROVE  GroupsOf(r)
BY DEF GroupsOf, SameAps

\* The link with another active network and connection.
Connected(l, g, act) ==
    [raw |-> l.raw, groups |-> l.groups, grouper |-> l.grouper, active |-> g,
     conn |-> act, status |-> l.status, signal |-> l.signal, lastState |-> l.lastState,
     kill |-> l.kill, disconnect |-> l.disconnect]

\* What is not assigned stays.
LEMMA ConnUpdate ==
    ASSUME NEW l, LinkTyped(l), NEW g, NEW act, NEW c, c = [l EXCEPT !.conn = act],
           NEW m, m = [c EXCEPT !.active = g]
    PROVE  m = Connected(l, g, act)
<1>1. c = Connected(l, l.active, act)
  BY DEF LinkTyped, Connected
<1> QED
  BY <1>1 DEF Connected

\* What is not assigned stays.
LEMMA ServiceConn ==
    ASSUME NEW s, IsService(s), NEW act, NEW f, NEW c, c = [s.link EXCEPT !.conn = act],
           NEW r, r = [s EXCEPT !.link.conn = act, !.found = f]
    PROVE  r = [link |-> c, item |-> s.item, menus |-> s.menus, found |-> f]
BY DEF IsService

\* Another active network and connection, with the strength that goes with it.
LEMMA ActiveLink ==
    ASSUME NEW l, LinkTyped(l), GroupsOf(l), NEW g \in DOMAIN l.groups \cup {NoAp}, NEW act \in -1 .. 3,
           NEW r, r = strengthUpdated(Connected(l, g, act))
    PROVE  /\ LinkOk(r) /\ SameAps(l, r) /\ r.active = g /\ r.conn = act
           /\ r.status = l.status /\ r.lastState = l.lastState /\ r.kill = l.kill
<1> DEFINE m == Connected(l, g, act)
<1>1. LinkTyped(m) /\ SameAps(l, m)
  BY DEF LinkTyped, SameAps, Connected
<1>2. GroupsOf(m)
  BY <1>1, GroupsKept
<1>3. /\ m.active = g /\ m.conn = act /\ m.status = l.status /\ m.lastState = l.lastState
      /\ m.kill = l.kill /\ m.raw = l.raw /\ m.groups = l.groups /\ m.grouper = l.grouper
      /\ m.disconnect = l.disconnect
  BY DEF Connected
<1> HIDE DEF m
<1>4. LinkOk(r) /\ SameConn(m, r) /\ r.raw = m.raw /\ r.groups = m.groups /\ r.grouper = m.grouper
  BY <1>1, <1>2, StrengthUpdated DEF LinkOk, m
<1> QED
  BY <1>3, <1>4 DEF SameConn, SameAps

\* A connection that is found at no network of the link leaves the active one.
LEMMA ConnLink ==
    ASSUME NEW l, LinkOk(l), NEW act \in -1 .. 3, NEW r, r = [l EXCEPT !.conn = act]
    PROVE  /\ LinkOk(r) /\ SameAps(l, r) /\ r.active = l.active /\ r.conn = act
           /\ r.status = l.status /\ r.lastState = l.lastState /\ r.kill = l.kill
<1>1. r = [raw |-> l.raw, groups |-> l.groups, grouper |-> l.grouper, active |-> l.active,
           conn |-> act, status |-> l.status, signal |-> l.signal, lastState |-> l.lastState,
           kill |-> l.kill, disconnect |-> l.disconnect]
  BY DEF LinkOk, LinkTyped
<1>2. LinkTyped(r) /\ SameAps(l, r)
  BY <1>1 DEF LinkOk, LinkTyped, SameAps
<1>3. GroupsOf(r)
  BY <1>2, GroupsKept DEF LinkOk
<1>4. SignalOf(r)
  BY <1>1, <1>2, SignalKept DEF LinkOk
<1> QED
  BY <1>1, <1>2, <1>3, <1>4 DEF LinkOk

\* The networks that the manager of the link knows are among its objects.
LEMMA GroupedKnown ==
    ASSUME NEW l, GroupsOf(l), NEW g \in Grouped(l)
    PROVE  g \in DOMAIN l.groups /\ \E k \in DOMAIN l.grouper : g = l.grouper[k]
BY DEF Grouped, GroupsOf

LooksUp(s, act, ap, r) ==
    /\ r.link.conn = act
    /\ act = NoAct => r.link.active = NoAp /\ r.found = s.found
    /\ act # NoAct /\ act = s.link.conn => r.link.active = s.link.active /\ r.found = s.found
    /\ act # NoAct /\ act # s.link.conn =>
           /\ r.found <=> Holds(s.link, ap)
           /\ IF r.found THEN /\ r.link.active \in Grouped(s.link)
                              /\ ap \in s.link.groups[r.link.active].aps
              ELSE r.link.active = s.link.active

\* What becomes of the active connection: none for "/", the same if it was known, otherwise
\* the new one, with the network of its access point if there is one.
LEMMA ConnectionLink ==
    ASSUME NEW s, IsService(s), LinkOk(s.link), NEW act \in -1 .. 3, NEW ap,
           NEW r, r = updateActiveConnection(s, act, ap)
    PROVE  /\ LinkOk(r.link) /\ IsService(r) /\ SameAps(s.link, r.link)
           /\ r.link.status = s.link.status /\ r.link.lastState = s.link.lastState
           /\ r.link.kill = s.link.kill
           /\ LooksUp(s, act, ap, r)
<1> DEFINE holders == {g \in Grouped(s.link) : ap \in s.link.groups[g].aps}
           g == CHOOSE h \in holders : TRUE
           link1 == [s.link EXCEPT !.conn = act]
           conn == [s EXCEPT !.link.conn = act, !.found = holders # {}]
<1>1. LinkTyped(s.link) /\ GroupsOf(s.link)
  BY DEF LinkOk
<1>2. CASE act = NoAct
  <2> DEFINE m == [s.link EXCEPT !.active = NoAp, !.conn = NoAct]
             t == strengthUpdated(m)
  <2>1. r = [s EXCEPT !.link = t, !.item = updateActiveAccessPoint(s.item, NoAp, Keys(s.link))]
    BY <1>2 DEF updateActiveConnection
  <2>2. m = [s.link EXCEPT !.active = NoAp, !.conn = NoAct] /\ t = strengthUpdated(m)
    OBVIOUS
  <2>3. NoAct \in -1 .. 3
    BY DEF NoAct
  <2> HIDE DEF t, m
  <2>4. r.link = t /\ r.found = s.found /\ IsService(r)
    BY <2>1 DEF IsService
  <2>5. m = Connected(s.link, NoAp, NoAct)
    BY <2>2, <1>1 DEF LinkTyped, Connected
  <2>6. /\ LinkOk(t) /\ SameAps(s.link, t) /\ t.active = NoAp /\ t.conn = NoAct
        /\ t.status = s.link.status /\ t.lastState = s.link.lastState /\ t.kill = s.link.kill
    BY <2>2, <2>3, <2>5, <1>1, ActiveLink
  <2> QED
    BY <2>4, <2>6, <1>2 DEF LooksUp
<1>3. CASE act # NoAct /\ act = s.link.conn
  <2>1. r = s
    BY <1>3 DEF updateActiveConnection
  <2> QED
    BY <2>1, <1>3 DEF SameAps, LooksUp
<1>4. link1 = [s.link EXCEPT !.conn = act]
  OBVIOUS
<1> HIDE DEF link1
<1>5. CASE act # NoAct /\ act # s.link.conn /\ holders = {}
  <2>1. r = [s EXCEPT !.link.conn = act, !.found = FALSE]
    <3>1. r = conn
      BY <1>5 DEF updateActiveConnection
    <3> QED
      BY <3>1, <1>5
  <2>2. r = [link |-> link1, item |-> s.item, menus |-> s.menus, found |-> FALSE]
    <3>1. link1 = [s.link EXCEPT !.conn = act] /\ r = [s EXCEPT !.link.conn = act, !.found = FALSE]
      BY <1>4, <2>1
    <3>2. PICK b : b = s
      OBVIOUS
    <3>3. IsService(b) /\ link1 = [b.link EXCEPT !.conn = act]
          /\ r = [b EXCEPT !.link.conn = act, !.found = FALSE]
      BY <3>1, <3>2
    <3> HIDE DEF holders, g, conn
    <3>4. r = [link |-> link1, item |-> b.item, menus |-> b.menus, found |-> FALSE]
      BY <3>3 DEF IsService
    <3> QED
      BY <3>2, <3>4
  <2>3. ~Holds(s.link, ap)
    BY <1>5 DEF Holds
  <2>4. /\ LinkOk(link1) /\ SameAps(s.link, link1) /\ link1.active = s.link.active
        /\ link1.conn = act /\ link1.status = s.link.status
        /\ link1.lastState = s.link.lastState /\ link1.kill = s.link.kill
    BY <1>4, ConnLink
  <2>5. r.link = link1 /\ r.found = FALSE /\ IsService(r)
    BY <2>2, ServiceRecord
  <2> QED
    BY <2>3, <2>4, <2>5, <1>5 DEF LooksUp
<1>6. CASE act # NoAct /\ act # s.link.conn /\ holders # {}
  <2> DEFINE m == [link1 EXCEPT !.active = g]
             t == strengthUpdated(m)
  <2>1. g \in Grouped(s.link) /\ ap \in s.link.groups[g].aps
    BY <1>6
  <2>2. g \in DOMAIN s.link.groups
    BY <2>1, <1>1, GroupedKnown
  <2>3. r = [conn EXCEPT !.link = strengthUpdated([conn.link EXCEPT !.active = g]),
                         !.item = updateActiveAccessPoint(conn.item, g, Keys(s.link))]
    BY <1>6 DEF updateActiveConnection
  <2>4. conn = [s EXCEPT !.link.conn = act, !.found = TRUE]
    BY <1>6
  <2>5. m = [link1 EXCEPT !.active = g] /\ t = strengthUpdated(m)
    OBVIOUS
  <2> HIDE DEF conn, g, holders
  <2>6. conn = [link |-> link1, item |-> s.item, menus |-> s.menus, found |-> TRUE]
    BY <2>4, <1>4, ServiceConn
  <2>7. conn.link = link1
    BY <2>6
  <2>8. r = [conn EXCEPT !.link = t, !.item = updateActiveAccessPoint(conn.item, g, Keys(s.link))]
    BY <2>3, <2>7
  <2> HIDE DEF m, t
  <2>9. r.link = t /\ r.found = TRUE /\ IsService(r)
    BY <2>6, <2>8 DEF IsService
  <2>10. m = Connected(s.link, g, act)
    BY <2>5, <1>1, <1>4, ConnUpdate
  <2>11. /\ LinkOk(t) /\ SameAps(s.link, t) /\ t.active = g /\ t.conn = act
         /\ t.status = s.link.status /\ t.lastState = s.link.lastState /\ t.kill = s.link.kill
    BY <2>2, <2>5, <2>10, <1>1, ActiveLink
  <2>12. Holds(s.link, ap)
    BY <2>1 DEF Holds
  <2> QED
    BY <2>1, <2>9, <2>11, <2>12, <1>6 DEF LooksUp
<1> QED
  BY <1>2, <1>3, <1>5, <1>6
\* What is not assigned stays.
LEMMA StateLink ==
    ASSUME NEW l, LinkOk(l), NEW state \in DeviceStates, NEW r, r = [l EXCEPT !.lastState = state]
    PROVE  /\ LinkOk(r) /\ SameAps(l, r) /\ r.active = l.active /\ r.conn = l.conn
           /\ r.status = l.status /\ r.lastState = state /\ r.kill = l.kill
<1>1. r = [raw |-> l.raw, groups |-> l.groups, grouper |-> l.grouper, active |-> l.active,
           conn |-> l.conn, status |-> l.status, signal |-> l.signal, lastState |-> state,
           kill |-> l.kill, disconnect |-> l.disconnect]
  BY DEF LinkOk, LinkTyped
<1>2. LinkTyped(r) /\ SameAps(l, r)
  BY <1>1 DEF LinkOk, LinkTyped, SameAps
<1>3. GroupsOf(r)
  BY <1>2, GroupsKept DEF LinkOk
<1>4. SignalOf(r)
  BY <1>1, <1>2, SignalKept DEF LinkOk
<1> QED
  BY <1>1, <1>2, <1>3, <1>4 DEF LinkOk

\* What is not assigned stays.
LEMMA StatusLink ==
    ASSUME NEW l, LinkOk(l), NEW status, NEW r, r = [l EXCEPT !.status = status]
    PROVE  /\ LinkOk(r) /\ SameAps(l, r) /\ r.active = l.active /\ r.conn = l.conn
           /\ r.status = status /\ r.lastState = l.lastState /\ r.kill = l.kill
<1>1. r = [raw |-> l.raw, groups |-> l.groups, grouper |-> l.grouper, active |-> l.active,
           conn |-> l.conn, status |-> status, signal |-> l.signal, lastState |-> l.lastState,
           kill |-> l.kill, disconnect |-> l.disconnect]
  BY DEF LinkOk, LinkTyped
<1>2. LinkTyped(r) /\ SameAps(l, r)
  BY <1>1 DEF LinkOk, LinkTyped, SameAps
<1>3. GroupsOf(r)
  BY <1>2, GroupsKept DEF LinkOk
<1>4. SignalOf(r)
  BY <1>1, <1>2, SignalKept DEF LinkOk
<1> QED
  BY <1>1, <1>2, <1>3, <1>4 DEF LinkOk

\* What is not assigned stays.
LEMMA KillLink ==
    ASSUME NEW l, LinkOk(l), NEW kill, NEW r, r = [l EXCEPT !.kill = kill]
    PROVE  /\ LinkOk(r) /\ SameAps(l, r) /\ r.active = l.active /\ r.conn = l.conn
           /\ r.status = l.status /\ r.lastState = l.lastState /\ r.kill = kill
<1>1. r = [raw |-> l.raw, groups |-> l.groups, grouper |-> l.grouper, active |-> l.active,
           conn |-> l.conn, status |-> l.status, signal |-> l.signal, lastState |-> l.lastState,
           kill |-> kill, disconnect |-> l.disconnect]
  BY DEF LinkOk, LinkTyped
<1>2. LinkTyped(r) /\ SameAps(l, r)
  BY <1>1 DEF LinkOk, LinkTyped, SameAps
<1>3. GroupsOf(r)
  BY <1>2, GroupsKept DEF LinkOk
<1>4. SignalOf(r)
  BY <1>1, <1>2, SignalKept DEF LinkOk
<1> QED
  BY <1>1, <1>2, <1>3, <1>4 DEF LinkOk

\* What is not assigned stays.
LEMMA ServiceUpdate ==
    ASSUME NEW s, IsService(s), NEW v
    PROVE  /\ \A c, r : c = [s.link EXCEPT !.lastState = v] /\ r = [s EXCEPT !.link.lastState = v]
                  => r.link = c /\ r.found = s.found /\ IsService(r)
           /\ \A c, r : c = [s.link EXCEPT !.status = v] /\ r = [s EXCEPT !.link.status = v]
                  => r.link = c /\ r.found = s.found /\ IsService(r)
           /\ \A c, r : c = [s.link EXCEPT !.kill = v] /\ r = [s EXCEPT !.link.kill = v]
                  => r.link = c /\ r.found = s.found /\ IsService(r)
<1>1. ASSUME NEW c, NEW r, r = [s EXCEPT !.link = c]
      PROVE  r.link = c /\ r.found = s.found /\ IsService(r)
  BY <1>1 DEF IsService
<1> QED
  BY <1>1
\* The status is set and nothing else.
LEMMA SetStatus ==
    ASSUME NEW q, IsService(q), LinkOk(q.link), NEW status, NEW r, r = setStatus(q, status)
    PROVE  /\ LinkOk(r.link) /\ IsService(r) /\ SameAps(q.link, r.link)
           /\ r.link.active = q.link.active /\ r.link.conn = q.link.conn /\ r.found = q.found
           /\ r.link.lastState = q.link.lastState /\ r.link.kill = q.link.kill
           /\ r.link.status = status
<1> DEFINE c == [q.link EXCEPT !.status = status]
<1>1. c = [q.link EXCEPT !.status = status] /\ r = [q EXCEPT !.link.status = status]
  BY DEF setStatus
<1> HIDE DEF c
<1>2. r.link = c /\ r.found = q.found /\ IsService(r)
  BY <1>1, ServiceUpdate
<1>3. /\ LinkOk(c) /\ SameAps(q.link, c) /\ c.active = q.link.active /\ c.conn = q.link.conn
      /\ c.status = status /\ c.lastState = q.link.lastState /\ c.kill = q.link.kill
  BY <1>1, StatusLink
<1> QED
  BY <1>2, <1>3

\* The states of a device are of one kind.
LEMMA StatesDisjoint ==
    /\ DownStates \cap BusyStates = {} /\ DownStates \cap UpStates = {} /\ BusyStates \cap UpStates = {}
    /\ UpStates = {"secondaries", "activated"}
BY DEF DownStates, BusyStates, UpStates

\* What a change of the device does to the link.
LEMMA DeviceLink ==
    ASSUME NEW s, IsService(s), LinkOk(s.link), nm.act \in 0 .. 3, NEW state \in DeviceStates,
           NEW r, r = updateDeviceState(s, state)
    PROVE  /\ LinkOk(r.link) /\ IsService(r) /\ SameAps(s.link, r.link)
           /\ r.link.lastState = state /\ r.link.kill = s.link.kill
           /\ r.link.status = StatusOf(state, s.link.kill)
           /\ state \in DownStates => LooksUp(s, NoAct, NoAp, r)
           /\ state \in BusyStates /\ nm.act = NoAct =>
                  r.link.active = s.link.active /\ r.link.conn = s.link.conn /\ r.found = s.found
           /\ state \in UpStates \/ (state \in BusyStates /\ nm.act # NoAct) =>
                  LooksUp(s, nm.act, nm.ap, r)
<1> DEFINE t == [s EXCEPT !.link.lastState = state]
           c == [s.link EXCEPT !.lastState = state]
           status == StatusOf(state, s.link.kill)
<1>1. /\ t.link = c /\ t.found = s.found /\ IsService(t)
      /\ LinkOk(c) /\ SameAps(s.link, c) /\ c.active = s.link.active /\ c.conn = s.link.conn
      /\ c.status = s.link.status /\ c.lastState = state /\ c.kill = s.link.kill
  <2>1. c = [s.link EXCEPT !.lastState = state] /\ t = [s EXCEPT !.link.lastState = state]
    OBVIOUS
  <2> HIDE DEF c, t
  <2> QED
    BY <2>1, ServiceUpdate, StateLink
<1>2. /\ state \in DownStates =>
             r = setStatus(updateActiveConnection(t, NoAct, NoAp), status)
      /\ state \in BusyStates =>
             r = setStatus(IF nm.act = NoAct THEN t ELSE updateActiveConnection(t, nm.act, nm.ap), status)
      /\ state \in UpStates => r = setStatus(updateActiveConnection(t, nm.act, nm.ap), status)
  <2>1. t.link.kill = s.link.kill
    BY <1>1
  <2>2. r = CASE state \in DownStates ->
                 setStatus(updateActiveConnection(t, NoAct, NoAp),
                           IF t.link.kill = "blocked" THEN "disabled" ELSE "offline")
            [] state \in BusyStates ->
                 setStatus(IF nm.act = NoAct THEN t ELSE updateActiveConnection(t, nm.act, nm.ap),
                           "connecting")
            [] state = "secondaries" -> setStatus(updateActiveConnection(t, nm.act, nm.ap), "connected")
            [] state = "activated" -> setStatus(updateActiveConnection(t, nm.act, nm.ap), "online")
    BY DEF updateDeviceState
  <2> HIDE DEF t
  <2>3. CASE state \in DownStates
    <3>1. state \notin BusyStates /\ state # "secondaries" /\ state # "activated"
      BY <2>3, StatesDisjoint
    <3> QED
      BY <2>1, <2>2, <2>3, <3>1, StatesDisjoint DEF StatusOf
  <2>4. CASE state \in BusyStates
    <3>1. state \notin DownStates /\ state # "secondaries" /\ state # "activated"
      BY <2>4, StatesDisjoint
    <3> QED
      BY <2>2, <2>4, <3>1, StatesDisjoint DEF StatusOf
  <2>5. CASE state \in UpStates
    <3>1. state \notin DownStates /\ state \notin BusyStates /\ state \in {"secondaries", "activated"}
      BY <2>5, StatesDisjoint
    <3> QED
      BY <2>2, <2>5, <3>1, StatesDisjoint DEF StatusOf
  <2> QED
    BY <2>3, <2>4, <2>5
<1> HIDE DEF t, c, status
<1>3. ASSUME NEW act \in -1 .. 3, NEW ap, NEW q, q = updateActiveConnection(t, act, ap),
             r = setStatus(q, status)
      PROVE  /\ LinkOk(r.link) /\ IsService(r) /\ SameAps(s.link, r.link)
             /\ r.link.lastState = state /\ r.link.kill = s.link.kill
             /\ r.link.status = status
             /\ LooksUp(s, act, ap, r)
  <2>1. /\ LinkOk(q.link) /\ IsService(q) /\ SameAps(t.link, q.link)
        /\ q.link.status = t.link.status /\ q.link.lastState = t.link.lastState
        /\ q.link.kill = t.link.kill /\ LooksUp(t, act, ap, q)
    BY <1>1, <1>3, ConnectionLink
  <2>2. /\ LinkOk(r.link) /\ IsService(r) /\ SameAps(q.link, r.link)
        /\ r.link.active = q.link.active /\ r.link.conn = q.link.conn /\ r.found = q.found
        /\ r.link.lastState = q.link.lastState /\ r.link.kill = q.link.kill
        /\ r.link.status = status
    BY <1>3, <2>1, SetStatus
  <2>3. SameAps(s.link, r.link)
    BY <1>1, <2>1, <2>2 DEF SameAps
  <2>4. LooksUp(t, act, ap, r)
    BY <2>1, <2>2 DEF LooksUp
  <2>5. LooksUp(s, act, ap, r)
    <3>1. Grouped(t.link) = Grouped(s.link) /\ t.link.groups = s.link.groups
      BY <1>1 DEF SameAps, Grouped
    <3>2. Holds(t.link, ap) <=> Holds(s.link, ap)
      BY <3>1 DEF Holds
    <3> QED
      BY <2>4, <3>1, <3>2, <1>1 DEF LooksUp
  <2> QED
    BY <1>1, <2>1, <2>2, <2>3, <2>5
<1>4. CASE state \in DownStates
  <2>1. NoAct \in -1 .. 3
    BY DEF NoAct
  <2>2. state \notin BusyStates /\ state \notin UpStates
    BY <1>4, StatesDisjoint
  <2> QED
    BY <1>2, <1>3, <1>4, <2>1, <2>2 DEF status
<1>5. CASE state \in BusyStates /\ nm.act = NoAct
  <2>1. state \notin DownStates /\ state \notin UpStates
    BY <1>5, StatesDisjoint
  <2>2. r = setStatus(t, status)
    BY <1>2, <1>5
  <2>3. /\ LinkOk(r.link) /\ IsService(r) /\ SameAps(t.link, r.link)
        /\ r.link.active = t.link.active /\ r.link.conn = t.link.conn /\ r.found = t.found
        /\ r.link.lastState = t.link.lastState /\ r.link.kill = t.link.kill
        /\ r.link.status = status
    BY <1>1, <2>2, SetStatus
  <2>4. SameAps(s.link, r.link)
    BY <1>1, <2>3 DEF SameAps
  <2> QED
    BY <1>1, <1>5, <2>1, <2>3, <2>4 DEF status
<1>6. CASE state \in UpStates \/ (state \in BusyStates /\ nm.act # NoAct)
  <2>1. nm.act \in -1 .. 3
    OBVIOUS
  <2>2. state \notin DownStates /\ ~(state \in BusyStates /\ nm.act = NoAct)
    BY <1>6, StatesDisjoint
  <2>3. r = setStatus(updateActiveConnection(t, nm.act, nm.ap), status)
    BY <1>2, <1>6
  <2>4. /\ LinkOk(r.link) /\ IsService(r) /\ SameAps(s.link, r.link)
        /\ r.link.lastState = state /\ r.link.kill = s.link.kill
        /\ r.link.status = status /\ LooksUp(s, nm.act, nm.ap, r)
    BY <1>3, <2>1, <2>3
  <2> QED
    BY <2>2, <2>4 DEF status
<1> QED
  BY <1>4, <1>5, <1>6 DEF DeviceStates

\* What the hotspot manager does to the link: the networks and the connection stay.
LEMMA DisconnectLink ==
    ASSUME NEW s, IsService(s), LinkOk(s.link), NEW d, NEW r, r = setDisconnectWifi(s, d)
    PROVE  /\ LinkOk(r.link) /\ IsService(r)
           /\ r.link.raw = s.link.raw /\ r.link.groups = s.link.groups /\ r.link.grouper = s.link.grouper
           /\ r.link.active = s.link.active /\ r.link.conn = s.link.conn /\ r.found = s.found
           /\ r.link.status = s.link.status /\ r.link.lastState = s.link.lastState
           /\ r.link.kill = s.link.kill
<1> DEFINE l == s.link
           c == [l EXCEPT !.disconnect = d]
           t == update_grouped_access_points([s EXCEPT !.link.disconnect = d])
<1>1. c = [raw |-> l.raw, groups |-> l.groups, grouper |-> l.grouper, active |-> l.active,
           conn |-> l.conn, status |-> l.status, signal |-> l.signal, lastState |-> l.lastState,
           kill |-> l.kill, disconnect |-> d]
  <2>1. c = [l EXCEPT !.disconnect = d] /\ LinkTyped(l)
    BY DEF LinkOk
  <2> HIDE DEF c, l
  <2> QED
    BY <2>1 DEF LinkTyped
<1>2. t = update_grouped_access_points([s EXCEPT !.link = c])
  OBVIOUS
<1>3. r = [t EXCEPT !.link = strengthUpdated(t.link)]
  BY DEF setDisconnectWifi
<1>4. LinkTyped(l) /\ GroupsOf(l)
  BY DEF LinkOk
<1> HIDE DEF c, t, l
<1>5. t.link = c /\ t.found = s.found /\ IsService(t)
  BY <1>2, ItemFollows
<1>6. LinkTyped(c)
  BY <1>1, <1>4 DEF LinkTyped
<1>7. GroupsOf(c)
  BY <1>1, <1>4 DEF GroupsOf
<1> DEFINE u == strengthUpdated(c)
<1>8. /\ LinkOk(u) /\ SameConn(c, u) /\ u.raw = c.raw /\ u.groups = c.groups /\ u.grouper = c.grouper
  BY <1>6, <1>7, StrengthUpdated DEF LinkOk
<1> HIDE DEF u
<1>9. r.link = u /\ r.found = s.found /\ IsService(r)
  <2>1. r = [t EXCEPT !.link = u]
    BY <1>3, <1>5 DEF u
  <2> QED
    BY <2>1, <1>5 DEF IsService
<1> QED
  BY <1>1, <1>8, <1>9 DEF SameConn, l
-----------------------------------------------------------------------------
(* Steps of the service                                                    *)

\* What remains of a link when the networks that nothing refers to are gone.
SameLink(l, r) ==
    /\ r.raw = l.raw /\ r.grouper = l.grouper /\ r.active = l.active /\ r.conn = l.conn
    /\ r.status = l.status /\ r.lastState = l.lastState /\ r.kill = l.kill
    /\ r.disconnect = l.disconnect
    /\ DOMAIN r.groups \subseteq DOMAIN l.groups
    /\ \A g \in DOMAIN r.groups : r.groups[g] = l.groups[g]
    /\ r.active \in DOMAIN r.groups \cup {NoAp}

\* What is not assigned stays.
LEMMA GroupsUpdate ==
    ASSUME NEW l, LinkTyped(l), NEW groups, NEW r, r = [l EXCEPT !.groups = groups]
    PROVE  r = [raw |-> l.raw, groups |-> groups, grouper |-> l.grouper, active |-> l.active,
                conn |-> l.conn, status |-> l.status, signal |-> l.signal,
                lastState |-> l.lastState, kill |-> l.kill, disconnect |-> l.disconnect]
BY DEF LinkTyped

\* A group that is listed or active is never destroyed.
LEMMA CollectedLink ==
    ASSUME NEW l, LinkOk(l), NEW i, NEW r, r = Collected(l, i)
    PROVE  LinkOk(r) /\ SameLink(l, r)
<1> DEFINE kept == {h \in DOMAIN l.groups : h \in Grouped(l) \cup i.aps \cup {l.active, i.active}}
           groups == [g \in kept |-> l.groups[g]]
<1>1. r = [l EXCEPT !.groups = groups]
  BY DEF Collected
<1>2. /\ groups = [g \in DOMAIN groups |-> groups[g]]
      /\ DOMAIN groups \subseteq DOMAIN l.groups
      /\ \A g \in DOMAIN groups : groups[g] = l.groups[g]
      /\ \A g \in DOMAIN l.groups : g \in Grouped(l) \/ g = l.active => g \in DOMAIN groups
  OBVIOUS
<1> HIDE DEF groups, kept
<1>3. r = [raw |-> l.raw, groups |-> groups, grouper |-> l.grouper, active |-> l.active,
           conn |-> l.conn, status |-> l.status, signal |-> l.signal,
           lastState |-> l.lastState, kill |-> l.kill, disconnect |-> l.disconnect]
  BY <1>1, GroupsUpdate DEF LinkOk
<1>4. /\ r.raw = l.raw /\ r.groups = groups /\ r.grouper = l.grouper /\ r.active = l.active
      /\ r.conn = l.conn /\ r.status = l.status /\ r.signal = l.signal
      /\ r.lastState = l.lastState /\ r.kill = l.kill /\ r.disconnect = l.disconnect
  BY <1>3
<1>5. l.active \in DOMAIN groups \cup {NoAp}
  BY <1>2 DEF LinkOk, LinkTyped
<1>6. LinkTyped(r)
  <2>1. Partial(groups, Aps, Groups)
    BY <1>2 DEF LinkOk, LinkTyped, Partial
  <2> QED
    BY <1>3, <1>4, <1>5, <2>1 DEF LinkOk, LinkTyped
<1>7. GroupsOf(r)
  <2>1. \A k \in DOMAIN l.grouper : l.grouper[k] \in DOMAIN groups /\ groups[l.grouper[k]] = l.groups[l.grouper[k]]
    BY <1>2 DEF LinkOk, GroupsOf, Grouped
  <2> QED
    BY <1>4, <2>1 DEF LinkOk, GroupsOf
<1>8. SignalOf(r)
  <2>1. l.active # NoAp => r.groups[l.active] = l.groups[l.active]
    BY <1>2, <1>4, <1>5
  <2>2. LinkTyped(l) /\ SignalOf(l)
    BY DEF LinkOk
  <2> QED
    BY <1>4, <1>6, <2>1, <2>2, SignalKept
<1> QED
  BY <1>2, <1>4, <1>5, <1>6, <1>7, <1>8 DEF LinkOk, SameLink

\* What a step of the service makes of the link.
LEMMA BecomesLink ==
    ASSUME NEW s, LinkOk(s.link), Becomes(s)
    PROVE  LinkOk(link') /\ SameLink(s.link, link') /\ found' = s.found
BY CollectedLink DEF Becomes

-----------------------------------------------------------------------------
(* The signals of access points                                            *)

SignalInv == SignalOrder /\ SignalsCurrent /\ RawCurrent

\* A signal is handled: the others move up.
LEMMA TailSignals ==
    ASSUME sig \in Seq(Signals), sig # <<>>, sig' = Tail(sig)
    PROVE  /\ sig' \in Seq(Signals)
           /\ 1 \in DOMAIN sig /\ sig[1] \in Signals /\ Head(sig) = sig[1]
           /\ DOMAIN sig \subseteq Nat \ {0} /\ DOMAIN sig' \subseteq Nat \ {0}
           /\ \A i \in DOMAIN sig' : i + 1 \in DOMAIN sig /\ sig'[i] = sig[i + 1]
           /\ \A j \in DOMAIN sig : j # 1 => j - 1 \in DOMAIN sig' /\ sig'[j - 1] = sig[j]
<1>1. Len(sig) \in Nat /\ Len(sig) > 0 /\ DOMAIN sig = 1 .. Len(sig)
  OBVIOUS
<1>2. sig' \in Seq(Signals) /\ Len(sig') = Len(sig) - 1 /\ DOMAIN sig' = 1 .. Len(sig) - 1
  BY <1>1
<1>3. \A i \in 1 .. Len(sig) - 1 : sig'[i] = sig[i + 1]
  BY <1>1
<1>4. \A j \in 1 .. Len(sig) : j # 1 => j - 1 \in 1 .. Len(sig) - 1 /\ (j - 1) + 1 = j
  BY <1>1
<1> QED
  BY <1>1, <1>2, <1>3, <1>4

\* A signal is sent.
LEMMA SentSignal ==
    ASSUME sig \in Seq(Signals), NEW x \in Signals, sig' = Append(sig, x)
    PROVE  /\ sig' \in Seq(Signals)
           /\ DOMAIN sig \subseteq DOMAIN sig' /\ DOMAIN sig' \subseteq Nat \ {0}
           /\ \A i \in DOMAIN sig : sig'[i] = sig[i]
           /\ \E n \in DOMAIN sig' : /\ sig'[n] = x /\ n \notin DOMAIN sig
                                     /\ DOMAIN sig' = DOMAIN sig \cup {n}
                                     /\ \A i \in DOMAIN sig : i < n
                                     /\ DOMAIN sig = 1 .. n - 1
<1>1. Len(sig) \in Nat /\ DOMAIN sig = 1 .. Len(sig)
  OBVIOUS
<1>2. /\ sig' \in Seq(Signals) /\ Len(sig') = Len(sig) + 1
      /\ DOMAIN sig' = 1 .. Len(sig) + 1
      /\ \A i \in 1 .. Len(sig) : sig'[i] = sig[i]
      /\ sig'[Len(sig) + 1] = x
  BY <1>1
<1> DEFINE n == Len(sig) + 1
<1>3. n \in DOMAIN sig' /\ n \notin DOMAIN sig /\ DOMAIN sig' = DOMAIN sig \cup {n}
      /\ (\A i \in DOMAIN sig : i < n) /\ DOMAIN sig = 1 .. n - 1
  BY <1>1, <1>2
<1> QED
  BY <1>1, <1>2, <1>3
\* A signal is handled: when the link knows what it says, the rest is as it was.
LEMMA TakenInv ==
    ASSUME sig \in Seq(Signals), sig # <<>>, sig' = Tail(sig), SignalInv,
           nm'.aps = nm.aps, nm'.used = nm.used,
           \A a \in Aps : a \in DOMAIN link'.groups => a \in DOMAIN link.groups \/ About(1, a),
           DOMAIN link'.groups \subseteq Aps, DOMAIN link'.raw \subseteq Aps,
           \A a \in Aps : a \in DOMAIN link.raw /\ a \notin DOMAIN link'.raw =>
               About(1, a) /\ sig[1].t = "removed",
           \A a \in Aps : About(1, a) /\ sig[1].t = "added" => a \in DOMAIN link'.raw,
           \A a \in Aps : ~About(1, a) =>
               /\ a \in DOMAIN link'.raw <=> a \in DOMAIN link.raw
               /\ a \in DOMAIN link.raw => link'.raw[a] = link.raw[a],
           \A a \in Aps : LastAbout(1, a) =>
               /\ a \in DOMAIN link'.raw <=> a \in DOMAIN nm.aps
               /\ a \in DOMAIN nm.aps => link'.raw[a] = [key |-> KeyOf[a], strength |-> nm.aps[a]],
           \A a \in DOMAIN link'.raw : About(1, a) =>
               link'.raw[a].key = KeyOf[a] \/ (link'.raw[a].key = NoKey /\ a \notin DOMAIN nm.aps)
    PROVE  SignalInv'
<1>1. /\ 1 \in DOMAIN sig /\ DOMAIN sig \subseteq Nat \ {0} /\ DOMAIN sig' \subseteq Nat \ {0}
      /\ \A i \in DOMAIN sig' : i + 1 \in DOMAIN sig /\ sig'[i] = sig[i + 1]
      /\ \A j \in DOMAIN sig : j # 1 => j - 1 \in DOMAIN sig' /\ sig'[j - 1] = sig[j]
  BY TailSignals
<1>2. \A i \in DOMAIN sig', a \in Aps : About(i, a)' <=> About(i + 1, a)
  BY <1>1 DEF About
<1>3. \A j \in DOMAIN sig, a \in Aps : j # 1 => (About(j - 1, a)' <=> About(j, a))
  BY <1>1 DEF About
<1>4. \A a \in Aps : About(1, a) => a \in nm.used
  BY <1>1 DEF SignalInv, SignalOrder
<1>5. SignalOrder'
  <2> SUFFICES ASSUME NEW i \in DOMAIN sig', NEW a \in Aps, About(i, a)'
               PROVE  /\ a \in nm'.used
                      /\ sig'[i].t = "added" => a \notin DOMAIN link'.raw /\ a \notin DOMAIN link'.groups
                      /\ sig'[i].t # "added" => a \in DOMAIN link'.raw
                             \/ \E h \in 1 .. i - 1 : About(h, a)' /\ sig'[h].t = "added"
                      /\ \A j \in 1 .. i - 1 : About(j, a)' => sig'[i].t # "added" /\ sig'[j].t # "removed"
    BY DEF SignalOrder
  <2>1. /\ i + 1 \in DOMAIN sig /\ sig'[i] = sig[i + 1] /\ About(i + 1, a)
        /\ i \in Nat /\ i >= 1 /\ 1 \in 1 .. (i + 1) - 1
    BY <1>1, <1>2
  <2>2. /\ a \in nm.used
        /\ sig[i + 1].t = "added" => a \notin DOMAIN link.raw /\ a \notin DOMAIN link.groups
        /\ sig[i + 1].t # "added" => a \in DOMAIN link.raw
               \/ \E h \in 1 .. (i + 1) - 1 : About(h, a) /\ sig[h].t = "added"
        /\ \A j \in 1 .. (i + 1) - 1 : About(j, a) => sig[i + 1].t # "added" /\ sig[j].t # "removed"
    BY <2>1 DEF SignalInv, SignalOrder
  <2>3. About(1, a) => sig[i + 1].t # "added" /\ sig[1].t # "removed"
    BY <2>1, <2>2
  <2>4. ASSUME sig'[i].t = "added" PROVE a \notin DOMAIN link'.raw /\ a \notin DOMAIN link'.groups
    BY <2>1, <2>2, <2>3, <2>4
  <2>5. ASSUME sig'[i].t # "added", a \notin DOMAIN link'.raw
        PROVE  \E h \in 1 .. i - 1 : About(h, a)' /\ sig'[h].t = "added"
    <3>1. a \notin DOMAIN link.raw
      BY <2>3, <2>5
    <3>2. PICK h \in 1 .. (i + 1) - 1 : About(h, a) /\ sig[h].t = "added"
      BY <2>1, <2>2, <2>5, <3>1
    <3>3. h # 1
      BY <2>5, <3>2
    <3>4. h \in DOMAIN sig
      <4>1. DOMAIN sig = 1 .. Len(sig) /\ Len(sig) \in Nat
        OBVIOUS
      <4> QED
        BY <2>1, <4>1
    <3>5. h - 1 \in 1 .. i - 1
      BY <2>1, <3>3
    <3>6. About(h - 1, a)' /\ sig'[h - 1] = sig[h]
      BY <1>1, <1>3, <3>2, <3>3, <3>4
    <3> QED
      BY <3>2, <3>5, <3>6
  <2>6. ASSUME NEW j \in 1 .. i - 1, About(j, a)' PROVE sig'[i].t # "added" /\ sig'[j].t # "removed"
    <3>1. j \in DOMAIN sig' /\ j + 1 \in 1 .. (i + 1) - 1
      <4>1. DOMAIN sig' = 1 .. Len(sig') /\ Len(sig') \in Nat
        BY TailSignals
      <4> QED
        BY <2>1, <4>1
    <3>2. About(j + 1, a) /\ sig'[j] = sig[j + 1]
      BY <1>1, <1>2, <2>6, <3>1
    <3> QED
      BY <2>1, <2>2, <3>1, <3>2
  <2> QED
    BY <2>2, <2>4, <2>5, <2>6
<1>6. SignalsCurrent'
  <2> SUFFICES ASSUME NEW i \in DOMAIN sig', NEW a \in Aps, LastAbout(i, a)'
               PROVE  /\ sig'[i].t = "removed" <=> a \notin DOMAIN nm'.aps
                      /\ sig'[i].t = "strength" => nm'.aps[a] = sig'[i].strength
    BY DEF SignalsCurrent
  <2>1. i + 1 \in DOMAIN sig /\ sig'[i] = sig[i + 1] /\ About(i + 1, a) /\ i \in Nat
    BY <1>1, <1>2 DEF LastAbout
  <2>2. \A j \in DOMAIN sig : j > i + 1 => ~About(j, a)
    <3> TAKE j \in DOMAIN sig
    <3> HAVE j > i + 1
    <3>1. j \in Nat /\ j # 1 /\ j - 1 > i
      BY <1>1, <2>1
    <3>2. j - 1 \in DOMAIN sig'
      BY <1>1, <3>1
    <3>3. ~About(j - 1, a)'
      BY <3>1, <3>2 DEF LastAbout
    <3> QED
      BY <1>3, <3>1, <3>3
  <2>3. LastAbout(i + 1, a)
    BY <2>1, <2>2 DEF LastAbout
  <2> QED
    BY <2>1, <2>3 DEF SignalInv, SignalsCurrent
<1>7. RawCurrent'
  <2>1. ASSUME NEW a \in Aps, NoneAbout(a)'
        PROVE  /\ a \in DOMAIN link'.raw <=> a \in DOMAIN nm'.aps
               /\ a \in DOMAIN nm'.aps => link'.raw[a] = [key |-> KeyOf[a], strength |-> nm'.aps[a]]
    <3>1. \A j \in DOMAIN sig : j # 1 => ~About(j, a)
      BY <1>1, <1>3, <2>1 DEF NoneAbout
    <3>2. CASE About(1, a)
      BY <1>1, <3>1, <3>2 DEF LastAbout
    <3>3. CASE ~About(1, a)
      BY <1>1, <3>1, <3>3 DEF NoneAbout, SignalInv, RawCurrent
    <3> QED
      BY <3>2, <3>3
  <2>2. ASSUME NEW a \in DOMAIN link'.raw
        PROVE  /\ link'.raw[a].key = KeyOf[a] \/ (link'.raw[a].key = NoKey /\ a \notin DOMAIN nm'.aps)
               /\ a \in nm'.used
    <3>1. a \in Aps
      OBVIOUS
    <3> QED
      BY <1>4, <3>1 DEF SignalInv, RawCurrent
  <2>3. DOMAIN link'.groups \subseteq nm'.used
    BY <1>4 DEF SignalInv, RawCurrent
  <2> QED
    BY <2>1, <2>2, <2>3 DEF RawCurrent
<1> QED
  BY <1>5, <1>6, <1>7 DEF SignalInv

\* NetworkManager tells of a change of an access point.
LEMMA SentInv ==
    ASSUME sig \in Seq(Signals), NEW x \in ApSignals, sig' = Append(sig, x), SignalInv, link' = link,
           DOMAIN link.raw \subseteq Aps,
           x.ap \in nm'.used, nm.used \subseteq nm'.used,
           \A a \in Aps : a # x.ap =>
               /\ a \in DOMAIN nm'.aps <=> a \in DOMAIN nm.aps
               /\ a \in DOMAIN nm.aps => nm'.aps[a] = nm.aps[a],
           x.t = "added" => x.ap \notin nm.used,
           x.t # "added" => x.ap \in DOMAIN nm.aps /\ x.ap \in nm.used,
           x.t = "removed" <=> x.ap \notin DOMAIN nm'.aps,
           x.t = "strength" => nm'.aps[x.ap] = x.strength
    PROVE  SignalInv'
<1>1. x \in Signals
  BY DEF Signals
<1>2. /\ DOMAIN sig \subseteq DOMAIN sig' /\ DOMAIN sig' \subseteq Nat \ {0}
      /\ \A i \in DOMAIN sig : sig'[i] = sig[i]
      /\ \E n \in DOMAIN sig' : /\ sig'[n] = x /\ n \notin DOMAIN sig
                                /\ DOMAIN sig' = DOMAIN sig \cup {n}
                                /\ \A i \in DOMAIN sig : i < n
                                /\ DOMAIN sig = 1 .. n - 1
  BY <1>1, SentSignal
<1>3. PICK n \in DOMAIN sig' : /\ sig'[n] = x /\ n \notin DOMAIN sig
                               /\ DOMAIN sig' = DOMAIN sig \cup {n}
                               /\ \A i \in DOMAIN sig : i < n
                               /\ DOMAIN sig = 1 .. n - 1
  BY <1>2
<1>4. \A i \in DOMAIN sig, a \in Aps : About(i, a)' <=> About(i, a)
  BY <1>2 DEF About
<1>5. \A a \in Aps : About(n, a)' <=> a = x.ap
  BY <1>3 DEF About
<1>6. x.ap \in Aps
  BY DEF ApSignals
<1>7. n \in Nat
  BY <1>2, <1>3
<1>8. SignalOrder'
  <2>1. ASSUME NEW i \in DOMAIN sig, NEW a \in Aps, About(i, a)'
        PROVE  /\ a \in nm'.used
               /\ sig'[i].t = "added" => a \notin DOMAIN link'.raw /\ a \notin DOMAIN link'.groups
               /\ sig'[i].t # "added" => a \in DOMAIN link'.raw
                      \/ \E h \in 1 .. i - 1 : About(h, a)' /\ sig'[h].t = "added"
               /\ \A j \in 1 .. i - 1 : About(j, a)' => sig'[i].t # "added" /\ sig'[j].t # "removed"
    <3>1. About(i, a) /\ sig'[i] = sig[i]
      BY <1>2, <1>4, <2>1
    <3>2. 1 .. i - 1 \subseteq DOMAIN sig
      BY <1>3, <1>7
    <3>3. /\ a \in nm.used
          /\ sig[i].t = "added" => a \notin DOMAIN link.raw /\ a \notin DOMAIN link.groups
          /\ sig[i].t # "added" => a \in DOMAIN link.raw
                 \/ \E h \in 1 .. i - 1 : About(h, a) /\ sig[h].t = "added"
          /\ \A j \in 1 .. i - 1 : About(j, a) => sig[i].t # "added" /\ sig[j].t # "removed"
      BY <3>1 DEF SignalInv, SignalOrder
    <3>4. \A h \in 1 .. i - 1 : sig'[h] = sig[h] /\ (About(h, a)' <=> About(h, a))
      BY <1>2, <1>4, <3>2
    <3> QED
      BY <3>1, <3>3, <3>4
  <2>2. /\ x.ap \in nm'.used
        /\ x.t = "added" => x.ap \notin DOMAIN link'.raw /\ x.ap \notin DOMAIN link'.groups
    BY DEF SignalInv, RawCurrent
  <2>3. x.t # "added" => x.ap \in DOMAIN link.raw
                         \/ \E h \in 1 .. n - 1 : About(h, x.ap)' /\ sig'[h].t = "added"
    <3> HAVE x.t # "added"
    <3>1. CASE NoneAbout(x.ap)
      BY <1>6, <3>1 DEF SignalInv, RawCurrent
    <3>2. CASE \E i \in DOMAIN sig : About(i, x.ap)
      <4>1. PICK i \in DOMAIN sig : About(i, x.ap)
        BY <3>2
      <4>2. i \in 1 .. n - 1 /\ 1 .. i - 1 \subseteq 1 .. n - 1
        BY <1>3, <1>7
      <4>3. \/ sig[i].t = "added" \/ x.ap \in DOMAIN link.raw
            \/ \E h \in 1 .. i - 1 : About(h, x.ap) /\ sig[h].t = "added"
        BY <1>6, <4>1 DEF SignalInv, SignalOrder
      <4>4. x.ap \in DOMAIN link.raw \/ \E h \in 1 .. n - 1 : About(h, x.ap) /\ sig[h].t = "added"
        BY <4>1, <4>2, <4>3
      <4>5. \A h \in 1 .. n - 1 : sig'[h] = sig[h] /\ (About(h, x.ap)' <=> About(h, x.ap))
        BY <1>2, <1>3, <1>4, <1>6
      <4> QED
        BY <4>4, <4>5
    <3> QED
      BY <3>1, <3>2 DEF NoneAbout
  <2>4. \A j \in 1 .. n - 1 : About(j, x.ap)' => x.t # "added" /\ sig'[j].t # "removed"
    <3> SUFFICES ASSUME NEW j \in 1 .. n - 1, About(j, x.ap)' PROVE x.t # "added" /\ sig'[j].t # "removed"
      OBVIOUS
    <3>1. j \in DOMAIN sig /\ About(j, x.ap) /\ sig'[j] = sig[j]
      BY <1>2, <1>3, <1>4, <1>6
    <3>2. x.t # "added"
      BY <1>6, <3>1 DEF SignalInv, SignalOrder
    <3>3. ASSUME sig[j].t = "removed" PROVE FALSE
      <4>1. \A k \in DOMAIN sig : k > j => ~About(k, x.ap)
        <5> TAKE k \in DOMAIN sig
        <5> HAVE k > j
        <5>1. j \in 1 .. k - 1
          BY <1>3, <1>7
        <5> QED
          BY <1>6, <3>1, <3>3, <5>1 DEF SignalInv, SignalOrder
      <4>2. LastAbout(j, x.ap)
        BY <3>1, <4>1 DEF LastAbout
      <4>3. x.ap \notin DOMAIN nm.aps
        BY <1>6, <3>1, <3>3, <4>2 DEF SignalInv, SignalsCurrent
      <4> QED
        BY <3>2, <4>3
    <3> QED
      BY <3>1, <3>2, <3>3
  <2> QED
    BY <1>3, <1>5, <2>1, <2>2, <2>3, <2>4 DEF SignalOrder
<1>9. SignalsCurrent'
  <2> SUFFICES ASSUME NEW i \in DOMAIN sig', NEW a \in Aps, LastAbout(i, a)'
               PROVE  /\ sig'[i].t = "removed" <=> a \notin DOMAIN nm'.aps
                      /\ sig'[i].t = "strength" => nm'.aps[a] = sig'[i].strength
    BY DEF SignalsCurrent
  <2>1. CASE a = x.ap
    <3>1. i = n
      <4>1. About(n, a)'
        BY <1>5, <2>1
      <4>2. n \in DOMAIN sig' /\ ~(n > i)
        BY <4>1 DEF LastAbout
      <4> QED
        BY <1>3, <4>2
    <3> QED
      BY <1>3, <2>1, <3>1
  <2>2. CASE a # x.ap
    <3>1. i \in DOMAIN sig /\ About(i, a) /\ sig'[i] = sig[i]
      BY <1>2, <1>3, <1>4, <1>5, <2>2 DEF LastAbout
    <3>2. LastAbout(i, a)
      BY <1>2, <1>4, <3>1 DEF LastAbout
    <3> QED
      BY <2>2, <3>1, <3>2 DEF SignalInv, SignalsCurrent
  <2> QED
    BY <2>1, <2>2
<1>10. RawCurrent'
  <2>1. ASSUME NEW a \in Aps, NoneAbout(a)'
        PROVE  /\ a # x.ap
               /\ a \in DOMAIN link'.raw <=> a \in DOMAIN nm'.aps
               /\ a \in DOMAIN nm'.aps => link'.raw[a] = [key |-> KeyOf[a], strength |-> nm'.aps[a]]
    <3>1. a # x.ap
      BY <1>5, <2>1 DEF NoneAbout
    <3>2. NoneAbout(a)
      BY <1>2, <1>4, <2>1 DEF NoneAbout
    <3> QED
      BY <3>1, <3>2 DEF SignalInv, RawCurrent
  <2>2. ASSUME NEW a \in DOMAIN link.raw
        PROVE  link.raw[a].key = KeyOf[a] \/ (link.raw[a].key = NoKey /\ a \notin DOMAIN nm'.aps)
    <3>1. a \in Aps /\ a \in nm.used
      BY DEF SignalInv, RawCurrent
    <3>2. link.raw[a].key = KeyOf[a] \/ (link.raw[a].key = NoKey /\ a \notin DOMAIN nm.aps)
      BY DEF SignalInv, RawCurrent
    <3> QED
      BY <3>1, <3>2
  <2>3. DOMAIN link.raw \subseteq nm'.used /\ DOMAIN link.groups \subseteq nm'.used
    BY DEF SignalInv, RawCurrent
  <2> QED
    BY <2>1, <2>2, <2>3 DEF RawCurrent
<1> QED
  BY <1>8, <1>9, <1>10 DEF SignalInv
News == [t : {"state"}, state : DeviceStates] \cup [t : {"kill"}]

\* What tells of the device or the kill switch tells of no access point.
LEMMA NewsOnly ==
    /\ \A x \in News : x \in Signals /\ x \notin ApSignals
    /\ \A x \in Signals : x.t = "state" => x \in News /\ x.state \in DeviceStates
    /\ \A x \in Signals : x.t = "kill" => x \in News
    /\ \A x \in Signals : x.t \in {"added", "removed", "strength"} => x \in ApSignals /\ x.ap \in Aps
    /\ \A x \in Signals : x.t = "strength" => x.strength \in Strengths
    /\ \A x \in ApSignals : x.t \in {"added", "removed", "strength"}
BY DEF News, Signals, ApSignals

\* Signals of the device are sent, or none.
LEMMA SentNews ==
    ASSUME sig \in Seq(Signals), NEW q \in Seq(News), sig' = sig \o q
    PROVE  /\ sig' \in Seq(Signals)
           /\ DOMAIN sig \subseteq DOMAIN sig' /\ DOMAIN sig' \subseteq Nat \ {0}
           /\ \A i \in DOMAIN sig : sig'[i] = sig[i]
           /\ \A i \in DOMAIN sig' : i \notin DOMAIN sig => sig'[i] \in News /\ sig'[i] \notin ApSignals
           /\ \A i \in DOMAIN sig', j \in DOMAIN sig : i \notin DOMAIN sig => j < i
<1>1. News \subseteq Signals /\ \A x \in News : x \notin ApSignals
  BY NewsOnly
<1>2. q \in Seq(Signals)
  BY <1>1
<1>3. /\ sig' \in Seq(Signals) /\ Len(sig') = Len(sig) + Len(q)
      /\ \A i \in 1 .. Len(sig) + Len(q) :
             sig'[i] = IF i <= Len(sig) THEN sig[i] ELSE q[i - Len(sig)]
  BY <1>2, ConcatProperties
<1>4. /\ Len(sig) \in Nat /\ Len(q) \in Nat /\ DOMAIN sig = 1 .. Len(sig)
      /\ DOMAIN sig' = 1 .. Len(sig) + Len(q) /\ \A j \in 1 .. Len(q) : q[j] \in News
  BY <1>2, <1>3
<1>5. \A i \in 1 .. Len(sig) + Len(q) : i \notin 1 .. Len(sig) =>
          /\ ~(i <= Len(sig)) /\ i - Len(sig) \in 1 .. Len(q) /\ \A j \in 1 .. Len(sig) : j < i
  BY <1>4
<1>6. \A i \in DOMAIN sig' : i \notin DOMAIN sig => sig'[i] \in News
  BY <1>3, <1>4, <1>5
<1>7. \A i \in DOMAIN sig : sig'[i] = sig[i]
  BY <1>3, <1>4
<1>8. DOMAIN sig \subseteq DOMAIN sig' /\ DOMAIN sig' \subseteq Nat \ {0}
  BY <1>4
<1> QED
  BY <1>1, <1>3, <1>4, <1>5, <1>6, <1>7, <1>8

\* That disturbs nothing that is known of the access points.
LEMMA NewsInv ==
    ASSUME sig \in Seq(Signals), NEW q \in Seq(News), sig' = sig \o q, SignalInv,
           nm'.aps = nm.aps, nm'.used = nm.used,
           link'.raw = link.raw, DOMAIN link'.groups \subseteq DOMAIN link.groups
    PROVE  SignalInv'
<1>1. /\ DOMAIN sig \subseteq DOMAIN sig' /\ DOMAIN sig' \subseteq Nat \ {0}
      /\ \A i \in DOMAIN sig : sig'[i] = sig[i]
      /\ \A i \in DOMAIN sig' : i \notin DOMAIN sig => sig'[i] \notin ApSignals
  BY SentNews
<1>2. \A i \in DOMAIN sig, a \in Aps : About(i, a)' <=> About(i, a)
  BY <1>1 DEF About
<1>3. \A i \in DOMAIN sig', a \in Aps : About(i, a)' => i \in DOMAIN sig
  BY <1>1 DEF About
<1>4. SignalOrder'
  <2> SUFFICES ASSUME NEW i \in DOMAIN sig', NEW a \in Aps, About(i, a)'
               PROVE  /\ a \in nm'.used
                      /\ sig'[i].t = "added" => a \notin DOMAIN link'.raw /\ a \notin DOMAIN link'.groups
                      /\ sig'[i].t # "added" => a \in DOMAIN link'.raw
                             \/ \E h \in 1 .. i - 1 : About(h, a)' /\ sig'[h].t = "added"
                      /\ \A j \in 1 .. i - 1 : About(j, a)' => sig'[i].t # "added" /\ sig'[j].t # "removed"
    BY DEF SignalOrder
  <2>1. i \in DOMAIN sig /\ About(i, a) /\ sig'[i] = sig[i]
    BY <1>1, <1>2, <1>3
  <2>2. \A h \in 1 .. i - 1 : sig'[h] = sig[h] /\ (About(h, a)' <=> About(h, a))
    <3>1. DOMAIN sig = 1 .. Len(sig) /\ Len(sig) \in Nat
      OBVIOUS
    <3>2. 1 .. i - 1 \subseteq DOMAIN sig
      BY <2>1, <3>1
    <3> QED
      BY <1>1, <1>2, <3>2
  <2>3. /\ a \in nm.used
        /\ sig[i].t = "added" => a \notin DOMAIN link.raw /\ a \notin DOMAIN link.groups
        /\ sig[i].t # "added" => a \in DOMAIN link.raw
               \/ \E h \in 1 .. i - 1 : About(h, a) /\ sig[h].t = "added"
        /\ \A j \in 1 .. i - 1 : About(j, a) => sig[i].t # "added" /\ sig[j].t # "removed"
    BY <2>1 DEF SignalInv, SignalOrder
  <2> QED
    BY <2>1, <2>2, <2>3
<1>5. SignalsCurrent'
  <2> SUFFICES ASSUME NEW i \in DOMAIN sig', NEW a \in Aps, LastAbout(i, a)'
               PROVE  /\ sig'[i].t = "removed" <=> a \notin DOMAIN nm'.aps
                      /\ sig'[i].t = "strength" => nm'.aps[a] = sig'[i].strength
    BY DEF SignalsCurrent
  <2>1. i \in DOMAIN sig /\ About(i, a) /\ sig'[i] = sig[i]
    BY <1>1, <1>2, <1>3 DEF LastAbout
  <2>2. LastAbout(i, a)
    BY <1>1, <1>2, <2>1 DEF LastAbout
  <2> QED
    BY <2>1, <2>2 DEF SignalInv, SignalsCurrent
<1>6. RawCurrent'
  <2>1. \A a \in Aps : NoneAbout(a)' => NoneAbout(a)
    BY <1>1, <1>2 DEF NoneAbout
  <2> QED
    BY <2>1 DEF SignalInv, RawCurrent
<1> QED
  BY <1>4, <1>5, <1>6 DEF SignalInv

-----------------------------------------------------------------------------
(* The access points, step by step                                         *)

\* What NetworkManager has of the access points stays.
SameWorld == nm'.aps = nm.aps /\ nm'.used = nm.used

\* What the connection and the device make of the link stays.
Alike(l, r) ==
    /\ r.active = l.active /\ r.conn = l.conn /\ r.status = l.status /\ r.lastState = l.lastState
    /\ r.kill = l.kill
    /\ l.active \in DOMAIN l.groups =>
           l.active \in DOMAIN r.groups /\ r.groups[l.active].key = l.groups[l.active].key

\* The network of the active connection is not destroyed.
LEMMA AlikeStep ==
    ASSUME NEW l, LinkOk(l), NEW m, SameConn(l, m), NEW r, SameLink(m, r)
    PROVE  Alike(l, r)
<1>1. l.active \in DOMAIN l.groups => l.active # NoAp
  BY ApsAssumption DEF LinkOk, LinkTyped, Partial, NoAp
<1> QED
  BY <1>1 DEF SameConn, SameLink, Alike

\* The link learns of an access point.
LEMMA AddedInv ==
    ASSUME TypeInv, GroupInv, SignalOf(link), HandleAdded
    PROVE  /\ sig' \in Seq(Signals) /\ LinkOk(link') /\ SignalInv'
           /\ Alike(link, link') /\ found' = found /\ sig[1] \in ApSignals
<1> DEFINE a == Head(sig).ap
           s == Service
           r == ap_added(s, a)
<1>1. /\ sig # <<>> /\ Head(sig).t = "added" /\ sig' = Tail(sig) /\ nm' = nm /\ Becomes(r)
      /\ sig \in Seq(Signals)
  BY DEF HandleAdded, Takes, TypeInv
<1>2. /\ sig' \in Seq(Signals) /\ 1 \in DOMAIN sig /\ sig[1] \in Signals /\ Head(sig) = sig[1]
  BY <1>1, TailSignals
<1>3. sig[1] \in ApSignals /\ a \in Aps /\ a = sig[1].ap /\ sig[1].t = "added"
  BY <1>1, <1>2, NewsOnly
<1>4. s.link = link /\ s.found = found /\ IsService(s)
  BY DEF Service, IsService
<1>5. LinkOk(link)
  BY DEF LinkOk, TypeInv, GroupInv
<1>6. About(1, a) /\ (\A x \in Aps : About(1, x) => x = a)
  BY <1>3 DEF About
<1>7. a \notin DOMAIN link.raw /\ a \notin DOMAIN link.groups
  BY <1>2, <1>3, <1>6 DEF GroupInv, SignalOrder
<1>8. NmTyped
  BY DEF TypeInv
<1>9. /\ LinkOk(r.link) /\ SameConn(link, r.link) /\ r.found = found
      /\ r.link.raw = With(link.raw, a, NewAp(a))
      /\ DOMAIN r.link.groups \subseteq DOMAIN link.groups \cup {a}
  <2> HIDE DEF s, a
  <2>1. /\ LinkOk(s.link) /\ a \in Aps /\ a \notin DOMAIN s.link.raw /\ a \notin DOMAIN s.link.groups
        /\ r = ap_added(s, a)
    BY <1>3, <1>4, <1>5, <1>7
  <2> HIDE DEF r
  <2> QED
    BY <1>4, <1>8, <2>1, AddedLink
<1> HIDE DEF r, s
<1>10. LinkOk(link') /\ SameLink(r.link, link') /\ found' = r.found
  BY <1>1, <1>9, BecomesLink
<1>11. /\ NewAp(a) \in AccessPoints
       /\ NewAp(a).key = IF a \in DOMAIN nm.aps THEN KeyOf[a] ELSE NoKey
       /\ a \in DOMAIN nm.aps => NewAp(a) = [key |-> KeyOf[a], strength |-> nm.aps[a]]
  BY <1>3, <1>8, NewApTyped
<1> HIDE DEF a
<1>12. /\ link'.raw = With(link.raw, a, NewAp(a))
       /\ DOMAIN link'.groups \subseteq DOMAIN link.groups \cup {a}
  BY <1>9, <1>10 DEF SameLink
<1>13. /\ DOMAIN link'.raw = DOMAIN link.raw \cup {a} /\ link'.raw[a] = NewAp(a)
       /\ \A x \in DOMAIN link.raw : x # a => link'.raw[x] = link.raw[x]
  BY <1>12 DEF With
<1>14. DOMAIN link'.groups \subseteq Aps /\ DOMAIN link'.raw \subseteq Aps
  BY <1>10 DEF LinkOk, LinkTyped, Partial
<1>15. ASSUME LastAbout(1, a) PROVE a \in DOMAIN nm.aps
  BY <1>2, <1>3, <1>15 DEF GroupInv, SignalsCurrent
<1>16. \A x \in Aps : LastAbout(1, x) => x = a
  BY <1>6 DEF LastAbout
<1>17. SignalInv
  BY DEF SignalInv, GroupInv
<1>18. \A x \in Aps : LastAbout(1, x) =>
           /\ x \in DOMAIN link'.raw <=> x \in DOMAIN nm.aps
           /\ x \in DOMAIN nm.aps => link'.raw[x] = [key |-> KeyOf[x], strength |-> nm.aps[x]]
  BY <1>11, <1>13, <1>15, <1>16
<1>19. /\ \A x \in Aps : x \in DOMAIN link'.groups => x \in DOMAIN link.groups \/ About(1, x)
       /\ \A x \in Aps : x \in DOMAIN link.raw /\ x \notin DOMAIN link'.raw =>
              About(1, x) /\ sig[1].t = "removed"
       /\ \A x \in Aps : About(1, x) /\ sig[1].t = "added" => x \in DOMAIN link'.raw
       /\ \A x \in Aps : ~About(1, x) =>
              /\ x \in DOMAIN link'.raw <=> x \in DOMAIN link.raw
              /\ x \in DOMAIN link.raw => link'.raw[x] = link.raw[x]
       /\ \A x \in DOMAIN link'.raw : About(1, x) =>
              link'.raw[x].key = KeyOf[x] \/ (link'.raw[x].key = NoKey /\ x \notin DOMAIN nm.aps)
  BY <1>6, <1>11, <1>12, <1>13, <1>14
<1>20. SignalInv'
  BY <1>1, <1>14, <1>17, <1>18, <1>19, TakenInv
<1>21. Alike(link, link')
  BY <1>5, <1>9, <1>10, AlikeStep
<1> QED
  BY <1>2, <1>3, <1>9, <1>10, <1>20, <1>21
\* The link drops an access point that it knew.
LEMMA RemovedInv ==
    ASSUME TypeInv, GroupInv, SignalOf(link), HandleRemoved
    PROVE  /\ sig' \in Seq(Signals) /\ LinkOk(link') /\ SignalInv'
           /\ Alike(link, link') /\ found' = found /\ sig[1] \in ApSignals
<1> DEFINE a == Head(sig).ap
           s == Service
           r == ap_removed(s, a)
<1>1. /\ sig # <<>> /\ Head(sig).t = "removed" /\ sig' = Tail(sig) /\ nm' = nm /\ Becomes(r)
      /\ sig \in Seq(Signals)
  BY DEF HandleRemoved, Takes, TypeInv
<1>2. /\ sig' \in Seq(Signals) /\ 1 \in DOMAIN sig /\ sig[1] \in Signals /\ Head(sig) = sig[1]
  BY <1>1, TailSignals
<1>3. sig[1] \in ApSignals /\ a \in Aps /\ a = sig[1].ap /\ sig[1].t = "removed"
  BY <1>1, <1>2, NewsOnly
<1>4. s.link = link /\ s.found = found /\ IsService(s)
  BY DEF Service, IsService
<1>5. LinkOk(link)
  BY DEF LinkOk, TypeInv, GroupInv
<1>6. About(1, a) /\ (\A x \in Aps : About(1, x) => x = a)
  BY <1>3 DEF About
<1>7. a \in DOMAIN link.raw
  BY <1>2, <1>3, <1>6 DEF GroupInv, SignalOrder
<1>8. NmTyped
  BY DEF TypeInv
<1>9. /\ LinkOk(r.link) /\ SameConn(link, r.link) /\ r.found = found
      /\ r.link.raw = Without(link.raw, a)
      /\ DOMAIN r.link.groups \subseteq DOMAIN link.groups
  <2> HIDE DEF s, a
  <2>1. /\ LinkOk(s.link) /\ a \in DOMAIN s.link.raw
        /\ r = ap_removed(s, a)
    BY <1>3, <1>4, <1>5, <1>7
  <2> HIDE DEF r
  <2> QED
    BY <1>4, <1>8, <2>1, RemovedLink
<1> HIDE DEF r, s
<1>10. LinkOk(link') /\ SameLink(r.link, link') /\ found' = r.found
  BY <1>1, <1>9, BecomesLink
<1> HIDE DEF a
<1>12. /\ link'.raw = Without(link.raw, a)
       /\ DOMAIN link'.groups \subseteq DOMAIN link.groups
  BY <1>9, <1>10 DEF SameLink
<1>13. /\ DOMAIN link'.raw = DOMAIN link.raw \ {a}
       /\ \A x \in DOMAIN link.raw : x # a => link'.raw[x] = link.raw[x]
  BY <1>12 DEF Without
<1>14. DOMAIN link'.groups \subseteq Aps /\ DOMAIN link'.raw \subseteq Aps
  BY <1>10 DEF LinkOk, LinkTyped, Partial
<1>15. ASSUME LastAbout(1, a) PROVE a \notin DOMAIN nm.aps
  BY <1>2, <1>3, <1>15 DEF GroupInv, SignalsCurrent
<1>16. \A x \in Aps : LastAbout(1, x) => x = a
  BY <1>6 DEF LastAbout
<1>17. SignalInv
  BY DEF SignalInv, GroupInv
<1>18. \A x \in Aps : LastAbout(1, x) =>
           /\ x \in DOMAIN link'.raw <=> x \in DOMAIN nm.aps
           /\ x \in DOMAIN nm.aps => link'.raw[x] = [key |-> KeyOf[x], strength |-> nm.aps[x]]
  BY <1>13, <1>15, <1>16
<1>19. /\ \A x \in Aps : x \in DOMAIN link'.groups => x \in DOMAIN link.groups \/ About(1, x)
       /\ \A x \in Aps : x \in DOMAIN link.raw /\ x \notin DOMAIN link'.raw =>
              About(1, x) /\ sig[1].t = "removed"
       /\ \A x \in Aps : About(1, x) /\ sig[1].t = "added" => x \in DOMAIN link'.raw
       /\ \A x \in Aps : ~About(1, x) =>
              /\ x \in DOMAIN link'.raw <=> x \in DOMAIN link.raw
              /\ x \in DOMAIN link.raw => link'.raw[x] = link.raw[x]
       /\ \A x \in DOMAIN link'.raw : About(1, x) =>
              link'.raw[x].key = KeyOf[x] \/ (link'.raw[x].key = NoKey /\ x \notin DOMAIN nm.aps)
  BY <1>3, <1>6, <1>12, <1>13, <1>14
<1>20. SignalInv'
  BY <1>1, <1>14, <1>17, <1>18, <1>19, TakenInv
<1>21. Alike(link, link')
  BY <1>5, <1>9, <1>10, AlikeStep
<1> QED
  BY <1>2, <1>3, <1>9, <1>10, <1>20, <1>21

\* The link learns of another strength of an access point that it knows.
LEMMA StrengthInv ==
    ASSUME TypeInv, GroupInv, SignalOf(link), HandleStrength
    PROVE  /\ sig' \in Seq(Signals) /\ LinkOk(link') /\ SignalInv'
           /\ Alike(link, link') /\ found' = found /\ sig[1] \in ApSignals
<1> DEFINE a == Head(sig).ap
           v == Head(sig).strength
           s == Service
           r == ap_properties_changed(s, a, v)
<1>1. /\ sig # <<>> /\ Head(sig).t = "strength" /\ sig' = Tail(sig) /\ nm' = nm /\ Becomes(r)
      /\ sig \in Seq(Signals)
  BY DEF HandleStrength, Takes, TypeInv
<1>2. /\ sig' \in Seq(Signals) /\ 1 \in DOMAIN sig /\ sig[1] \in Signals /\ Head(sig) = sig[1]
  BY <1>1, TailSignals
<1>3. sig[1] \in ApSignals /\ a \in Aps /\ a = sig[1].ap /\ sig[1].t = "strength"
  BY <1>1, <1>2, NewsOnly
<1>4. s.link = link /\ s.found = found /\ IsService(s)
  BY DEF Service, IsService
<1>5. LinkOk(link)
  BY DEF LinkOk, TypeInv, GroupInv
<1>6. About(1, a) /\ (\A x \in Aps : About(1, x) => x = a)
  BY <1>3 DEF About
<1>7. a \in DOMAIN link.raw /\ v \in Strengths /\ v \in Levels /\ v = sig[1].strength
  <2>1. a \in DOMAIN link.raw
    BY <1>2, <1>3, <1>6 DEF GroupInv, SignalOrder
  <2>2. v \in Strengths /\ v = sig[1].strength
    BY <1>2, <1>3, NewsOnly
  <2> QED
    BY <2>1, <2>2, StrengthsAssumption DEF Levels
<1>8. NmTyped
  BY DEF TypeInv
<1>9. /\ LinkOk(r.link) /\ SameConn(link, r.link) /\ r.found = found
      /\ r.link.raw = With(link.raw, a, [key |-> link.raw[a].key, strength |-> v])
      /\ DOMAIN r.link.groups \subseteq DOMAIN link.groups
  <2> HIDE DEF s, a, v
  <2>1. /\ LinkOk(s.link) /\ a \in DOMAIN s.link.raw /\ v \in Levels
        /\ r = ap_properties_changed(s, a, v)
    BY <1>3, <1>4, <1>5, <1>7
  <2> HIDE DEF r
  <2> QED
    BY <1>4, <2>1, StrengthLink
<1> HIDE DEF r, s
<1>10. LinkOk(link') /\ SameLink(r.link, link') /\ found' = r.found
  BY <1>1, <1>9, BecomesLink
<1>11. link.raw[a].key = KeyOf[a] \/ (link.raw[a].key = NoKey /\ a \notin DOMAIN nm.aps)
  BY <1>7 DEF GroupInv, RawCurrent
<1> HIDE DEF a, v
<1>12. /\ link'.raw = With(link.raw, a, [key |-> link.raw[a].key, strength |-> v])
       /\ DOMAIN link'.groups \subseteq DOMAIN link.groups
  BY <1>9, <1>10 DEF SameLink
<1>13. /\ DOMAIN link'.raw = DOMAIN link.raw
       /\ link'.raw[a] = [key |-> link.raw[a].key, strength |-> v]
       /\ \A x \in DOMAIN link.raw : x # a => link'.raw[x] = link.raw[x]
  BY <1>7, <1>12 DEF With
<1>14. DOMAIN link'.groups \subseteq Aps /\ DOMAIN link'.raw \subseteq Aps
  BY <1>10 DEF LinkOk, LinkTyped, Partial
<1>15. ASSUME LastAbout(1, a) PROVE a \in DOMAIN nm.aps /\ nm.aps[a] = v
  BY <1>2, <1>3, <1>7, <1>15 DEF GroupInv, SignalsCurrent
<1>16. \A x \in Aps : LastAbout(1, x) => x = a
  BY <1>6 DEF LastAbout
<1>17. SignalInv
  BY DEF SignalInv, GroupInv
<1>18. \A x \in Aps : LastAbout(1, x) =>
           /\ x \in DOMAIN link'.raw <=> x \in DOMAIN nm.aps
           /\ x \in DOMAIN nm.aps => link'.raw[x] = [key |-> KeyOf[x], strength |-> nm.aps[x]]
  BY <1>7, <1>11, <1>13, <1>15, <1>16
<1>19. /\ \A x \in Aps : x \in DOMAIN link'.groups => x \in DOMAIN link.groups \/ About(1, x)
       /\ \A x \in Aps : x \in DOMAIN link.raw /\ x \notin DOMAIN link'.raw =>
              About(1, x) /\ sig[1].t = "removed"
       /\ \A x \in Aps : About(1, x) /\ sig[1].t = "added" => x \in DOMAIN link'.raw
       /\ \A x \in Aps : ~About(1, x) =>
              /\ x \in DOMAIN link'.raw <=> x \in DOMAIN link.raw
              /\ x \in DOMAIN link.raw => link'.raw[x] = link.raw[x]
       /\ \A x \in DOMAIN link'.raw : About(1, x) =>
              link'.raw[x].key = KeyOf[x] \/ (link'.raw[x].key = NoKey /\ x \notin DOMAIN nm.aps)
  <2>1. \A x \in Aps : x \in DOMAIN link'.groups => x \in DOMAIN link.groups \/ About(1, x)
    BY <1>12
  <2>2. \A x : x \in DOMAIN link.raw <=> x \in DOMAIN link'.raw
    BY <1>13
  <2>3. \A x \in Aps : x \in DOMAIN link.raw /\ x \notin DOMAIN link'.raw =>
            About(1, x) /\ sig[1].t = "removed"
    BY <2>2
  <2>4. \A x \in Aps : About(1, x) /\ sig[1].t = "added" => x \in DOMAIN link'.raw
    BY <1>3
  <2>5. \A x \in Aps : ~About(1, x) => x # a
    BY <1>6
  <2>6. \A x \in Aps : ~About(1, x) =>
            /\ x \in DOMAIN link'.raw <=> x \in DOMAIN link.raw
            /\ x \in DOMAIN link.raw => link'.raw[x] = link.raw[x]
    BY <1>13, <2>2, <2>5
  <2>7. \A x \in DOMAIN link'.raw : About(1, x) => x = a
    BY <1>6, <1>14
  <2>8. link'.raw[a].key = link.raw[a].key
    BY <1>13
  <2>9. \A x \in DOMAIN link'.raw : About(1, x) =>
            link'.raw[x].key = KeyOf[x] \/ (link'.raw[x].key = NoKey /\ x \notin DOMAIN nm.aps)
    BY <1>11, <2>7, <2>8
  <2> QED
    BY <2>1, <2>3, <2>4, <2>6, <2>9
<1>20. SignalInv'
  BY <1>1, <1>14, <1>17, <1>18, <1>19, TakenInv
<1>21. Alike(link, link')
  BY <1>5, <1>9, <1>10, AlikeStep
<1> QED
  BY <1>2, <1>3, <1>9, <1>10, <1>20, <1>21
-----------------------------------------------------------------------------
(* The device and the active connection, step by step                      *)

\* The signals of device and kill switch under way are the same.
SameNews ==
    /\ \A i \in DOMAIN sig' : LastState(i)' =>
           \E j \in DOMAIN sig : LastState(j) /\ sig[j].state = sig'[i].state
    /\ NoState' => NoState
    /\ (\A i \in DOMAIN sig' : sig'[i].t # "kill") => \A i \in DOMAIN sig : sig[i].t # "kill"
    /\ Rising => Rising'

\* Without changes of the device nothing changes for it.
LEMMA QuietDevice ==
    ASSUME DeviceInv, ConnInv, SameNews, Alike(link, link'), found' = found,
           nm'.dev = nm.dev, nm'.act = nm.act, nm'.ap = nm.ap,
           nm'.kill = nm.kill \/ \E i \in DOMAIN sig' : sig'[i].t = "kill"
    PROVE  DeviceInv' /\ ConnInv'
<1>1. /\ link'.active = link.active /\ link'.conn = link.conn /\ link'.status = link.status
      /\ link'.lastState = link.lastState /\ link'.kill = link.kill
      /\ link.active \in DOMAIN link.groups =>
             /\ link.active \in DOMAIN link'.groups
             /\ link'.groups[link.active].key = link.groups[link.active].key
  BY DEF Alike
<1>2. DeviceInv'
  <2>1. \A i \in DOMAIN sig' : LastState(i)' => sig'[i].state = nm'.dev
    BY DEF SameNews, DeviceInv
  <2>2. NoState' => link'.lastState = nm'.dev
    BY <1>1 DEF SameNews, DeviceInv
  <2>3. (\A i \in DOMAIN sig' : sig'[i].t # "kill") => link'.kill = nm'.kill
    BY <1>1 DEF SameNews, DeviceInv
  <2>4. nm'.act = NoAct <=> nm'.dev \in DownStates
    BY DEF DeviceInv
  <2>5. link'.status = StatusOf(link'.lastState, link'.kill)
    BY <1>1 DEF DeviceInv
  <2> QED
    BY <2>1, <2>2, <2>3, <2>4, <2>5 DEF DeviceInv
<1>3. ConnInv'
  <2>1. link'.lastState \in DownStates /\ ~Rising' /\ link'.conn # BadAct
            => link'.active = NoAp /\ link'.conn = NoAct
    BY <1>1 DEF SameNews, ConnInv
  <2>2. link'.lastState \in UpStates /\ NoState' /\ link'.conn # BadAct => link'.conn = nm'.act
    BY <1>1 DEF SameNews, ConnInv
  <2>3. link'.conn = nm'.act /\ nm'.act # NoAct /\ found'
            => /\ link'.active \in DOMAIN link'.groups
               /\ link'.groups[link'.active].key \in {KeyOf[nm'.ap], NoKey}
    BY <1>1 DEF ConnInv
  <2> QED
    BY <2>1, <2>2, <2>3 DEF ConnInv
<1> QED
  BY <1>2, <1>3

\* A signal of an access point that is handled is none of the device.
LEMMA TakenOther ==
    ASSUME sig \in Seq(Signals), sig # <<>>, sig' = Tail(sig), sig[1] \in ApSignals
    PROVE  SameNews
<1>1. /\ 1 \in DOMAIN sig /\ DOMAIN sig \subseteq Nat \ {0} /\ DOMAIN sig' \subseteq Nat \ {0}
      /\ \A i \in DOMAIN sig' : i + 1 \in DOMAIN sig /\ sig'[i] = sig[i + 1]
      /\ \A j \in DOMAIN sig : j # 1 => j - 1 \in DOMAIN sig' /\ sig'[j - 1] = sig[j]
  BY TailSignals
<1>2. sig[1].t # "state" /\ sig[1].t # "kill"
  <2>1. sig[1].t \in {"added", "removed", "strength"}
    BY NewsOnly
  <2> QED
    BY <2>1
<1>3. ASSUME NEW i \in DOMAIN sig', LastState(i)'
      PROVE  \E j \in DOMAIN sig : LastState(j) /\ sig[j].state = sig'[i].state
  <2>1. i + 1 \in DOMAIN sig /\ sig'[i] = sig[i + 1] /\ IsState(i + 1) /\ i \in Nat
    BY <1>1, <1>3 DEF LastState, IsState
  <2>2. \A j \in DOMAIN sig : j > i + 1 => ~IsState(j)
    <3> TAKE j \in DOMAIN sig
    <3> HAVE j > i + 1
    <3>1. j \in Nat /\ j # 1 /\ j - 1 > i
      BY <1>1, <2>1
    <3>2. j - 1 \in DOMAIN sig' /\ sig'[j - 1] = sig[j]
      BY <1>1, <3>1
    <3> QED
      BY <1>3, <3>1, <3>2 DEF LastState, IsState
  <2> QED
    BY <2>1, <2>2 DEF LastState
<1>4. NoState' => NoState
  BY <1>1, <1>2 DEF NoState, IsState
<1>5. (\A i \in DOMAIN sig' : sig'[i].t # "kill") => \A i \in DOMAIN sig : sig[i].t # "kill"
  BY <1>1, <1>2
<1>6. Rising => Rising'
  <2> SUFFICES ASSUME Rising PROVE Rising'
    OBVIOUS
  <2>1. PICK i \in DOMAIN sig : IsState(i) /\ sig[i].state \notin DownStates
    BY DEF Rising
  <2>2. i # 1
    BY <1>2, <2>1 DEF IsState
  <2>3. i - 1 \in DOMAIN sig' /\ sig'[i - 1] = sig[i]
    BY <1>1, <2>1, <2>2
  <2> QED
    BY <2>1, <2>3 DEF Rising, IsState
<1> QED
  BY <1>3, <1>4, <1>5, <1>6 DEF SameNews

\* A signal that is sent, not of the device, is none of the device.
LEMMA SentOther ==
    ASSUME sig \in Seq(Signals), NEW x \in Signals, x.t # "state", sig' = Append(sig, x)
    PROVE  SameNews /\ \E i \in DOMAIN sig' : sig'[i] = x
<1>1. /\ DOMAIN sig \subseteq DOMAIN sig'
      /\ \A i \in DOMAIN sig : sig'[i] = sig[i]
      /\ \E n \in DOMAIN sig' : sig'[n] = x /\ DOMAIN sig' = DOMAIN sig \cup {n}
  BY SentSignal
<1>2. PICK n \in DOMAIN sig' : sig'[n] = x /\ DOMAIN sig' = DOMAIN sig \cup {n}
  BY <1>1
<1>3. ASSUME NEW i \in DOMAIN sig', LastState(i)'
      PROVE  \E j \in DOMAIN sig : LastState(j) /\ sig[j].state = sig'[i].state
  <2>1. i \in DOMAIN sig /\ sig'[i] = sig[i] /\ IsState(i)
    BY <1>1, <1>2, <1>3 DEF LastState, IsState
  <2>2. LastState(i)
    BY <1>1, <1>3, <2>1 DEF LastState, IsState
  <2> QED
    BY <2>1, <2>2
<1>4. NoState' => NoState
  BY <1>1 DEF NoState, IsState
<1>5. (\A i \in DOMAIN sig' : sig'[i].t # "kill") => \A i \in DOMAIN sig : sig[i].t # "kill"
  BY <1>1
<1>6. Rising => Rising'
  BY <1>1 DEF Rising, IsState
<1> QED
  BY <1>2, <1>3, <1>4, <1>5, <1>6 DEF SameNews

\* Changes of the device that are sent: the last of them is the last.
LEMMA StatesSent ==
    ASSUME sig \in Seq(Signals), NEW q \in Seq(News), q # <<>>, q[Len(q)].t = "state", sig' = sig \o q
    PROVE  /\ \A i \in DOMAIN sig' : LastState(i)' => sig'[i] = q[Len(q)]
           /\ ~NoState'
           /\ Rising \/ q[Len(q)].state \notin DownStates => Rising'
           /\ (\A i \in DOMAIN sig' : sig'[i].t # "kill") => \A i \in DOMAIN sig : sig[i].t # "kill"
<1>1. News \subseteq Signals
  BY NewsOnly
<1>2. q \in Seq(Signals)
  BY <1>1
<1> PICK n \in Nat : n = Len(sig) + Len(q)
  BY <1>2
<1>3. /\ sig' \in Seq(Signals) /\ Len(sig') = n
      /\ \A i \in 1 .. n : sig'[i] = IF i <= Len(sig) THEN sig[i] ELSE q[i - Len(sig)]
  BY <1>2, ConcatProperties
<1>4. /\ Len(sig) \in Nat /\ Len(q) \in Nat /\ Len(q) > 0 /\ DOMAIN sig = 1 .. Len(sig)
      /\ DOMAIN sig' = 1 .. n
  BY <1>2, <1>3
<1>5. n \in DOMAIN sig' /\ ~(n <= Len(sig)) /\ n - Len(sig) = Len(q) /\ \A i \in DOMAIN sig' : i < n \/ i = n
  BY <1>4
<1>6. sig'[n] = q[Len(q)]
  BY <1>3, <1>4, <1>5
<1>7. DOMAIN sig \subseteq DOMAIN sig' /\ \A i \in DOMAIN sig : sig'[i] = sig[i]
  BY <1>3, <1>4
<1>8. \A i \in DOMAIN sig' : LastState(i)' => sig'[i] = q[Len(q)]
  <2> TAKE i \in DOMAIN sig'
  <2> HAVE LastState(i)'
  <2>1. IsState(n)'
    BY <1>6 DEF IsState
  <2>2. ~(n > i)
    BY <1>5, <2>1 DEF LastState
  <2>3. i = n
    BY <1>4, <1>5, <2>2
  <2> QED
    BY <1>6, <2>3
<1>9. ~NoState'
  BY <1>5, <1>6 DEF NoState, IsState
<1>10. Rising \/ q[Len(q)].state \notin DownStates => Rising'
  BY <1>5, <1>6, <1>7 DEF Rising, IsState
<1> QED
  BY <1>7, <1>8, <1>9, <1>10

\* NetworkManager takes the device up or down: what the link holds is looked up later.
LEMMA DeviceMoves ==
    ASSUME DeviceInv, ConnInv, Alike(link, link'), found' = found,
           sig \in Seq(Signals), NEW q \in Seq(News), q # <<>>, sig' = sig \o q,
           q[Len(q)].t = "state", q[Len(q)].state = nm'.dev, nm'.kill = nm.kill,
           nm'.act = NoAct <=> nm'.dev \in DownStates,
           \/ nm'.act = nm.act /\ nm'.ap = nm.ap
           \/ nm'.act \in {NoAct} \/ nm'.act # link.conn
    PROVE  DeviceInv' /\ ConnInv'
<1>1. /\ link'.active = link.active /\ link'.conn = link.conn /\ link'.status = link.status
      /\ link'.lastState = link.lastState /\ link'.kill = link.kill
      /\ link.active \in DOMAIN link.groups =>
             /\ link.active \in DOMAIN link'.groups
             /\ link'.groups[link.active].key = link.groups[link.active].key
  BY DEF Alike
<1>2. /\ \A i \in DOMAIN sig' : LastState(i)' => sig'[i] = q[Len(q)]
      /\ ~NoState'
      /\ Rising \/ q[Len(q)].state \notin DownStates => Rising'
      /\ (\A i \in DOMAIN sig' : sig'[i].t # "kill") => \A i \in DOMAIN sig : sig[i].t # "kill"
  BY StatesSent
<1>3. DeviceInv'
  <2>1. \A i \in DOMAIN sig' : LastState(i)' => sig'[i].state = nm'.dev
    BY <1>2
  <2>2. (\A i \in DOMAIN sig' : sig'[i].t # "kill") => link'.kill = nm'.kill
    BY <1>1, <1>2 DEF DeviceInv
  <2>3. link'.status = StatusOf(link'.lastState, link'.kill)
    BY <1>1 DEF DeviceInv
  <2> QED
    BY <1>2, <2>1, <2>2, <2>3 DEF DeviceInv
<1>4. ConnInv'
  <2>1. link'.lastState \in DownStates /\ ~Rising' /\ link'.conn # BadAct
            => link'.active = NoAp /\ link'.conn = NoAct
    BY <1>1, <1>2 DEF ConnInv
  <2>2. link'.conn = nm'.act /\ nm'.act # NoAct /\ found'
            => /\ link'.active \in DOMAIN link'.groups
               /\ link'.groups[link'.active].key \in {KeyOf[nm'.ap], NoKey}
    BY <1>1 DEF ConnInv
  <2> QED
    BY <1>2, <2>1, <2>2 DEF ConnInv
<1> QED
  BY <1>3, <1>4
-----------------------------------------------------------------------------
(* The steps                                                               *)

NmShape(n) ==
    n = [aps |-> n.aps, used |-> n.used, dev |-> n.dev, act |-> n.act, ap |-> n.ap,
         saved |-> n.saved, kill |-> n.kill]

\* What is not assigned stays.
LEMMA NmFound ==
    ASSUME NEW n, NmShape(n), NEW a, NEW u, NEW r, r = [n EXCEPT !.aps = a, !.used = u]
    PROVE  r = [aps |-> a, used |-> u, dev |-> n.dev, act |-> n.act, ap |-> n.ap,
                saved |-> n.saved, kill |-> n.kill]
BY DEF NmShape

\* What is not assigned stays.
LEMMA NmAps ==
    ASSUME NEW n, NmShape(n), NEW a, NEW r, r = [n EXCEPT !.aps = a]
    PROVE  r = [aps |-> a, used |-> n.used, dev |-> n.dev, act |-> n.act, ap |-> n.ap,
                saved |-> n.saved, kill |-> n.kill]
BY DEF NmShape

\* What is not assigned stays.
LEMMA NmKill ==
    ASSUME NEW n, NmShape(n), NEW k, NEW r, r = [n EXCEPT !.kill = k]
    PROVE  r = [aps |-> n.aps, used |-> n.used, dev |-> n.dev, act |-> n.act, ap |-> n.ap,
                saved |-> n.saved, kill |-> k]
BY DEF NmShape

\* What is not assigned stays.
LEMMA NmDev ==
    ASSUME NEW n, NmShape(n), NEW d, NEW r, r = [n EXCEPT !.dev = d]
    PROVE  r = [aps |-> n.aps, used |-> n.used, dev |-> d, act |-> n.act, ap |-> n.ap,
                saved |-> n.saved, kill |-> n.kill]
BY DEF NmShape

\* What is not assigned stays.
LEMMA NmSaved ==
    ASSUME NEW n, NmShape(n), NEW v, NEW r, r = [n EXCEPT !.saved = v]
    PROVE  r = [aps |-> n.aps, used |-> n.used, dev |-> n.dev, act |-> n.act, ap |-> n.ap,
                saved |-> v, kill |-> n.kill]
BY DEF NmShape

\* What is not assigned stays.
LEMMA NmDown ==
    ASSUME NEW n, NmShape(n), NEW d, NEW c, NEW p, NEW r, r = [n EXCEPT !.dev = d, !.act = c, !.ap = p]
    PROVE  r = [aps |-> n.aps, used |-> n.used, dev |-> d, act |-> c, ap |-> p,
                saved |-> n.saved, kill |-> n.kill]
BY DEF NmShape

\* NetworkManager with its parts.
LEMMA NmIsTyped ==
    ASSUME NmTyped, NEW aps, NEW used, Partial(aps, used, Strengths), used \subseteq Aps,
           NEW dev \in DeviceStates, NEW act \in 0 .. 3, NEW ap, NEW saved, NEW kill,
           nm' = [aps |-> aps, used |-> used, dev |-> dev, act |-> act, ap |-> ap,
                  saved |-> saved, kill |-> kill]
    PROVE  /\ NmTyped' /\ nm'.aps = aps /\ nm'.used = used /\ nm'.dev = dev /\ nm'.act = act
           /\ nm'.ap = ap /\ nm'.kill = kill
BY DEF NmTyped

\* The parts of the invariant make the whole.
LEMMA Whole ==
    ASSUME NmTyped', sig' \in Seq(Signals), LinkOk(link'), SignalInv', DeviceInv', ConnInv'
    PROVE  IInv'
<1>1. LinkTyped(link)' /\ GroupsOf(link)' /\ SignalOf(link)'
  BY DEF LinkOk
<1> QED
  BY <1>1 DEF IInv, TypeInv, GroupInv, SignalInv

\* And the whole is made of them.
LEMMA Parts ==
    ASSUME IInv
    PROVE  /\ TypeInv /\ NmTyped /\ NmShape(nm) /\ sig \in Seq(Signals) /\ LinkOk(link)
           /\ GroupInv /\ SignalInv /\ DeviceInv /\ ConnInv /\ SignalOf(link)
           /\ DOMAIN link.raw \subseteq Aps /\ DOMAIN link.groups \subseteq Aps
BY DEF IInv, TypeInv, GroupInv, SignalInv, LinkOk, NmTyped, NmShape, LinkTyped, Partial

\* A step that changes nothing of the world and, in the link, no access point and no connection.
LEMMA SilentInv ==
    ASSUME IInv, nm' = nm, sig' = sig, LinkOk(link'), Alike(link, link'), found' = found,
           link'.raw = link.raw, DOMAIN link'.groups \subseteq DOMAIN link.groups
    PROVE  IInv'
<1>1. NmTyped'
  BY Parts DEF NmTyped
<1>2. SignalInv'
  <2>1. <<>> \in Seq(News) /\ sig' = sig \o <<>> /\ sig \in Seq(Signals) /\ SignalInv
    BY Parts, ConcatEmptySeq
  <2> QED
    BY <2>1, NewsInv
<1>3. SameNews
  BY DEF SameNews, NoState, Rising, LastState, IsState
<1>4. DeviceInv' /\ ConnInv'
  BY <1>3, Parts, QuietDevice
<1> QED
  BY <1>1, <1>2, <1>4, Parts, Whole

\* A step of the service that is about the menus only.
LEMMA SameLinkAlike ==
    ASSUME NEW l, LinkOk(l), NEW r, SameLink(l, r)
    PROVE  Alike(l, r)
<1>1. SameConn(l, l)
  BY DEF SameConn
<1> QED
  BY <1>1, AlikeStep

\* What the link knows of the access points stays when networks are destroyed.
LEMMA MenuStep ==
    ASSUME IInv, nm' = nm, sig' = sig, NEW s, s.link = link, s.found = found, Becomes(s)
    PROVE  IInv'
<1>1. LinkOk(link)
  BY Parts
<1>2. LinkOk(link') /\ SameLink(link, link') /\ found' = found
  BY <1>1, BecomesLink
<1>3. Alike(link, link')
  BY <1>1, <1>2, SameLinkAlike
<1> QED
  BY <1>2, <1>3, SilentInv DEF SameLink

\* NetworkManager finds, loses or measures an access point, and says so.
LEMMA ApWorld ==
    ASSUME TypeInv, NEW a \in Aps, ApAppears(a) \/ ApDisappears(a) \/ StrengthChanges(a)
    PROVE  /\ NmTyped' /\ link' = link /\ found' = found
           /\ nm'.dev = nm.dev /\ nm'.act = nm.act /\ nm'.ap = nm.ap /\ nm'.kill = nm.kill
           /\ \E x \in ApSignals :
                  /\ sig' = Append(sig, x) /\ x.ap = a
                  /\ a \in nm'.used /\ nm.used \subseteq nm'.used
                  /\ \A y \in Aps : y # a =>
                         /\ y \in DOMAIN nm'.aps <=> y \in DOMAIN nm.aps
                         /\ y \in DOMAIN nm.aps => nm'.aps[y] = nm.aps[y]
                  /\ x.t = "added" => a \notin nm.used
                  /\ x.t # "added" => a \in DOMAIN nm.aps /\ a \in nm.used
                  /\ x.t = "removed" <=> a \notin DOMAIN nm'.aps
                  /\ x.t = "strength" => nm'.aps[a] = x.strength
<1>1. NmTyped /\ NmShape(nm) /\ Partial(nm.aps, nm.used, Strengths) /\ nm.used \subseteq Aps
  BY DEF TypeInv, NmTyped, NmShape
<1>2. nm.dev \in DeviceStates /\ nm.act \in 0 .. 3 /\ DOMAIN nm.aps \subseteq nm.used
  BY <1>1 DEF NmTyped, Partial
<1>3. CASE ApAppears(a)
  <2>1. PICK v \in Strengths :
            Changed([nm EXCEPT !.aps = With(@, a, v), !.used = @ \cup {a}], [t |-> "added", ap |-> a])
    BY <1>3 DEF ApAppears
  <2> DEFINE x == [t |-> "added", ap |-> a]
             aps == With(nm.aps, a, v)
             used == nm.used \cup {a}
  <2>2. a \notin nm.used /\ x \in ApSignals /\ x.ap = a /\ x.t = "added"
    BY <1>3 DEF ApAppears, ApSignals
  <2>3. /\ nm' = [nm EXCEPT !.aps = aps, !.used = used] /\ sig' = Append(sig, x)
        /\ link' = link /\ found' = found
    BY <2>1 DEF Changed
  <2>4. /\ Partial(aps, used, Strengths) /\ DOMAIN aps = DOMAIN nm.aps \cup {a}
        /\ \A y \in DOMAIN nm.aps : y # a => aps[y] = nm.aps[y]
    BY <1>1, <2>2 DEF Partial, With
  <2>5. a \in used /\ nm.used \subseteq used /\ used \subseteq Aps
    BY <1>1
  <2> HIDE DEF aps, used, x
  <2>6. nm' = [aps |-> aps, used |-> used, dev |-> nm.dev, act |-> nm.act, ap |-> nm.ap,
               saved |-> nm.saved, kill |-> nm.kill]
    BY <1>1, <2>3, NmFound
  <2>7. /\ NmTyped' /\ nm'.aps = aps /\ nm'.used = used /\ nm'.dev = nm.dev /\ nm'.act = nm.act
        /\ nm'.ap = nm.ap /\ nm'.kill = nm.kill
    BY <1>1, <1>2, <2>4, <2>5, <2>6, NmIsTyped
  <2> QED
    BY <2>2, <2>3, <2>4, <2>5, <2>7
<1>4. CASE ApDisappears(a)
  <2> DEFINE x == [t |-> "removed", ap |-> a]
             aps == Without(nm.aps, a)
  <2>1. /\ nm' = [nm EXCEPT !.aps = aps] /\ sig' = Append(sig, x) /\ a \in DOMAIN nm.aps
        /\ link' = link /\ found' = found
    BY <1>4 DEF ApDisappears, Changed
  <2>2. x \in ApSignals /\ x.ap = a /\ x.t = "removed"
    BY DEF ApSignals
  <2>3. /\ Partial(aps, nm.used, Strengths) /\ DOMAIN aps = DOMAIN nm.aps \ {a}
        /\ \A y \in DOMAIN nm.aps : y # a => aps[y] = nm.aps[y]
    BY <1>1 DEF Partial, Without
  <2> HIDE DEF aps, x
  <2>4. nm' = [aps |-> aps, used |-> nm.used, dev |-> nm.dev, act |-> nm.act, ap |-> nm.ap,
               saved |-> nm.saved, kill |-> nm.kill]
    BY <1>1, <2>1, NmAps
  <2>5. /\ NmTyped' /\ nm'.aps = aps /\ nm'.used = nm.used /\ nm'.dev = nm.dev /\ nm'.act = nm.act
        /\ nm'.ap = nm.ap /\ nm'.kill = nm.kill
    BY <1>1, <1>2, <2>3, <2>4, NmIsTyped
  <2> QED
    BY <1>2, <2>1, <2>2, <2>3, <2>5
<1>5. CASE StrengthChanges(a)
  <2>1. PICK v \in Strengths :
            Changed([nm EXCEPT !.aps[a] = v], [t |-> "strength", ap |-> a, strength |-> v])
    BY <1>5 DEF StrengthChanges
  <2> DEFINE x == [t |-> "strength", ap |-> a, strength |-> v]
             aps == [nm.aps EXCEPT ![a] = v]
  <2>2. /\ nm' = [nm EXCEPT !.aps = aps] /\ sig' = Append(sig, x) /\ a \in DOMAIN nm.aps
        /\ link' = link /\ found' = found
    BY <1>5, <2>1 DEF StrengthChanges, Changed
  <2>3. x \in ApSignals /\ x.ap = a /\ x.t = "strength" /\ x.strength = v
    BY DEF ApSignals
  <2>4. /\ Partial(aps, nm.used, Strengths) /\ DOMAIN aps = DOMAIN nm.aps /\ aps[a] = v
        /\ \A y \in DOMAIN nm.aps : y # a => aps[y] = nm.aps[y]
    BY <1>1, <2>2 DEF Partial
  <2> HIDE DEF aps, x
  <2>5. nm' = [aps |-> aps, used |-> nm.used, dev |-> nm.dev, act |-> nm.act, ap |-> nm.ap,
               saved |-> nm.saved, kill |-> nm.kill]
    BY <1>1, <2>2, NmAps
  <2>6. /\ NmTyped' /\ nm'.aps = aps /\ nm'.used = nm.used /\ nm'.dev = nm.dev /\ nm'.act = nm.act
        /\ nm'.ap = nm.ap /\ nm'.kill = nm.kill
    BY <1>1, <1>2, <2>4, <2>5, NmIsTyped
  <2> QED
    BY <1>2, <2>2, <2>3, <2>4, <2>6
<1> QED
  BY <1>3, <1>4, <1>5

\* What NetworkManager says of access points keeps the invariant.
LEMMA ApStep ==
    ASSUME IInv, NEW a \in Aps, ApAppears(a) \/ ApDisappears(a) \/ StrengthChanges(a)
    PROVE  IInv'
<1>1. TypeInv /\ sig \in Seq(Signals) /\ LinkOk(link) /\ SignalInv /\ DeviceInv /\ ConnInv
      /\ DOMAIN link.raw \subseteq Aps
  BY Parts
<1>2. /\ NmTyped' /\ link' = link /\ found' = found
      /\ nm'.dev = nm.dev /\ nm'.act = nm.act /\ nm'.ap = nm.ap /\ nm'.kill = nm.kill
  BY <1>1, ApWorld
<1>3. PICK x \in ApSignals :
          /\ sig' = Append(sig, x) /\ x.ap = a
          /\ a \in nm'.used /\ nm.used \subseteq nm'.used
          /\ \A y \in Aps : y # a =>
                 /\ y \in DOMAIN nm'.aps <=> y \in DOMAIN nm.aps
                 /\ y \in DOMAIN nm.aps => nm'.aps[y] = nm.aps[y]
          /\ x.t = "added" => a \notin nm.used
          /\ x.t # "added" => a \in DOMAIN nm.aps /\ a \in nm.used
          /\ x.t = "removed" <=> a \notin DOMAIN nm'.aps
          /\ x.t = "strength" => nm'.aps[a] = x.strength
  BY <1>1, ApWorld
<1>4. SignalInv'
  BY <1>1, <1>2, <1>3, SentInv
<1>5. x \in Signals /\ x.t # "state"
  <2>1. x.t \in {"added", "removed", "strength"}
    BY NewsOnly
  <2> QED
    BY <2>1 DEF Signals
<1>6. SameNews /\ sig' \in Seq(Signals)
  BY <1>1, <1>3, <1>5, SentOther, SentSignal
<1>7. Alike(link, link')
  BY <1>2 DEF Alike
<1>8. DeviceInv' /\ ConnInv'
  BY <1>1, <1>2, <1>6, <1>7, QuietDevice
<1> QED
  BY <1>1, <1>2, <1>4, <1>6, <1>8, Whole
\* The service hears of an access point.
LEMMA HandleApStep ==
    ASSUME IInv, HandleAdded \/ HandleRemoved \/ HandleStrength
    PROVE  IInv'
<1>1. TypeInv /\ GroupInv /\ SignalOf(link) /\ sig \in Seq(Signals) /\ DeviceInv /\ ConnInv /\ NmTyped
  BY Parts
<1>2. sig # <<>> /\ sig' = Tail(sig) /\ nm' = nm
  BY DEF HandleAdded, HandleRemoved, HandleStrength, Takes
<1>3. /\ sig' \in Seq(Signals) /\ LinkOk(link') /\ SignalInv'
      /\ Alike(link, link') /\ found' = found /\ sig[1] \in ApSignals
  BY <1>1, AddedInv, RemovedInv, StrengthInv
<1>4. SameNews
  BY <1>1, <1>2, <1>3, TakenOther
<1>5. DeviceInv' /\ ConnInv'
  BY <1>1, <1>2, <1>3, <1>4, QuietDevice
<1>6. NmTyped'
  BY <1>1, <1>2 DEF NmTyped
<1> QED
  BY <1>3, <1>5, <1>6, Whole

\* The network that holds an access point is the one of its key, or that of unread ones.
LEMMA HolderKey ==
    ASSUME IInv, NEW g \in Grouped(link), NEW ap \in link.groups[g].aps
    PROVE  g \in DOMAIN link.groups /\ link.groups[g].key \in {KeyOf[ap], NoKey}
<1>1. GroupsOf(link) /\ RawCurrent
  BY DEF IInv, GroupInv
<1>2. PICK k \in DOMAIN link.grouper : g = link.grouper[k]
  BY DEF Grouped
<1>3. /\ g \in DOMAIN link.groups /\ link.groups[g].key = k
      /\ link.groups[g].aps = {a \in DOMAIN link.raw : link.raw[a].key = k}
  BY <1>1, <1>2 DEF GroupsOf
<1>4. ap \in DOMAIN link.raw /\ link.raw[ap].key = k
  BY <1>3
<1> QED
  BY <1>1, <1>3, <1>4 DEF RawCurrent

\* After it has looked the connection up the link holds it, with its network if it was found.
LEMMA LookedUp ==
    ASSUME IInv, nm' = nm, NEW s, IsService(s), LinkOk(s.link), SameAps(link, s.link),
           s.link.active = link.active, s.link.conn = link.conn, s.found = found,
           NEW state \in DeviceStates, NEW r, r = updateDeviceState(s, state), Becomes(r)
    PROVE  /\ LinkOk(link') /\ link'.raw = link.raw /\ DOMAIN link'.groups \subseteq DOMAIN link.groups
           /\ link'.lastState = state /\ link'.kill = s.link.kill
           /\ link'.status = StatusOf(state, s.link.kill)
           /\ ConnInv'
<1>1. nm.act \in 0 .. 3 /\ ConnInv /\ LinkOk(link) /\ DOMAIN link.groups \subseteq Aps
  BY Parts DEF NmTyped
<1>2. /\ LinkOk(r.link) /\ IsService(r) /\ SameAps(s.link, r.link)
      /\ r.link.lastState = state /\ r.link.kill = s.link.kill
      /\ r.link.status = StatusOf(state, s.link.kill)
      /\ state \in DownStates => LooksUp(s, NoAct, NoAp, r)
      /\ state \in BusyStates /\ nm.act = NoAct =>
             r.link.active = s.link.active /\ r.link.conn = s.link.conn /\ r.found = s.found
      /\ state \in UpStates \/ (state \in BusyStates /\ nm.act # NoAct) =>
             LooksUp(s, nm.act, nm.ap, r)
  BY <1>1, DeviceLink
<1>3. LinkOk(link') /\ SameLink(r.link, link') /\ found' = r.found
  BY <1>2, BecomesLink
<1>4. /\ link'.raw = link.raw /\ DOMAIN link'.groups \subseteq DOMAIN link.groups
      /\ link'.active = r.link.active /\ link'.conn = r.link.conn
      /\ link'.lastState = state /\ link'.kill = s.link.kill
      /\ link'.status = StatusOf(state, s.link.kill)
      /\ \A g \in DOMAIN link'.groups : link'.groups[g] = link.groups[g]
      /\ link'.active \in DOMAIN link'.groups \cup {NoAp}
      /\ Grouped(s.link) = Grouped(link) /\ s.link.groups = link.groups
  BY <1>2, <1>3 DEF SameLink, SameAps, Grouped
<1>5. link'.lastState \in DownStates => link'.active = NoAp /\ link'.conn = NoAct
  BY <1>2, <1>4 DEF LooksUp
<1>6. link'.lastState \in UpStates => link'.conn = nm'.act
  BY <1>2, <1>4 DEF LooksUp
<1>7. ASSUME link'.conn = nm'.act, nm'.act # NoAct, found'
      PROVE  /\ link'.active \in DOMAIN link'.groups
             /\ link'.groups[link'.active].key \in {KeyOf[nm'.ap], NoKey}
  <2>1. state \notin DownStates
    BY <1>4, <1>5, <1>7
  <2>2. LooksUp(s, nm.act, nm.ap, r)
    BY <1>2, <1>7, <2>1 DEF DeviceStates
  <2>3. /\ link'.active \in DOMAIN link.groups
        /\ link.groups[link'.active].key \in {KeyOf[nm.ap], NoKey}
    <3>1. CASE nm.act = s.link.conn
      <4>1. link'.active = link.active /\ found /\ link.conn = nm.act /\ nm.act # NoAct
        BY <1>3, <1>4, <1>7, <2>2, <3>1 DEF LooksUp
      <4> QED
        BY <1>1, <4>1 DEF ConnInv
    <3>2. CASE nm.act # s.link.conn
      <4>1. link'.active \in Grouped(link) /\ nm.ap \in link.groups[link'.active].aps
        BY <1>3, <1>4, <1>7, <2>2, <3>2 DEF LooksUp
      <4> QED
        BY <4>1, HolderKey
    <3> QED
      BY <3>1, <3>2
  <2>4. link'.active # NoAp
    BY <1>1, <2>3, ApsAssumption DEF NoAp
  <2> QED
    BY <1>4, <2>3, <2>4
<1>8. ConnInv'
  BY <1>5, <1>6, <1>7 DEF ConnInv
<1> QED
  BY <1>3, <1>4, <1>8

\* A signal of the device or the kill switch is handled: those that remain tell the same.
LEMMA TakenNews ==
    ASSUME sig \in Seq(Signals), sig # <<>>, sig' = Tail(sig), SignalInv, sig[1] \notin ApSignals,
           nm' = nm, LinkOk(link'), link'.raw = link.raw, DOMAIN link.raw \subseteq Aps,
           DOMAIN link'.groups \subseteq DOMAIN link.groups, DOMAIN link.groups \subseteq Aps
    PROVE  SignalInv'
<1>1. \A a \in Aps : ~About(1, a) /\ ~LastAbout(1, a)
  BY DEF About, LastAbout
<1> QED
  BY <1>1, TakenInv

\* The last change of the device under way is that of before, unless it was handled.
LEMMA TakenState ==
    ASSUME sig \in Seq(Signals), sig # <<>>, sig' = Tail(sig)
    PROVE  /\ \A i \in DOMAIN sig' : LastState(i)' =>
                  \E j \in DOMAIN sig : LastState(j) /\ sig[j].state = sig'[i].state
           /\ NoState' => NoState \/ LastState(1)
           /\ sig[1].t # "kill" => ((\A i \in DOMAIN sig' : sig'[i].t # "kill")
                                       => \A i \in DOMAIN sig : sig[i].t # "kill")
<1>1. /\ 1 \in DOMAIN sig /\ DOMAIN sig \subseteq Nat \ {0} /\ DOMAIN sig' \subseteq Nat \ {0}
      /\ \A i \in DOMAIN sig' : i + 1 \in DOMAIN sig /\ sig'[i] = sig[i + 1]
      /\ \A j \in DOMAIN sig : j # 1 => j - 1 \in DOMAIN sig' /\ sig'[j - 1] = sig[j]
  BY TailSignals
<1>2. ASSUME NEW i \in DOMAIN sig', LastState(i)'
      PROVE  \E j \in DOMAIN sig : LastState(j) /\ sig[j].state = sig'[i].state
  <2>1. i + 1 \in DOMAIN sig /\ sig'[i] = sig[i + 1] /\ IsState(i + 1) /\ i \in Nat
    BY <1>1, <1>2 DEF LastState, IsState
  <2>2. \A j \in DOMAIN sig : j > i + 1 => ~IsState(j)
    <3> TAKE j \in DOMAIN sig
    <3> HAVE j > i + 1
    <3>1. j \in Nat /\ j # 1 /\ j - 1 > i
      BY <1>1, <2>1
    <3>2. j - 1 \in DOMAIN sig' /\ sig'[j - 1] = sig[j]
      BY <1>1, <3>1
    <3> QED
      BY <1>2, <3>1, <3>2 DEF LastState, IsState
  <2> QED
    BY <2>1, <2>2 DEF LastState
<1>3. ASSUME NoState' PROVE NoState \/ LastState(1)
  <2>1. \A j \in DOMAIN sig : j # 1 => ~IsState(j)
    BY <1>1, <1>3 DEF NoState, IsState
  <2> QED
    BY <1>1, <2>1 DEF NoState, LastState
<1>4. sig[1].t # "kill" => ((\A i \in DOMAIN sig' : sig'[i].t # "kill")
                               => \A i \in DOMAIN sig : sig[i].t # "kill")
  BY <1>1
<1> QED
  BY <1>2, <1>3, <1>4

\* The service hears of the device: NetworkManager may be further on by now.
LEMMA StateStep ==
    ASSUME IInv, state_changed
    PROVE  IInv'
<1> DEFINE state == Head(sig).state
<1>1. TypeInv /\ sig \in Seq(Signals) /\ DeviceInv /\ SignalInv /\ LinkOk(link) /\ NmTyped
      /\ DOMAIN link.raw \subseteq Aps /\ DOMAIN link.groups \subseteq Aps
  BY Parts
<1>2. /\ sig # <<>> /\ Head(sig).t = "state" /\ sig' = Tail(sig) /\ nm' = nm
      /\ Becomes(updateDeviceState(Service, state))
  BY DEF state_changed, Takes
<1>3. /\ 1 \in DOMAIN sig /\ sig[1] \in Signals /\ Head(sig) = sig[1] /\ sig' \in Seq(Signals)
  BY <1>1, <1>2, TailSignals
<1>4. sig[1] \notin ApSignals /\ state \in DeviceStates /\ sig[1].t = "state" /\ state = sig[1].state
  BY <1>2, <1>3, NewsOnly
<1>5. /\ IsService(Service) /\ Service.link = link /\ Service.found = found /\ SameAps(link, Service.link)
  BY DEF IsService, Service, SameAps
<1> HIDE DEF state
<1>6. /\ LinkOk(link') /\ link'.raw = link.raw /\ DOMAIN link'.groups \subseteq DOMAIN link.groups
      /\ link'.lastState = state /\ link'.kill = link.kill
      /\ link'.status = StatusOf(state, link.kill)
      /\ ConnInv'
  BY <1>1, <1>2, <1>4, <1>5, LookedUp
<1>7. SignalInv'
  BY <1>1, <1>2, <1>4, <1>6, TakenNews
<1>8. DeviceInv'
  <2>1. /\ \A i \in DOMAIN sig' : LastState(i)' =>
               \E j \in DOMAIN sig : LastState(j) /\ sig[j].state = sig'[i].state
        /\ NoState' => NoState \/ LastState(1)
        /\ (\A i \in DOMAIN sig' : sig'[i].t # "kill") => \A i \in DOMAIN sig : sig[i].t # "kill"
    BY <1>1, <1>2, <1>4, TakenState
  <2>2. ~NoState
    BY <1>3, <1>4 DEF NoState, IsState
  <2>3. NoState' => link'.lastState = nm'.dev
    BY <1>2, <1>3, <1>4, <1>6, <1>1, <2>1, <2>2 DEF DeviceInv
  <2>4. \A i \in DOMAIN sig' : LastState(i)' => sig'[i].state = nm'.dev
    BY <1>1, <1>2, <2>1 DEF DeviceInv
  <2>5. (\A i \in DOMAIN sig' : sig'[i].t # "kill") => link'.kill = nm'.kill
    BY <1>1, <1>2, <1>6, <2>1 DEF DeviceInv
  <2>6. (nm'.act = NoAct <=> nm'.dev \in DownStates) /\ link'.status = StatusOf(link'.lastState, link'.kill)
    BY <1>1, <1>2, <1>6 DEF DeviceInv
  <2> QED
    BY <2>3, <2>4, <2>5, <2>6 DEF DeviceInv
<1>9. NmTyped'
  BY <1>1, <1>2 DEF NmTyped
<1> QED
  BY <1>3, <1>6, <1>7, <1>8, <1>9, Whole

\* The service hears of the kill switch and takes the device's state anew.
LEMMA KillStep ==
    ASSUME IInv, kill_switch_updated
    PROVE  IInv'
<1> DEFINE s == [Service EXCEPT !.link.kill = nm.kill]
           c == [Service.link EXCEPT !.kill = nm.kill]
<1>1. TypeInv /\ sig \in Seq(Signals) /\ DeviceInv /\ SignalInv /\ LinkOk(link) /\ NmTyped
      /\ DOMAIN link.raw \subseteq Aps /\ DOMAIN link.groups \subseteq Aps
  BY Parts
<1>2. /\ sig # <<>> /\ Head(sig).t = "kill" /\ sig' = Tail(sig) /\ nm' = nm
      /\ Becomes(updateDeviceState(s, link.lastState))
  BY DEF kill_switch_updated, Takes
<1>3. /\ 1 \in DOMAIN sig /\ sig[1] \in Signals /\ Head(sig) = sig[1] /\ sig' \in Seq(Signals)
  BY <1>1, <1>2, TailSignals
<1>4. sig[1] \notin ApSignals /\ sig[1].t = "kill"
  BY <1>2, <1>3, NewsOnly
<1>5. /\ IsService(Service) /\ Service.link = link /\ Service.found = found
  BY DEF IsService, Service
<1>6. /\ LinkOk(s.link) /\ SameAps(link, s.link) /\ s.link.active = link.active
      /\ s.link.conn = link.conn /\ s.link.kill = nm.kill /\ s.found = found /\ IsService(s)
  <2>1. c = [Service.link EXCEPT !.kill = nm.kill] /\ s = [Service EXCEPT !.link.kill = nm.kill]
    OBVIOUS
  <2> HIDE DEF c, s
  <2>2. s.link = c /\ s.found = Service.found /\ IsService(s)
    BY <1>5, <2>1, ServiceUpdate
  <2>3. PICK k : k = nm.kill /\ c = [link EXCEPT !.kill = k]
    BY <1>5, <2>1
  <2>4. LinkOk(c) /\ SameAps(link, c) /\ c.active = link.active /\ c.conn = link.conn /\ c.kill = nm.kill
    <3>1. LinkOk(link) /\ c = [link EXCEPT !.kill = k]
      BY <1>1, <2>3
    <3>2. LinkOk(c) /\ SameAps(link, c) /\ c.active = link.active /\ c.conn = link.conn /\ c.kill = k
      BY <3>1, KillLink
    <3> QED
      BY <2>3, <3>2
  <2> QED
    BY <1>5, <2>2, <2>4
<1> HIDE DEF s, c
<1>7. link.lastState \in DeviceStates
  BY <1>1 DEF LinkOk, LinkTyped
<1>8. /\ LinkOk(link') /\ link'.raw = link.raw /\ DOMAIN link'.groups \subseteq DOMAIN link.groups
      /\ link'.lastState = link.lastState /\ link'.kill = nm.kill
      /\ link'.status = StatusOf(link.lastState, nm.kill)
      /\ ConnInv'
  BY <1>1, <1>2, <1>6, <1>7, LookedUp
<1>9. SignalInv'
  BY <1>1, <1>2, <1>4, <1>8, TakenNews
<1>10. DeviceInv'
  <2>1. /\ \A i \in DOMAIN sig' : LastState(i)' =>
               \E j \in DOMAIN sig : LastState(j) /\ sig[j].state = sig'[i].state
        /\ NoState' => NoState \/ LastState(1)
    BY <1>1, <1>2, TakenState
  <2>2. ~LastState(1)
    BY <1>4 DEF LastState, IsState
  <2>3. NoState' => link'.lastState = nm'.dev
    BY <1>1, <1>2, <1>8, <2>1, <2>2 DEF DeviceInv
  <2>4. \A i \in DOMAIN sig' : LastState(i)' => sig'[i].state = nm'.dev
    BY <1>1, <1>2, <2>1 DEF DeviceInv
  <2>5. link'.kill = nm'.kill
    BY <1>2, <1>8
  <2>6. (nm'.act = NoAct <=> nm'.dev \in DownStates) /\ link'.status = StatusOf(link'.lastState, link'.kill)
    BY <1>1, <1>2, <1>8 DEF DeviceInv
  <2> QED
    BY <2>3, <2>4, <2>5, <2>6 DEF DeviceInv
<1>11. NmTyped'
  BY <1>1, <1>2 DEF NmTyped
<1> QED
  BY <1>3, <1>8, <1>9, <1>10, <1>11, Whole
\* A device state that is sent last is the one the device has then.
LEMMA DeviceSent ==
    ASSUME DeviceInv, link'.status = link.status, link'.lastState = link.lastState, link'.kill = link.kill,
           sig \in Seq(Signals), NEW q \in Seq(News), q # <<>>, sig' = sig \o q,
           q[Len(q)].t = "state", q[Len(q)].state = nm'.dev, nm'.kill = nm.kill,
           nm'.act = NoAct <=> nm'.dev \in DownStates
    PROVE  DeviceInv'
<1>1. /\ \A i \in DOMAIN sig' : LastState(i)' => sig'[i] = q[Len(q)]
      /\ ~NoState'
      /\ (\A i \in DOMAIN sig' : sig'[i].t # "kill") => \A i \in DOMAIN sig : sig[i].t # "kill"
  BY StatesSent
<1>2. \A i \in DOMAIN sig' : LastState(i)' => sig'[i].state = nm'.dev
  BY <1>1
<1>3. (\A i \in DOMAIN sig' : sig'[i].t # "kill") => link'.kill = nm'.kill
  BY <1>1 DEF DeviceInv
<1>4. link'.status = StatusOf(link'.lastState, link'.kill)
  BY DEF DeviceInv
<1> QED
  BY <1>1, <1>2, <1>3, <1>4 DEF DeviceInv

\* One more signal is a sequence of one signal more.
LEMMA SentIsConcat ==
    ASSUME NEW S, NEW s \in Seq(S), NEW T, NEW x \in T
    PROVE  \E q \in Seq(T) : q = <<x>> /\ q # <<>> /\ q[Len(q)] = x /\ Append(s, x) = s \o q
<1> DEFINE q == <<x>>
<1>1. q \in Seq(T) /\ q = <<x>> /\ q # <<>> /\ q[Len(q)] = x /\ Append(s, x) = s \o q
  OBVIOUS
<1> HIDE DEF q
<1> QED
  BY <1>1

\* What the device does is a change of state.
LEMMA StateIsNews ==
    ASSUME NEW d \in DeviceStates
    PROVE  State(d) \in News /\ State(d).t = "state" /\ State(d).state = d
BY DEF State, News

\* Two changes of state, one after the other.
LEMMA TwoStates ==
    ASSUME NEW d \in DeviceStates, NEW e \in DeviceStates, NEW q, q = <<State(d), State(e)>>
    PROVE  q \in Seq(News) /\ q # <<>> /\ q[Len(q)] = State(e)
BY StateIsNews

\* The device moves and says so, while the link's access points and connection stay.
LEMMA MovesInv ==
    ASSUME IInv, LinkOk(link'), Alike(link, link'), found' = found,
           link'.raw = link.raw, DOMAIN link'.groups \subseteq DOMAIN link.groups,
           NmTyped', nm'.aps = nm.aps, nm'.used = nm.used, nm'.kill = nm.kill,
           NEW q \in Seq(News), q # <<>>, q[Len(q)] = State(nm'.dev), sig' = sig \o q,
           nm'.act = NoAct <=> nm'.dev \in DownStates,
           \/ nm'.act = nm.act /\ nm'.ap = nm.ap
           \/ nm'.act \in {NoAct} \/ nm'.act # link.conn
    PROVE  IInv'
<1>1. sig \in Seq(Signals) /\ SignalInv /\ DeviceInv /\ ConnInv
  BY Parts
<1>2. SignalInv'
  BY <1>1, NewsInv
<1>3. sig' \in Seq(Signals)
  BY <1>1, SentNews
<1>4. nm'.dev \in DeviceStates
  BY DEF NmTyped
<1>5. q[Len(q)].t = "state" /\ q[Len(q)].state = nm'.dev
  BY <1>4, StateIsNews
<1>6. DeviceInv' /\ ConnInv'
  BY <1>1, <1>5, DeviceMoves
<1> QED
  BY <1>2, <1>3, <1>6, Whole

\* What is known of NetworkManager.
LEMMA NmParts ==
    ASSUME IInv
    PROVE  /\ NmTyped /\ Partial(nm.aps, nm.used, Strengths) /\ nm.used \subseteq Aps
           /\ nm.dev \in DeviceStates /\ nm.act \in 0 .. 3
BY Parts DEF NmTyped

\* A step that leaves the link alone.
LEMMA SameLinkStep ==
    ASSUME IInv, link' = link
    PROVE  /\ LinkOk(link') /\ Alike(link, link') /\ link'.raw = link.raw
           /\ DOMAIN link'.groups \subseteq DOMAIN link.groups
BY Parts DEF Alike

\* The kill switch is moved.
LEMMA KillChangesStep ==
    ASSUME IInv, KillChanges
    PROVE  IInv'
<1> DEFINE x == [t |-> "kill"]
           kill == IF nm.kill = "blocked" THEN "unblocked" ELSE "blocked"
<1>1. nm' = [nm EXCEPT !.kill = kill] /\ sig' = Append(sig, x) /\ link' = link /\ found' = found
  BY DEF KillChanges, Changed
<1>2. /\ sig \in Seq(Signals) /\ SignalInv /\ DeviceInv /\ ConnInv /\ NmTyped /\ NmShape(nm)
      /\ Partial(nm.aps, nm.used, Strengths) /\ nm.used \subseteq Aps
      /\ nm.dev \in DeviceStates /\ nm.act \in 0 .. 3
  BY Parts DEF NmTyped
<1>3. x \in News /\ x \in Signals /\ x.t = "kill" /\ x.t # "state"
  BY DEF News, Signals
<1> HIDE DEF kill, x
<1>4. nm' = [aps |-> nm.aps, used |-> nm.used, dev |-> nm.dev, act |-> nm.act, ap |-> nm.ap,
             saved |-> nm.saved, kill |-> kill]
  BY <1>1, <1>2, NmKill
<1>5. /\ NmTyped' /\ nm'.aps = nm.aps /\ nm'.used = nm.used /\ nm'.dev = nm.dev /\ nm'.act = nm.act
      /\ nm'.ap = nm.ap
  BY <1>2, <1>4, NmIsTyped
<1>6. SameNews /\ \E i \in DOMAIN sig' : sig'[i] = x
  BY <1>1, <1>2, <1>3, SentOther
<1>7. /\ LinkOk(link') /\ Alike(link, link') /\ link'.raw = link.raw
      /\ DOMAIN link'.groups \subseteq DOMAIN link.groups
  BY <1>1, SameLinkStep
<1>8. PICK q \in Seq(News) : sig' = sig \o q
  <2>1. sig \in Seq(Signals) /\ x \in News
    BY <1>2, <1>3
  <2>2. \E q \in Seq(News) : q = <<x>> /\ q # <<>> /\ q[Len(q)] = x /\ Append(sig, x) = sig \o q
    BY <2>1, SentIsConcat
  <2> QED
    BY <1>1, <2>2
<1>9. SignalInv' /\ sig' \in Seq(Signals)
  <2>1. sig \in Seq(Signals) /\ SignalInv /\ nm'.aps = nm.aps /\ nm'.used = nm.used
    BY <1>2, <1>5
  <2>2. SignalInv'
    BY <2>1, <1>7, <1>8, NewsInv
  <2> QED
    BY <2>1, <2>2, <1>8, SentNews
<1>10. \E i \in DOMAIN sig' : sig'[i].t = "kill"
  BY <1>3, <1>6
<1>11. DeviceInv' /\ ConnInv'
  BY <1>1, <1>2, <1>5, <1>6, <1>7, <1>10, QuietDevice
<1> QED
  BY <1>5, <1>7, <1>9, <1>11, Whole

\* An activation goes on.
LEMMA ProgressStep ==
    ASSUME IInv, NEW d \in UpStates, Progress(d)
    PROVE  IInv'
<1>1. /\ nm' = [nm EXCEPT !.dev = d] /\ sig' = Append(sig, State(d)) /\ link' = link /\ found' = found
      /\ nm.dev \in {"prepare", "secondaries"}
  BY DEF Progress, Changed
<1>2. /\ sig \in Seq(Signals) /\ DeviceInv /\ NmShape(nm) /\ nm.act \in 0 .. 3
  BY Parts DEF NmTyped
<1>3. d \in DeviceStates /\ d \notin DownStates /\ nm.dev \notin DownStates
  BY <1>1, StatesDisjoint DEF DeviceStates, DownStates
<1>4. ~(nm.act = NoAct)
  BY <1>2, <1>3 DEF DeviceInv
<1>5. /\ NmTyped' /\ nm'.aps = nm.aps /\ nm'.used = nm.used /\ nm'.dev = d /\ nm'.act = nm.act
      /\ nm'.ap = nm.ap /\ nm'.kill = nm.kill
  <2>1. nm' = [aps |-> nm.aps, used |-> nm.used, dev |-> d, act |-> nm.act, ap |-> nm.ap,
               saved |-> nm.saved, kill |-> nm.kill]
    BY <1>1, <1>2, NmDev
  <2> QED
    BY <1>2, <1>3, <2>1, NmParts, NmIsTyped
<1>6. State(d) \in News
  BY <1>3, StateIsNews
<1>7. PICK q \in Seq(News) : q # <<>> /\ q[Len(q)] = State(d) /\ sig' = sig \o q
  BY <1>1, <1>2, <1>6, SentIsConcat
<1>8. /\ LinkOk(link') /\ Alike(link, link') /\ link'.raw = link.raw
      /\ DOMAIN link'.groups \subseteq DOMAIN link.groups
  BY <1>1, SameLinkStep
<1> QED
  BY <1>1, <1>2, <1>3, <1>4, <1>5, <1>7, <1>8, MovesInv

\* The device goes down.
LEMMA DisconnectedStep ==
    ASSUME IInv, NEW d \in DownStates, DisconnectedByOther(d)
    PROVE  IInv'
<1>1. /\ nm' = [nm EXCEPT !.dev = d, !.act = NoAct, !.ap = NoAp]
      /\ sig' = Append(sig, State(d)) /\ link' = link /\ found' = found
  BY DEF DisconnectedByOther, Changed
<1>2. sig \in Seq(Signals) /\ NmShape(nm)
  BY Parts
<1>3. d \in DeviceStates /\ NoAct \in 0 .. 3
  BY DEF DeviceStates, NoAct
<1>4. /\ NmTyped' /\ nm'.aps = nm.aps /\ nm'.used = nm.used /\ nm'.dev = d /\ nm'.act = NoAct
      /\ nm'.kill = nm.kill
  <2>1. nm' = [aps |-> nm.aps, used |-> nm.used, dev |-> d, act |-> NoAct, ap |-> NoAp,
               saved |-> nm.saved, kill |-> nm.kill]
    <3>1. NmShape(nm) /\ nm' = [nm EXCEPT !.dev = d, !.act = NoAct, !.ap = NoAp]
      BY <1>1, <1>2
    <3> QED
      BY <3>1 DEF NmShape
  <2> QED
    BY <1>3, <2>1, NmParts, NmIsTyped
<1>5. State(d) \in News
  BY <1>3, StateIsNews
<1>6. PICK q \in Seq(News) : q # <<>> /\ q[Len(q)] = State(d) /\ sig' = sig \o q
  BY <1>1, <1>2, <1>5, SentIsConcat
<1>7. /\ LinkOk(link') /\ Alike(link, link') /\ link'.raw = link.raw
      /\ DOMAIN link'.groups \subseteq DOMAIN link.groups
  BY <1>1, SameLinkStep
<1> QED
  BY <1>1, <1>3, <1>4, <1>6, <1>7, MovesInv
\* There is a path that neither NetworkManager nor the link has for the active connection.
LEMMA FreshPath ==
    FreshAct \in 1 .. 3 /\ FreshAct # nm.act /\ FreshAct # link.conn
<1> DEFINE free == {n \in 1 .. 3 : n \notin {nm.act, link.conn}}
           P(n) == n \notin {nm.act, link.conn} /\ \A k \in 1 .. n - 1 : k \in {nm.act, link.conn}
<1>1. free \subseteq Nat /\ free # {}
  <2>1. 1 \in 1 .. 3 /\ 2 \in 1 .. 3 /\ 3 \in 1 .. 3
    OBVIOUS
  <2>2. 1 \in free \/ 2 \in free \/ 3 \in free
    BY <2>1
  <2> QED
    BY <2>2
<1>2. PICK n \in free : \A y \in free : n <= y
  BY <1>1, Least
<1>3. \A k \in 1 .. n - 1 : k \in {nm.act, link.conn}
  <2> TAKE k \in 1 .. n - 1
  <2>1. k \in 1 .. 3 /\ ~(n <= k)
    OBVIOUS
  <2>2. k \notin free
    BY <1>2, <2>1
  <2> QED
    BY <2>1, <2>2
<1>4. n \in 1 .. 3 /\ P(n)
  BY <1>3
<1>5. FreshAct = CHOOSE m \in 1 .. 3 : P(m)
  BY DEF FreshAct
<1>6. FreshAct \in 1 .. 3 /\ P(FreshAct)
  <2> HIDE DEF P
  <2> QED
    BY <1>4, <1>5
<1> QED
  BY <1>6

\* NetworkManager once it has taken up a connection, and the signals it sends.
Activated(n, ap, act, w) ==
    /\ w.nm = [aps |-> n.aps, used |-> n.used, dev |-> "prepare", act |-> act, ap |-> ap,
               saved |-> n.saved, kill |-> n.kill]
    /\ \E q \in Seq(News) : q # <<>> /\ q[Len(q)] = State("prepare") /\ w.sig = sig \o q

\* A connection that is taken up: the device takes down the one it had, and prepares.
LEMMA ActivatesIs ==
    ASSUME sig \in Seq(Signals), NEW n, NmShape(n), NEW ap, NEW act, NEW w, w = Activates(n, sig, ap, act)
    PROVE  Activated(n, ap, act, w)
<1> DEFINE down == IF n.act = NoAct THEN <<>> ELSE <<State("deactivating"), State("disconnected")>>
           next == [n EXCEPT !.act = act, !.ap = ap, !.dev = "prepare"]
           x == State("prepare")
<1>1. w = [nm |-> next, sig |-> sig \o down \o <<x>>]
  BY DEF Activates
<1>2. {"deactivating", "disconnected", "prepare"} \subseteq DeviceStates
  BY DEF DeviceStates, DownStates, BusyStates
<1>3. x \in News /\ State("deactivating") \in News /\ State("disconnected") \in News
  BY <1>2, StateIsNews
<1>4. down \in Seq(News)
  BY <1>3
<1>n. next = [n EXCEPT !.act = act, !.ap = ap, !.dev = "prepare"]
  OBVIOUS
<1> HIDE DEF down, next, x
<1>5. next = [aps |-> n.aps, used |-> n.used, dev |-> "prepare", act |-> act, ap |-> ap,
              saved |-> n.saved, kill |-> n.kill]
  BY <1>n DEF NmShape
<1>6. w.nm = next /\ w.sig = (sig \o down) \o <<x>>
  BY <1>1
<1>7. <<x>> \in Seq(News) /\ <<x>> \in Seq(Signals) /\ down \in Seq(Signals)
  <2>1. News \subseteq Signals
    BY NewsOnly
  <2> QED
    BY <1>3, <1>4, <2>1
<1>8. w.sig = sig \o (down \o <<x>>)
  BY <1>6, <1>7, ConcatAssociative
<1>9. PICK q : q = down \o <<x>>
  OBVIOUS
<1>10. q \in Seq(News) /\ Len(q) = Len(down) + 1 /\ q[Len(down) + 1] = x
  <2>1. Len(down) \in Nat /\ Len(<<x>>) = 1 /\ <<x>>[1] = x
    BY <1>4
  <2>2. /\ q \in Seq(News) /\ Len(q) = Len(down) + 1
        /\ \A i \in 1 .. Len(down) + 1 : q[i] = IF i <= Len(down) THEN down[i] ELSE <<x>>[i - Len(down)]
    BY <1>4, <1>7, <1>9, <2>1, ConcatProperties
  <2>3. Len(down) + 1 \in 1 .. Len(down) + 1 /\ ~(Len(down) + 1 <= Len(down)) /\ (Len(down) + 1) - Len(down) = 1
    BY <2>1
  <2> QED
    BY <2>1, <2>2, <2>3
<1>11. q # <<>> /\ q[Len(q)] = x
  <2>1. Len(down) \in Nat /\ Len(<<>>) = 0
    BY <1>4
  <2> QED
    BY <1>10, <2>1
<1> QED
  BY <1>5, <1>6, <1>8, <1>9, <1>10, <1>11 DEF x, Activated

\* NetworkManager takes up a connection of its own accord, or for another client.
LEMMA ConnectedStep ==
    ASSUME IInv, NEW a \in Aps, ConnectedByOther(a)
    PROVE  IInv'
<1>1. /\ nm' = Activates(nm, sig, a, FreshAct).nm /\ sig' = Activates(nm, sig, a, FreshAct).sig
      /\ link' = link /\ found' = found
  BY DEF ConnectedByOther
<1>2. sig \in Seq(Signals) /\ NmShape(nm)
  BY Parts
<1>3. PICK w : w = Activates(nm, sig, a, FreshAct)
  OBVIOUS
<1>4. /\ nm' = [aps |-> nm.aps, used |-> nm.used, dev |-> "prepare", act |-> FreshAct, ap |-> a,
                saved |-> nm.saved, kill |-> nm.kill]
      /\ \E q \in Seq(News) : q # <<>> /\ q[Len(q)] = State("prepare") /\ sig' = sig \o q
  <2>1. /\ w.nm = [aps |-> nm.aps, used |-> nm.used, dev |-> "prepare", act |-> FreshAct, ap |-> a,
                   saved |-> nm.saved, kill |-> nm.kill]
        /\ \E q \in Seq(News) : q # <<>> /\ q[Len(q)] = State("prepare") /\ w.sig = sig \o q
    <3>1. Activated(nm, a, FreshAct, w)
      BY <1>2, <1>3, ActivatesIs
    <3> QED
      BY <3>1 DEF Activated
  <2>2. nm' = w.nm /\ sig' = w.sig
    BY <1>1, <1>3
  <2> QED
    BY <2>1, <2>2
<1>5. /\ FreshAct \in 0 .. 3 /\ FreshAct # NoAct /\ FreshAct # link.conn
      /\ "prepare" \in DeviceStates /\ "prepare" \notin DownStates
  BY FreshPath DEF NoAct, DeviceStates, DownStates, BusyStates
<1>6. /\ NmTyped' /\ nm'.aps = nm.aps /\ nm'.used = nm.used /\ nm'.dev = "prepare"
      /\ nm'.act = FreshAct /\ nm'.kill = nm.kill
  BY <1>4, <1>5, NmParts, NmIsTyped
<1>7. /\ LinkOk(link') /\ Alike(link, link') /\ link'.raw = link.raw
      /\ DOMAIN link'.groups \subseteq DOMAIN link.groups
  BY <1>1, SameLinkStep
<1>8. PICK q \in Seq(News) : q # <<>> /\ q[Len(q)] = State("prepare") /\ sig' = sig \o q
  BY <1>4
<1> QED
  BY <1>1, <1>5, <1>6, <1>7, <1>8, MovesInv

\* The hotspot manager takes the link, or gives it back.
LEMMA DisconnectWifiStep ==
    ASSUME IInv, NEW d \in BOOLEAN, DisconnectWifi(d)
    PROVE  IInv'
<1> DEFINE drops == d /\ link.conn = nm.act /\ nm.act # NoAct
           r == setDisconnectWifi(Service, d)
<1>1. /\ Becomes(r)
      /\ nm' = IF drops THEN [nm EXCEPT !.act = NoAct, !.ap = NoAp, !.dev = "disconnected"] ELSE nm
      /\ sig' = IF drops THEN sig \o <<State("deactivating"), State("disconnected")>> ELSE sig
  BY DEF DisconnectWifi
<1>2. sig \in Seq(Signals) /\ NmShape(nm) /\ LinkOk(link)
  BY Parts
<1>3. IsService(Service) /\ Service.link = link /\ Service.found = found
  BY DEF IsService, Service
<1>4. /\ LinkOk(r.link) /\ IsService(r)
      /\ r.link.raw = link.raw /\ r.link.groups = link.groups /\ r.link.grouper = link.grouper
      /\ r.link.active = link.active /\ r.link.conn = link.conn /\ r.found = found
      /\ r.link.status = link.status /\ r.link.lastState = link.lastState
      /\ r.link.kill = link.kill
  BY <1>2, <1>3, DisconnectLink
<1> HIDE DEF r, drops
<1>5. LinkOk(link') /\ SameLink(r.link, link') /\ found' = found
  BY <1>1, <1>4, BecomesLink
<1>6. /\ Alike(link, link') /\ link'.raw = link.raw
      /\ DOMAIN link'.groups \subseteq DOMAIN link.groups
  <2>1. Alike(r.link, link')
    BY <1>4, <1>5, SameLinkAlike
  <2> QED
    BY <1>4, <1>5, <2>1 DEF Alike, SameLink
<1>7. CASE drops
  <2>1. /\ "disconnected" \in DeviceStates /\ "deactivating" \in DeviceStates
        /\ "disconnected" \in DownStates /\ NoAct \in 0 .. 3
    BY DEF DeviceStates, DownStates, NoAct
  <2>2. nm' = [aps |-> nm.aps, used |-> nm.used, dev |-> "disconnected", act |-> NoAct, ap |-> NoAp,
               saved |-> nm.saved, kill |-> nm.kill]
    <3>1. NmShape(nm) /\ nm' = [nm EXCEPT !.act = NoAct, !.ap = NoAp, !.dev = "disconnected"]
      BY <1>1, <1>2, <1>7
    <3> QED
      BY <3>1 DEF NmShape
  <2>3. /\ NmTyped' /\ nm'.aps = nm.aps /\ nm'.used = nm.used /\ nm'.dev = "disconnected"
        /\ nm'.act = NoAct /\ nm'.kill = nm.kill
    BY <2>1, <2>2, NmParts, NmIsTyped
  <2>4. PICK q : q = <<State("deactivating"), State("disconnected")>>
    OBVIOUS
  <2>5. q \in Seq(News) /\ q # <<>> /\ q[Len(q)] = State("disconnected")
    BY <2>1, <2>4, TwoStates
  <2>6. sig' = sig \o q
    BY <1>1, <1>7, <2>4
  <2> QED
    BY <1>5, <1>6, <2>1, <2>3, <2>5, <2>6, MovesInv
<1>8. CASE ~drops
  BY <1>1, <1>5, <1>6, <1>8, SilentInv
<1> QED
  BY <1>7, <1>8
\* The link holds the path it was given for the connection it asked for.
LEMMA AskedStep ==
    ASSUME IInv, NEW ap, Becomes(updateActiveConnection(Service, FreshAct, ap)),
           NmTyped', nm'.aps = nm.aps, nm'.used = nm.used, nm'.kill = nm.kill,
           nm'.act = FreshAct, nm'.ap = ap, nm'.dev = "prepare",
           NEW q \in Seq(News), q # <<>>, q[Len(q)] = State("prepare"), sig' = sig \o q
    PROVE  IInv'
<1>1. /\ sig \in Seq(Signals) /\ SignalInv /\ DeviceInv /\ ConnInv /\ LinkOk(link)
      /\ DOMAIN link.groups \subseteq Aps
  BY Parts
<1>2. IsService(Service) /\ Service.link = link /\ Service.found = found
  BY DEF IsService, Service
<1>3. FreshAct \in -1 .. 3 /\ FreshAct # NoAct /\ FreshAct # link.conn
  BY FreshPath DEF NoAct
<1>4. PICK r : r = updateActiveConnection(Service, FreshAct, ap)
  OBVIOUS
<1>5. /\ LinkOk(r.link) /\ SameAps(link, r.link)
      /\ r.link.status = link.status /\ r.link.lastState = link.lastState
      /\ r.link.kill = link.kill /\ LooksUp(Service, FreshAct, ap, r)
  BY <1>1, <1>2, <1>3, <1>4, ConnectionLink
<1>6. LinkOk(link') /\ SameLink(r.link, link') /\ found' = r.found
  BY <1>4, <1>5, BecomesLink
<1>7. /\ link'.raw = link.raw /\ DOMAIN link'.groups \subseteq DOMAIN link.groups
      /\ link'.status = link.status /\ link'.lastState = link.lastState /\ link'.kill = link.kill
      /\ link'.active = r.link.active /\ link'.conn = FreshAct
      /\ link'.active \in DOMAIN link'.groups \cup {NoAp}
      /\ \A g \in DOMAIN link'.groups : link'.groups[g] = link.groups[g]
  BY <1>5, <1>6 DEF SameAps, SameLink, LooksUp
<1>8. /\ sig' \in Seq(Signals) /\ SignalInv'
  BY <1>1, <1>7, SentNews, NewsInv
<1>9. /\ "prepare" \in DeviceStates /\ "prepare" \notin DownStates
  BY DEF DeviceStates, DownStates, BusyStates
<1>10. q[Len(q)].t = "state" /\ q[Len(q)].state = "prepare"
  BY <1>9, StateIsNews
<1>11. DeviceInv'
  BY <1>1, <1>3, <1>7, <1>9, <1>10, DeviceSent
<1>12. ConnInv'
  <2>1. ~NoState' /\ Rising'
    BY <1>1, <1>9, <1>10, StatesSent
  <2>2. ASSUME found'
        PROVE  /\ link'.active \in DOMAIN link'.groups
               /\ link'.groups[link'.active].key \in {KeyOf[nm'.ap], NoKey}
    <3>1. link'.active \in Grouped(link) /\ ap \in link.groups[link'.active].aps
      BY <1>2, <1>3, <1>5, <1>6, <1>7, <2>2 DEF LooksUp
    <3>2. link'.active \in DOMAIN link.groups /\ link.groups[link'.active].key \in {KeyOf[ap], NoKey}
      BY <3>1, HolderKey
    <3>3. link'.active # NoAp
      BY <1>1, <3>2, ApsAssumption DEF NoAp
    <3> QED
      BY <1>7, <3>2, <3>3
  <2> QED
    BY <2>1, <2>2 DEF ConnInv
<1> QED
  BY <1>6, <1>8, <1>11, <1>12, Whole

\* NetworkManager refuses: the link holds the path of a failed call.
LEMMA RefusedStep ==
    ASSUME IInv, Becomes(updateActiveConnection(Service, BadAct, NoAp)), nm' = nm, sig' = sig
    PROVE  IInv'
<1>1. /\ sig \in Seq(Signals) /\ SignalInv /\ DeviceInv /\ ConnInv /\ LinkOk(link) /\ NmTyped
      /\ nm.act \in 0 .. 3
  BY Parts, NmParts
<1>2. IsService(Service) /\ Service.link = link /\ Service.found = found
  BY DEF IsService, Service
<1>3. BadAct \in -1 .. 3 /\ BadAct # NoAct /\ BadAct # nm.act
  BY <1>1 DEF NoAct, BadAct
<1>4. PICK r : r = updateActiveConnection(Service, BadAct, NoAp)
  OBVIOUS
<1>5. /\ LinkOk(r.link) /\ SameAps(link, r.link)
      /\ r.link.status = link.status /\ r.link.lastState = link.lastState
      /\ r.link.kill = link.kill /\ LooksUp(Service, BadAct, NoAp, r)
  BY <1>1, <1>2, <1>3, <1>4, ConnectionLink
<1>6. LinkOk(link') /\ SameLink(r.link, link') /\ found' = r.found
  BY <1>4, <1>5, BecomesLink
<1>7. /\ link'.raw = link.raw /\ DOMAIN link'.groups \subseteq DOMAIN link.groups
      /\ link'.status = link.status /\ link'.lastState = link.lastState /\ link'.kill = link.kill
      /\ link'.conn = BadAct
  BY <1>5, <1>6 DEF SameAps, SameLink, LooksUp
<1>8. SignalInv'
  <2>1. <<>> \in Seq(News) /\ sig' = sig \o <<>>
    BY <1>1, ConcatEmptySeq
  <2> QED
    BY <1>1, <1>7, <2>1, NewsInv
<1>9. DeviceInv'
  BY <1>1, <1>7 DEF DeviceInv, NoState, LastState, IsState
<1>10. ConnInv'
  BY <1>3, <1>7 DEF ConnInv
<1>11. NmTyped' /\ sig' \in Seq(Signals)
  BY <1>1 DEF NmTyped
<1> QED
  BY <1>6, <1>8, <1>9, <1>10, <1>11, Whole

\* The user picks a network.
LEMMA ConnectStep ==
    ASSUME IInv, NEW g, connect_to(g)
    PROVE  IInv'
<1> DEFINE key == link.groups[g].key
           calls == key \in nm.saved \/ key \notin EnterpriseKeys
           ap == object_path(link.groups[g])
           n == [nm EXCEPT !.saved = @ \cup {key}]
           world == Activates(n, sig, ap, FreshAct)
<1>1. PICK ok \in BOOLEAN :
          /\ IF calls /\ ok THEN nm' = world.nm /\ sig' = world.sig ELSE UNCHANGED <<nm, sig>>
          /\ Becomes(IF calls /\ key \notin EnterpriseKeys
                     THEN updateActiveConnection(Service, IF ok THEN FreshAct ELSE BadAct,
                                                 IF ok THEN ap ELSE NoAp)
                     ELSE Service)
  BY DEF connect_to
<1>2. sig \in Seq(Signals) /\ NmShape(nm)
  BY Parts
<1>3. n = [aps |-> nm.aps, used |-> nm.used, dev |-> nm.dev, act |-> nm.act, ap |-> nm.ap,
           saved |-> nm.saved \cup {key}, kill |-> nm.kill]
  <2> DEFINE v == nm.saved \cup {key}
  <2>1. n = [nm EXCEPT !.saved = v]
    OBVIOUS
  <2> HIDE DEF v, n
  <2>2. n = [aps |-> nm.aps, used |-> nm.used, dev |-> nm.dev, act |-> nm.act, ap |-> nm.ap,
             saved |-> v, kill |-> nm.kill]
    BY <1>2, <2>1, NmSaved
  <2> QED
    BY <2>2 DEF v
<1> HIDE DEF n, calls, key, ap
<1>4. /\ NmShape(n) /\ n.aps = nm.aps /\ n.used = nm.used /\ n.kill = nm.kill
  BY <1>3 DEF NmShape
<1>5. IsService(Service) /\ Service.link = link /\ Service.found = found
  BY DEF IsService, Service
<1>6. ASSUME nm' = world.nm, sig' = world.sig
      PROVE  /\ NmTyped' /\ nm'.aps = nm.aps /\ nm'.used = nm.used /\ nm'.dev = "prepare"
             /\ nm'.act = FreshAct /\ nm'.kill = nm.kill /\ nm'.ap = ap
             /\ \E q \in Seq(News) : q # <<>> /\ q[Len(q)] = State("prepare") /\ sig' = sig \o q
  <2>1. PICK w : w = world
    OBVIOUS
  <2>2. /\ w.nm = [aps |-> n.aps, used |-> n.used, dev |-> "prepare", act |-> FreshAct, ap |-> ap,
                   saved |-> n.saved, kill |-> n.kill]
        /\ \E q \in Seq(News) : q # <<>> /\ q[Len(q)] = State("prepare") /\ w.sig = sig \o q
    <3>1. Activated(n, ap, FreshAct, w)
      BY <1>2, <1>4, <2>1, ActivatesIs
    <3> QED
      BY <3>1 DEF Activated
  <2>3. nm' = [aps |-> nm.aps, used |-> nm.used, dev |-> "prepare", act |-> FreshAct, ap |-> ap,
               saved |-> n.saved, kill |-> nm.kill]
    BY <1>4, <1>6, <2>1, <2>2
  <2>4. FreshAct \in 0 .. 3 /\ "prepare" \in DeviceStates
    BY FreshPath DEF DeviceStates, BusyStates
  <2>5. /\ NmTyped' /\ nm'.aps = nm.aps /\ nm'.used = nm.used /\ nm'.dev = "prepare"
        /\ nm'.act = FreshAct /\ nm'.kill = nm.kill /\ nm'.ap = ap
    BY <2>3, <2>4, NmParts, NmIsTyped
  <2> QED
    BY <1>6, <2>1, <2>2, <2>5
<1> HIDE DEF world
<1>7. CASE calls /\ ok /\ key \notin EnterpriseKeys
  <2>1. nm' = world.nm /\ sig' = world.sig /\ Becomes(updateActiveConnection(Service, FreshAct, ap))
    BY <1>1, <1>7
  <2>2. PICK q \in Seq(News) : q # <<>> /\ q[Len(q)] = State("prepare") /\ sig' = sig \o q
    BY <1>6, <2>1
  <2> QED
    BY <1>6, <2>1, <2>2, AskedStep
<1>8. CASE calls /\ ok /\ key \in EnterpriseKeys
  <2>1. nm' = world.nm /\ sig' = world.sig /\ Becomes(Service)
    BY <1>1, <1>8
  <2>2. PICK q \in Seq(News) : q # <<>> /\ q[Len(q)] = State("prepare") /\ sig' = sig \o q
    BY <1>6, <2>1
  <2>3. LinkOk(link)
    BY Parts
  <2>4. LinkOk(link') /\ SameLink(link, link') /\ found' = found
    BY <1>5, <2>1, <2>3, BecomesLink
  <2>5. Alike(link, link')
    BY <2>3, <2>4, SameLinkAlike
  <2>6. /\ FreshAct # NoAct /\ FreshAct # link.conn /\ "prepare" \notin DownStates
    BY FreshPath DEF NoAct, DownStates
  <2>7. /\ NmTyped' /\ nm'.aps = nm.aps /\ nm'.used = nm.used /\ nm'.dev = "prepare"
        /\ nm'.act = FreshAct /\ nm'.kill = nm.kill
    BY <1>6, <2>1
  <2>8. link'.raw = link.raw /\ DOMAIN link'.groups \subseteq DOMAIN link.groups
    BY <2>4 DEF SameLink
  <2> QED
    BY <2>2, <2>4, <2>5, <2>6, <2>7, <2>8, MovesInv
<1>9. CASE calls /\ ~ok /\ key \notin EnterpriseKeys
  <2>1. nm' = nm /\ sig' = sig /\ Becomes(updateActiveConnection(Service, BadAct, NoAp))
    <3>1. ~ok /\ ~(calls /\ ok) /\ calls /\ key \notin EnterpriseKeys
      BY <1>9
    <3>2. (IF ok THEN FreshAct ELSE BadAct) = BadAct /\ (IF ok THEN ap ELSE NoAp) = NoAp
      BY <3>1
    <3> QED
      BY <1>1, <3>1, <3>2
  <2> QED
    BY <2>1, RefusedStep
<1>10. CASE ~calls \/ (~ok /\ key \in EnterpriseKeys)
  <2>1. nm' = nm /\ sig' = sig /\ Becomes(Service)
    BY <1>1, <1>10
  <2> QED
    BY <1>5, <2>1, MenuStep
<1> QED
  BY <1>7, <1>8, <1>9, <1>10
-----------------------------------------------------------------------------
(* The theorems                                                            *)

\* Nothing is under way at the start, and nothing is known.
LEMMA InitInv == Init => IInv
<1> SUFFICES ASSUME Init PROVE IInv
  OBVIOUS
<1> USE DEF Init
<1>1. Empty = [x \in DOMAIN Empty |-> Empty[x]] /\ DOMAIN Empty = {}
  BY DEF Empty
<1>2. NmTyped
  BY <1>1 DEF NmTyped, Partial, DeviceStates, DownStates, NoAct
<1>3. sig \in Seq(Signals) /\ DOMAIN sig = {}
  OBVIOUS
<1>4. LinkTyped(link)
  <2>1. Partial(Empty, Aps, AccessPoints) /\ Partial(Empty, Aps, Groups) /\ Partial(Empty, NetworkKeys, Aps)
    BY <1>1 DEF Partial
  <2> HIDE DEF Empty
  <2> QED
    BY <1>1, <2>1 DEF LinkTyped, DeviceStates, DownStates, NoAct
<1>5. SignalOrder /\ SignalsCurrent
  BY <1>3 DEF SignalOrder, SignalsCurrent
<1>6. RawCurrent
  BY <1>1 DEF RawCurrent
<1>7. GroupsOf(link)
  BY <1>1 DEF GroupsOf
<1>8. DeviceInv
  BY <1>3 DEF DeviceInv, StatusOf, DownStates, BusyStates
<1>9. ConnInv
  BY <1>3 DEF ConnInv, UpStates
<1>10. SignalOf(link)
  <2>1. strengthUpdated(link).signal = link.signal
    BY <1>4, SignalIs
  <2> QED
    BY <2>1 DEF SignalOf
<1> QED
  BY <1>2, <1>3, <1>4, <1>5, <1>6, <1>7, <1>8, <1>9, <1>10 DEF IInv, TypeInv, GroupInv

\* Every step keeps the invariant.
LEMMA NextInv == IInv /\ [Next]_vars => IInv'
<1> SUFFICES ASSUME IInv, [Next]_vars PROVE IInv'
  OBVIOUS
<1>1. CASE HandleAdded \/ HandleRemoved \/ HandleStrength
  BY <1>1, HandleApStep
<1>2. CASE state_changed
  BY <1>2, StateStep
<1>3. CASE kill_switch_updated
  BY <1>3, KillStep
<1>4. CASE UserConnects
  <2>1. PICK g \in item.aps : connect_to(g)
    BY <1>4 DEF UserConnects
  <2> QED
    BY <2>1, ConnectStep
<1>5. ASSUME NEW b \in BOOLEAN, DisconnectWifi(b) PROVE IInv'
  BY <1>5, DisconnectWifiStep
<1>6. ASSUME NEW modems, LinksUpdated(modems) PROVE IInv'
  <2> DEFINE s == [Service EXCEPT !.item = NewItem, !.menus = updateLinks(modemsChanged(menus, modems))]
  <2>1. s.link = link /\ s.found = found
    BY DEF Service
  <2>2. Becomes(s) /\ nm' = nm /\ sig' = sig
    BY <1>6 DEF LinksUpdated
  <2> HIDE DEF s
  <2> QED
    BY <2>1, <2>2, MenuStep
<1>7. CASE hotspotStoredChanged
  <2> DEFINE s == [Service EXCEPT !.menus = modemsChanged([menus EXCEPT !.stored = TRUE], menus.modems)]
  <2>1. s.link = link /\ s.found = found
    BY DEF Service
  <2>2. Becomes(s) /\ nm' = nm /\ sig' = sig
    BY <1>7 DEF hotspotStoredChanged
  <2> HIDE DEF s
  <2> QED
    BY <2>1, <2>2, MenuStep
<1>8. ASSUME NEW vpns, VpnsUpdated(vpns) PROVE IInv'
  <2> DEFINE s == [Service EXCEPT !.menus = vpnConnectionsChanged(menus, vpns)]
  <2>1. s.link = link /\ s.found = found
    BY DEF Service
  <2>2. Becomes(s) /\ nm' = nm /\ sig' = sig
    BY <1>8 DEF VpnsUpdated
  <2> HIDE DEF s
  <2> QED
    BY <2>1, <2>2, MenuStep
<1>9. ASSUME NEW a \in Aps, ApAppears(a) \/ ApDisappears(a) \/ StrengthChanges(a) PROVE IInv'
  BY <1>9, ApStep
<1>10. ASSUME NEW a \in Aps, ConnectedByOther(a) PROVE IInv'
  BY <1>10, ConnectedStep
<1>11. CASE KillChanges
  BY <1>11, KillChangesStep
<1>12. ASSUME NEW x \in UpStates, Progress(x) PROVE IInv'
  BY <1>12, ProgressStep
<1>13. ASSUME NEW x \in DownStates, DisconnectedByOther(x) PROVE IInv'
  BY <1>13, DisconnectedStep
<1>14. CASE UNCHANGED vars
  <2>1. nm' = nm /\ sig' = sig /\ link' = link /\ found' = found
    BY <1>14 DEF vars
  <2> QED
    BY <2>1, SameLinkStep, SilentInv
<1> QED
  BY <1>1, <1>2, <1>3, <1>4, <1>5, <1>6, <1>7, <1>8, <1>9, <1>10, <1>11, <1>12, <1>13, <1>14
     DEF Next, Handle

\* The link, the signals under way and NetworkManager keep the relations of IInv.
THEOREM LinkInvariant == Spec => []IInv
<1> QED
  BY InitInv, NextInv, PTL DEF Spec

\* The networks are what the access points make of them.
LEMMA GroupsAreSound == IInv => GroupSound
<1> SUFFICES ASSUME IInv PROVE GroupSound
  OBVIOUS
<1>1. GroupsOf(link) /\ RawCurrent /\ LinkTyped(link) /\ NmTyped
  BY DEF IInv, GroupInv, TypeInv
<1>2. \A a \in DOMAIN link.raw : link.raw[a].strength \in Levels
  BY <1>1 DEF LinkTyped, Partial, AccessPoints
<1>3. ASSUME NEW k \in DOMAIN link.grouper, NEW g, g = link.groups[link.grouper[k]]
      PROVE  /\ g.key = k /\ g.aps # {}
             /\ g.aps = {a \in DOMAIN link.raw : link.raw[a].key = k}
             /\ g.strength = Max({link.raw[a].strength : a \in g.aps})
  <2>1. /\ g.key = k /\ g.aps # {} /\ g.aps = {a \in DOMAIN link.raw : link.raw[a].key = k}
        /\ g.strength = StrongestOf(link.raw, g.aps)
    BY <1>1, <1>3 DEF GroupsOf
  <2>2. \A a \in g.aps : link.raw[a].strength \in Levels
    BY <1>2, <2>1
  <2>3. StrongestOf(link.raw, g.aps) = Max({link.raw[a].strength : a \in g.aps})
    BY <2>1, <2>2, StrongestOfSome
  <2> QED
    BY <2>1, <2>3
<1>4. \A a \in DOMAIN link.raw : link.raw[a].key \in DOMAIN link.grouper
  BY <1>1 DEF GroupsOf
<1>5. ASSUME sig = <<>>
      PROVE  link.raw = [a \in DOMAIN nm.aps |-> [key |-> KeyOf[a], strength |-> nm.aps[a]]]
  <2>1. \A a \in Aps : NoneAbout(a)
    BY <1>5 DEF NoneAbout
  <2>2. /\ link.raw = [x \in DOMAIN link.raw |-> link.raw[x]]
        /\ DOMAIN link.raw \subseteq Aps /\ DOMAIN nm.aps \subseteq Aps
    BY <1>1 DEF LinkTyped, NmTyped, Partial
  <2>3. DOMAIN link.raw = DOMAIN nm.aps
    BY <1>1, <2>1, <2>2 DEF RawCurrent
  <2>4. \A a \in DOMAIN nm.aps : link.raw[a] = [key |-> KeyOf[a], strength |-> nm.aps[a]]
    BY <1>1, <2>1, <2>2 DEF RawCurrent
  <2> QED
    BY <2>2, <2>3, <2>4
<1> QED
  BY <1>3, <1>4, <1>5 DEF GroupSound

\* Every access point is in the network of its key, no network is empty, and each is as strong as
\* its strongest access point: whatever AccessPointAdded, AccessPointRemoved and changes of
\* strength did to them, and with nothing under way the link knows what NetworkManager has.
THEOREM NetworksSound == Spec => []GroupSound
<1> QED
  BY LinkInvariant, GroupsAreSound, PTL

\* Once nothing is under way the link agrees with NetworkManager.
LEMMA LinkDoesAgree == IInv => LinkAgrees
<1> SUFFICES ASSUME IInv, sig = <<>> PROVE LinkAgrees
  BY DEF LinkAgrees
<1>1. DeviceInv /\ ConnInv /\ SignalOf(link)
  BY DEF IInv
<1>2. NoState /\ ~Rising /\ \A i \in DOMAIN sig : sig[i].t # "kill"
  BY DEF NoState, Rising
<1>3. link.lastState = nm.dev /\ link.kill = nm.kill /\ link.status = StatusOf(nm.dev, nm.kill)
  BY <1>1, <1>2 DEF DeviceInv
<1>4. nm.dev \in DownStates /\ link.conn # BadAct => link.active = NoAp /\ link.conn = NoAct
  BY <1>1, <1>2, <1>3 DEF ConnInv
<1>5. nm.dev \in UpStates /\ link.conn # BadAct =>
          link.conn = nm.act /\ (found => link.groups[link.active].key \in {KeyOf[nm.ap], NoKey})
  <2> SUFFICES ASSUME nm.dev \in UpStates, link.conn # BadAct
               PROVE  link.conn = nm.act
                      /\ (found => link.groups[link.active].key \in {KeyOf[nm.ap], NoKey})
    OBVIOUS
  <2>1. link.conn = nm.act
    BY <1>1, <1>2, <1>3 DEF ConnInv
  <2>2. nm.act # NoAct
    BY <1>1, StatesDisjoint DEF DeviceInv
  <2> QED
    BY <1>1, <2>1, <2>2 DEF ConnInv
<1> QED
  BY <1>1, <1>3, <1>4, <1>5 DEF LinkAgrees, StatusOf, SignalOf

\* With nothing under way the status, the active network and the strength of the link are those
\* NetworkManager and urfkill have: the properties that updateDeviceState() and
\* updateActiveConnection() read late were not read too late.
THEOREM LinkAndWorldAgree == Spec => []LinkAgrees
<1> QED
  BY LinkInvariant, LinkDoesAgree, PTL
=============================================================================
