---------------------------- MODULE HotspotProofs ----------------------------
(***************************************************************************)
(* Proofs for Hotspot, for any devices, names and passwords and without    *)
(* the bounds of TLC's runs: KnownAfterRestart, that the hotspot is the    *)
(* connection which a restart finds, and RequestsHold, that what was asked *)
(* for on current information is so once the service is at rest.           *)
(*                                                                         *)
(* The operators of the model take a world (the service, NetworkManager    *)
(* and the signals on their way) and return one, and so do the lemmas:     *)
(* those of the hotspot leave the radio alone, and the other way round.    *)
(***************************************************************************)
EXTENDS Hotspot, TLAPS, FiniteSetTheorems, SequenceTheorems, WellFoundedInduction

(* What may be written of the settings: there is a name.                   *)
Named == {s \in Settings : s.ssid # ""}
Conns == {createConnectionSettings(s, u) : s \in Named, u \in Nat}

Links == UNION {[D -> BOOLEAN] : D \in SUBSET Devices}

Listeds == [act : Nat, conn : Nat, other : BOOLEAN]

Services ==
    [enabled : BOOLEAN, wakelock : BOOLEAN, disconnectWifi : BOOLEAN, stored : BOOLEAN,
     hotspot : Nat, uuid : Nat, device : Devices \cup {NoDevice}, hook : Nat,
     listed : Listeds, set : Settings, kill : KillStates,
     flightMode : BOOLEAN, hasWifi : BOOLEAN, wifiEnabled : BOOLEAN, links : Links]

Networks ==
    [conns : Seq(Conns \cup {Gone}), act : Nat, conn : Nat, other : BOOLEAN,
     wireless : BOOLEAN, kill : KillStates, flight : BOOLEAN, devs : SUBSET Devices]

Signals ==
    [t : {"list"}, act : Nat, other : BOOLEAN] \cup [t : {"flight"}, on : BOOLEAN]
    \cup [t : {"state", "reactivate"}] \cup [t : {"added", "removed"}, dev : Devices]

Worlds == [hs : Services, nm : Networks, sig : Seq(Signals)]

(* The last signal of the kind t tells the value there is now; if there is *)
(* none on its way, then that value is known.                              *)
Value(m) == IF m.t = "list" THEN m.act ELSE m.on
Comes(s, t) == \E i \in DOMAIN s : s[i].t = t
Told(s, t, known, current) ==
    \/ ~Comes(s, t) /\ known = current
    \/ \E i \in DOMAIN s : /\ s[i].t = t /\ Value(s[i]) = current
                           /\ \A j \in DOMAIN s : j > i => s[j].t # t

RadioInv(w) ==
    /\ Told(w.sig, "flight", w.hs.flightMode, w.nm.flight)
    /\ Comes(w.sig, "state") \/ w.hs.kill = w.nm.kill
    /\ w.hs.kill # "not_available" => (w.hs.wifiEnabled <=> w.hs.kill = "unblocked")

(* The connection of the hotspot: the only stored one in mode "ap", and    *)
(* under the UUID that the manager knows.                                  *)
ConnInv(w) ==
    /\ w.hs.stored <=> w.hs.hotspot # 0
    /\ w.hs.hotspot \in Stored(w.nm) => w.nm.conns[w.hs.hotspot].uuid = w.hs.uuid
    /\ \A c \in Stored(w.nm) : c # w.hs.hotspot => w.nm.conns[c].mode = "adhoc"

(* What is known of the active connection and told to the links.           *)
LinksTold(w) == \A d \in DOMAIN w.hs.links : w.hs.links[d] = w.hs.disconnectWifi
ActiveInv(w) ==
    /\ Told(w.sig, "list", w.hs.listed.act, w.nm.act)
    /\ w.nm.act = 0 => w.nm.conn = 0
    /\ w.hs.listed.act = w.nm.act => w.hs.listed.conn = w.nm.conn
    /\ w.hs.listed.act = 0 => w.hs.listed.conn = 0
    /\ LinksTold(w)

(* What an enabled hotspot amounts to.                                     *)
EnabledInv(w) ==
    w.hs.enabled => /\ w.hs.disconnectWifi /\ w.hs.hotspot # 0
                    /\ w.nm.act # 0 => w.nm.conn = w.hs.hotspot

(* A hotspot that is wished but was dropped comes back: that it is gone is *)
(* still to be noticed, or reactivateConnection() is posted.               *)
Notices(s) == \E i \in DOMAIN s : \/ s[i].t = "reactivate"
                                  \/ s[i].t = "list" /\ s[i].act # 0
On(w) ==
    /\ w.hs.enabled /\ w.hs.hook # 0 /\ w.hs.hotspot \in Stored(w.nm)
    /\ w.nm.act # 0 \/ w.hs.listed.act # 0 \/ Notices(w.sig)
Off(w) ==
    /\ ~w.hs.enabled /\ ~w.hs.disconnectWifi /\ w.hs.hook = 0 /\ w.nm.act = 0
    /\ ~Comes(w.sig, "reactivate")

Wishes == [wifi : SUBSET BOOLEAN, flight : SUBSET BOOLEAN, hotspot : SUBSET BOOLEAN]

WifiWish(w, wanted) ==
    \A on \in wanted : w.nm.wireless = on /\ w.nm.kill \in {"not_available",
                                                IF on THEN "unblocked" ELSE "soft_blocked"}
FlightWish(w, wanted) == \A on \in wanted : w.nm.flight = on
HotspotWish(w, wanted) == \A on \in wanted : IF on THEN On(w) ELSE Off(w)

WishInv(w, wanted) ==
    /\ wanted \in Wishes
    /\ WifiWish(w, wanted.wifi) /\ FlightWish(w, wanted.flight) /\ HotspotWish(w, wanted.hotspot)

HotspotInv(w) == ConnInv(w) /\ ActiveInv(w) /\ EnabledInv(w)
WorldInv(w) == w \in Worlds /\ RadioInv(w) /\ HotspotInv(w)
IInv == WorldInv(World) /\ WishInv(World, wish)

-----------------------------------------------------------------------------
(* Signals                                                                 *)

(* s is a part of u, which has signals of the kinds T besides.             *)
Grows(s, u, T) ==
    /\ Len(s) <= Len(u)
    /\ \A i \in 1 .. Len(u) : IF i <= Len(s) THEN u[i] = s[i] ELSE u[i].t \in T

(* Appending a signal of a kind.                                           *)
LEMMA GrowsAppend ==
    ASSUME NEW s \in Seq(Signals), NEW x \in Signals, NEW T, x.t \in T
    PROVE  Append(s, x) \in Seq(Signals) /\ Grows(s, Append(s, x), T)
BY DEF Grows

(* Nothing appended.                                                       *)
LEMMA GrowsRefl ==
    ASSUME NEW s \in Seq(Signals), NEW T
    PROVE  Grows(s, s, T)
BY DEF Grows

(* One after the other.                                                    *)
LEMMA GrowsTrans ==
    ASSUME NEW s \in Seq(Signals), NEW u \in Seq(Signals), NEW v \in Seq(Signals), NEW T,
           Grows(s, u, T), Grows(u, v, T)
    PROVE  Grows(s, v, T)
BY DEF Grows

(* Fewer kinds are more kinds.                                             *)
LEMMA GrowsMore ==
    ASSUME NEW s \in Seq(Signals), NEW u \in Seq(Signals), NEW T, NEW U,
           T \subseteq U, Grows(s, u, T)
    PROVE  Grows(s, u, U)
BY DEF Grows

(* What is on its way stays on its way, and nothing of another kind comes. *)
LEMMA GrowsComes ==
    ASSUME NEW s \in Seq(Signals), NEW u \in Seq(Signals), NEW T, NEW t, Grows(s, u, T)
    PROVE  /\ Comes(s, t) => Comes(u, t)
           /\ t \notin T => (Comes(u, t) <=> Comes(s, t))
BY DEF Grows, Comes

(* That the hotspot is gone remains to be noticed.                         *)
LEMMA GrowsNotices ==
    ASSUME NEW s \in Seq(Signals), NEW u \in Seq(Signals), NEW T, Grows(s, u, T), Notices(s)
    PROVE  Notices(u)
<1>1. PICK i \in DOMAIN s : s[i].t = "reactivate" \/ (s[i].t = "list" /\ s[i].act # 0)
  BY DEF Notices
<1>2. i \in DOMAIN u /\ u[i] = s[i]
  BY <1>1 DEF Grows
<1> QED
  BY <1>1, <1>2 DEF Notices

(* Signals of other kinds do not change what the last one tells.           *)
LEMMA GrowsTold ==
    ASSUME NEW s \in Seq(Signals), NEW u \in Seq(Signals), NEW T, NEW t, NEW k, NEW c,
           Grows(s, u, T), t \notin T, Told(s, t, k, c)
    PROVE  Told(u, t, k, c)
<1>1. CASE ~Comes(s, t) /\ k = c
  BY <1>1, GrowsComes DEF Told
<1>2. ASSUME NEW i \in DOMAIN s, s[i].t = t, Value(s[i]) = c,
             \A j \in DOMAIN s : j > i => s[j].t # t
      PROVE  Told(u, t, k, c)
  <2>1. i \in DOMAIN u /\ u[i] = s[i]
    BY <1>2 DEF Grows
  <2>2. \A j \in DOMAIN u : j > i => u[j].t # t
    BY <1>2 DEF Grows
  <2> QED
    BY <1>2, <2>1, <2>2 DEF Told
<1> QED
  BY <1>1, <1>2 DEF Told

(* The signal that is sent now tells the value.                            *)
LEMMA AppendTold ==
    ASSUME NEW s \in Seq(Signals), NEW x \in Signals, NEW k
    PROVE  Told(Append(s, x), x.t, k, Value(x))
<1> DEFINE u == Append(s, x)
           n == Len(s) + 1
<1>1. n \in DOMAIN u /\ u[n] = x /\ \A j \in DOMAIN u : ~(j > n)
  OBVIOUS
<1> QED
  BY <1>1 DEF Told

(* The signal that is handled: one of another kind, or what it tells is    *)
(* known then.                                                             *)
LEMMA TailTold ==
    ASSUME NEW s \in Seq(Signals), s # <<>>, NEW t, NEW k, NEW c, Told(s, t, k, c)
    PROVE  /\ Tail(s) \in Seq(Signals)
           /\ Head(s).t # t => Told(Tail(s), t, k, c)
           /\ Head(s).t = t => Told(Tail(s), t, Value(Head(s)), c)
<1>0. Tail(s) \in Seq(Signals) /\ \A i \in DOMAIN Tail(s) : i + 1 \in DOMAIN s /\ Tail(s)[i] = s[i + 1]
  OBVIOUS
<1>1. CASE ~Comes(s, t) /\ k = c
  <2>1. 1 \in DOMAIN s /\ Head(s) = s[1]
    OBVIOUS
  <2> QED
    BY <1>0, <1>1, <2>1 DEF Told, Comes
<1>2. ASSUME NEW i \in DOMAIN s, s[i].t = t, Value(s[i]) = c,
             \A j \in DOMAIN s : j > i => s[j].t # t
      PROVE  /\ Head(s).t # t => Told(Tail(s), t, k, c)
             /\ Head(s).t = t => Told(Tail(s), t, Value(Head(s)), c)
  <2>1. CASE i = 1
    <3>1. \A j \in DOMAIN Tail(s) : Tail(s)[j].t # t
      BY <1>0, <1>2, <2>1
    <3>2. Head(s) = s[1]
      OBVIOUS
    <3> QED
      BY <1>2, <2>1, <3>1, <3>2 DEF Told, Comes
  <2>2. CASE i # 1
    <3>1. i - 1 \in DOMAIN Tail(s) /\ Tail(s)[i - 1] = s[i]
      BY <2>2
    <3>2. \A j \in DOMAIN Tail(s) : j > i - 1 => Tail(s)[j].t # t
      BY <1>0, <1>2
    <3> QED
      BY <1>2, <3>1, <3>2 DEF Told
  <2> QED
    BY <2>1, <2>2
<1> QED
  BY <1>0, <1>1, <1>2 DEF Told

(* The first signal of a queue.                                            *)
LEMMA HeadTail ==
    ASSUME NEW s \in Seq(Signals), s # <<>>
    PROVE  /\ Head(s) \in Signals /\ Tail(s) \in Seq(Signals)
           /\ \A t : Comes(s, t) <=> Head(s).t = t \/ Comes(Tail(s), t)
           /\ Notices(s) => Notices(Tail(s)) \/ Head(s).t = "reactivate"
                               \/ (Head(s).t = "list" /\ Head(s).act # 0)
<1>1. /\ Head(s) \in Signals /\ Tail(s) \in Seq(Signals) /\ Head(s) = s[1] /\ 1 \in DOMAIN s
      /\ \A i \in DOMAIN Tail(s) : i + 1 \in DOMAIN s /\ Tail(s)[i] = s[i + 1]
      /\ \A i \in DOMAIN s : i # 1 => i - 1 \in DOMAIN Tail(s) /\ Tail(s)[i - 1] = s[i]
  OBVIOUS
<1>2. ASSUME NEW t
      PROVE  Comes(s, t) <=> Head(s).t = t \/ Comes(Tail(s), t)
  <2>1. ASSUME NEW i \in DOMAIN s, s[i].t = t
        PROVE  Head(s).t = t \/ Comes(Tail(s), t)
    BY <1>1, <2>1 DEF Comes
  <2> QED
    BY <1>1, <2>1 DEF Comes
<1>3. ASSUME NEW i \in DOMAIN s, s[i].t = "reactivate" \/ (s[i].t = "list" /\ s[i].act # 0)
      PROVE  \/ Notices(Tail(s)) \/ Head(s).t = "reactivate"
             \/ (Head(s).t = "list" /\ Head(s).act # 0)
  BY <1>1, <1>3 DEF Notices
<1> QED
  BY <1>1, <1>2, <1>3 DEF Notices

(* Nothing on its way.                                                     *)
LEMMA NothingComes ==
    ASSUME NEW t, NEW k, NEW c, Told(<<>>, t, k, c)
    PROVE  k = c
BY DEF Told

-----------------------------------------------------------------------------
(* What the operators leave alone                                          *)

(* The operators of the radio leave the hotspot alone, ...                 *)
RadioKinds == {"state", "flight", "added", "removed"}
KeptHotspot(w, v) ==
    /\ w \in Worlds /\ v \in Worlds
    /\ v.hs.enabled = w.hs.enabled /\ v.hs.disconnectWifi = w.hs.disconnectWifi
    /\ v.hs.stored = w.hs.stored /\ v.hs.hotspot = w.hs.hotspot /\ v.hs.uuid = w.hs.uuid
    /\ v.hs.hook = w.hs.hook /\ v.hs.listed = w.hs.listed
    /\ LinksTold(w) => LinksTold(v)
    /\ v.nm.conns = w.nm.conns /\ v.nm.act = w.nm.act /\ v.nm.conn = w.nm.conn
    /\ Grows(w.sig, v.sig, RadioKinds)

(* ... and those of the hotspot leave the radio alone.                     *)
KeptRadio(w, v) ==
    /\ w \in Worlds /\ v \in Worlds
    /\ v.hs.kill = w.hs.kill /\ v.hs.flightMode = w.hs.flightMode
    /\ v.hs.wifiEnabled = w.hs.wifiEnabled
    /\ v.nm.kill = w.nm.kill /\ v.nm.flight = w.nm.flight /\ v.nm.wireless = w.nm.wireless
    /\ Grows(w.sig, v.sig, {"list"})

(* The parts of a world.                                                   *)
LEMMA Parts ==
    ASSUME NEW w \in Worlds
    PROVE  /\ w.hs \in Services /\ w.nm \in Networks /\ w.sig \in Seq(Signals)
           /\ w = [hs |-> w.hs, nm |-> w.nm, sig |-> w.sig]
BY DEF Worlds

(* Sending a signal.                                                       *)
LEMMA SentParts ==
    ASSUME NEW w \in Worlds, NEW s \in Signals
    PROVE  /\ Sent(w, s) \in Worlds
           /\ Sent(w, s).hs = w.hs /\ Sent(w, s).nm = w.nm
           /\ Sent(w, s).sig = Append(w.sig, s)
BY DEF Sent, Worlds

(* The signals there are.                                                  *)
LEMMA SignalTypes ==
    /\ [t |-> "state"] \in Signals /\ [t |-> "reactivate"] \in Signals
    /\ \A on \in BOOLEAN : [t |-> "flight", on |-> on] \in Signals
    /\ \A a \in Nat, o \in BOOLEAN : [t |-> "list", act |-> a, other |-> o] \in Signals
    /\ \A d \in Devices : [t |-> "added", dev |-> d] \in Signals
    /\ \A d \in Devices : [t |-> "removed", dev |-> d] \in Signals
BY DEF Signals

(* The hotspot's part of the invariant is about what the radio's operators *)
(* keep.                                                                   *)
LEMMA KeptHotspotInv ==
    ASSUME NEW w, NEW v, KeptHotspot(w, v), HotspotInv(w)
    PROVE  HotspotInv(v)
<1>1. w.sig \in Seq(Signals) /\ v.sig \in Seq(Signals)
  BY DEF KeptHotspot, Worlds
<1>2. Told(v.sig, "list", v.hs.listed.act, v.nm.act)
  BY <1>1, GrowsTold DEF KeptHotspot, RadioKinds, HotspotInv, ActiveInv
<1>3. ActiveInv(v)
  BY <1>2 DEF KeptHotspot, HotspotInv, ActiveInv
<1>4. ConnInv(v)
  BY DEF KeptHotspot, HotspotInv, ConnInv, Stored
<1>5. EnabledInv(v)
  BY DEF KeptHotspot, HotspotInv, EnabledInv
<1> QED
  BY <1>3, <1>4, <1>5 DEF HotspotInv

(* So is the wish for the hotspot.                                         *)
LEMMA KeptHotspotWish ==
    ASSUME NEW w, NEW v, KeptHotspot(w, v), NEW wanted, HotspotWish(w, wanted)
    PROVE  HotspotWish(v, wanted)
<1>1. w.sig \in Seq(Signals) /\ v.sig \in Seq(Signals) /\ Grows(w.sig, v.sig, RadioKinds)
  BY DEF KeptHotspot, Worlds
<1>2. Comes(v.sig, "reactivate") <=> Comes(w.sig, "reactivate")
  BY <1>1, GrowsComes DEF RadioKinds
<1>3. Notices(w.sig) => Notices(v.sig)
  BY <1>1, GrowsNotices
<1>4. On(w) => On(v)
  BY <1>3 DEF On, KeptHotspot, Stored
<1>5. Off(w) => Off(v)
  BY <1>2 DEF Off, KeptHotspot
<1> QED
  BY <1>4, <1>5 DEF HotspotWish

(* One after the other.                                                    *)
LEMMA KeptHotspotTrans ==
    ASSUME NEW w, NEW v, NEW u, KeptHotspot(w, v), KeptHotspot(v, u)
    PROVE  KeptHotspot(w, u)
<1>1. w.sig \in Seq(Signals) /\ v.sig \in Seq(Signals) /\ u.sig \in Seq(Signals)
  BY DEF KeptHotspot, Worlds
<1>2. Grows(w.sig, u.sig, RadioKinds)
  BY <1>1, GrowsTrans DEF KeptHotspot
<1> QED
  BY <1>2 DEF KeptHotspot

(* One after the other, for what leaves the radio alone.                   *)
LEMMA KeptRadioTrans ==
    ASSUME NEW w, NEW v, NEW u, KeptRadio(w, v), KeptRadio(v, u)
    PROVE  KeptRadio(w, u)
<1>1. w.sig \in Seq(Signals) /\ v.sig \in Seq(Signals) /\ u.sig \in Seq(Signals)
  BY DEF KeptRadio, Worlds
<1>2. Grows(w.sig, u.sig, {"list"})
  BY <1>1, GrowsTrans DEF KeptRadio
<1> QED
  BY <1>2 DEF KeptRadio

(* The radio's part of the invariant is about what the hotspot's operators *)
(* keep, and so are the wishes for it.                                     *)
LEMMA KeptRadioInv ==
    ASSUME NEW w, NEW v, KeptRadio(w, v)
    PROVE  /\ RadioInv(w) => RadioInv(v)
           /\ \A wanted : WifiWish(w, wanted) => WifiWish(v, wanted)
           /\ \A wanted : FlightWish(w, wanted) => FlightWish(v, wanted)
<1>1. w.sig \in Seq(Signals) /\ v.sig \in Seq(Signals) /\ Grows(w.sig, v.sig, {"list"})
  BY DEF KeptRadio, Worlds
<1>2. Told(w.sig, "flight", w.hs.flightMode, w.nm.flight)
        => Told(v.sig, "flight", v.hs.flightMode, v.nm.flight)
  BY <1>1, GrowsTold DEF KeptRadio
<1>3. Comes(w.sig, "state") => Comes(v.sig, "state")
  BY <1>1, GrowsComes
<1>4. RadioInv(w) => RadioInv(v)
  BY <1>2, <1>3 DEF RadioInv, KeptRadio
<1>5. ASSUME NEW wanted
      PROVE  /\ WifiWish(w, wanted) => WifiWish(v, wanted)
             /\ FlightWish(w, wanted) => FlightWish(v, wanted)
  BY DEF KeptRadio, WifiWish, FlightWish
<1> QED
  BY <1>4, <1>5

-----------------------------------------------------------------------------
(* The radio's operators                                                   *)

(* Block() of urfkill.                                                     *)
LEMMA BlockedParts ==
    ASSUME NEW w \in Worlds, NEW block \in BOOLEAN
    PROVE  LET v == Blocked(w, block)
           IN  /\ v \in Worlds /\ v.hs = w.hs
               /\ v.nm.kill = IF w.nm.kill = "hard_blocked" THEN w.nm.kill
                              ELSE IF block THEN "soft_blocked" ELSE "unblocked"
               /\ v.nm.flight = w.nm.flight /\ v.nm.wireless = w.nm.wireless
               /\ v.nm.conns = w.nm.conns /\ v.nm.act = w.nm.act /\ v.nm.conn = w.nm.conn
               /\ v.sig = IF w.nm.kill = "hard_blocked" THEN w.sig
                          ELSE Append(w.sig, [t |-> "state"])
<1> DEFINE k == IF block THEN "soft_blocked" ELSE "unblocked"
           a == [w EXCEPT !.nm.kill = k]
<1>1. /\ a \in Worlds /\ a.hs = w.hs /\ a.sig = w.sig /\ a.nm.kill = k
      /\ a.nm.flight = w.nm.flight /\ a.nm.wireless = w.nm.wireless
      /\ a.nm.conns = w.nm.conns /\ a.nm.act = w.nm.act /\ a.nm.conn = w.nm.conn
  BY DEF Worlds, Networks, KillStates
<1>2. Blocked(w, block) = IF w.nm.kill = "hard_blocked" THEN w ELSE Sent(a, [t |-> "state"])
  BY DEF Blocked
<1> HIDE DEF a
<1>3. LET v == Sent(a, [t |-> "state"])
      IN  v \in Worlds /\ v.hs = a.hs /\ v.nm = a.nm /\ v.sig = Append(a.sig, [t |-> "state"])
  BY <1>1, SentParts, SignalTypes
<1> QED
  BY <1>1, <1>2, <1>3

(* Block() of urfkill is a matter of the radio, which it tells about.      *)
LEMMA BlockedKept ==
    ASSUME NEW w \in Worlds, NEW block \in BOOLEAN
    PROVE  /\ KeptHotspot(w, Blocked(w, block))
           /\ RadioInv(w) => RadioInv(Blocked(w, block))
<1> DEFINE v == Blocked(w, block)
           s == [t |-> "state"]
<1>1. /\ v \in Worlds /\ v.hs = w.hs /\ v.sig \in Seq(Signals) /\ w.sig \in Seq(Signals)
      /\ v.nm.flight = w.nm.flight
      /\ v.nm.conns = w.nm.conns /\ v.nm.act = w.nm.act /\ v.nm.conn = w.nm.conn
      /\ v.sig = IF w.nm.kill = "hard_blocked" THEN w.sig ELSE Append(w.sig, s)
      /\ w.nm.kill = "hard_blocked" => v.nm.kill = w.nm.kill
  BY BlockedParts, Parts
<1> HIDE DEF v
<1>2. s \in Signals /\ s.t \in {"state"}
  BY SignalTypes
<1>3. Grows(w.sig, v.sig, {"state"}) /\ (w.nm.kill # "hard_blocked" => Comes(v.sig, "state"))
  <2>1. CASE w.nm.kill = "hard_blocked"
    BY <1>1, <2>1, GrowsRefl
  <2>2. CASE w.nm.kill # "hard_blocked"
    <3>1. Grows(w.sig, Append(w.sig, s), {"state"})
      BY <1>1, <1>2, GrowsAppend
    <3>2. Len(w.sig) + 1 \in DOMAIN v.sig /\ v.sig[Len(w.sig) + 1] = s
      BY <1>1, <1>2, <2>2
    <3> QED
      BY <1>1, <2>2, <3>1, <3>2 DEF Comes
  <2> QED
    BY <2>1, <2>2
<1>4. Grows(w.sig, v.sig, RadioKinds)
  BY <1>1, <1>3, GrowsMore DEF RadioKinds
<1>5. KeptHotspot(w, v)
  BY <1>1, <1>4 DEF KeptHotspot, LinksTold
<1>6. ASSUME RadioInv(w)
      PROVE  RadioInv(v)
  <2>1. Told(v.sig, "flight", v.hs.flightMode, v.nm.flight)
    <3>1. Told(w.sig, "flight", v.hs.flightMode, v.nm.flight)
      BY <1>1, <1>6 DEF RadioInv
    <3>2. v.sig \in Seq(Signals) /\ w.sig \in Seq(Signals) /\ "flight" \notin {"state"}
      BY <1>1
    <3> QED
      BY <1>3, <3>1, <3>2, GrowsTold
  <2>2. Comes(w.sig, "state") => Comes(v.sig, "state")
    BY <1>1, <1>3, GrowsComes
  <2> QED
    BY <1>1, <1>3, <1>6, <2>1, <2>2 DEF RadioInv
<1> QED
  BY <1>5, <1>6 DEF v

(* Nothing changes the parts the hotspot's operators have in common.       *)
LEMMA KeptRefl ==
    ASSUME NEW w \in Worlds
    PROVE  KeptHotspot(w, w) /\ KeptRadio(w, w)
<1>1. w.sig \in Seq(Signals)
  BY Parts
<1>2. Grows(w.sig, w.sig, RadioKinds) /\ Grows(w.sig, w.sig, {"list"})
  BY <1>1, GrowsRefl
<1> QED
  BY <1>2 DEF KeptHotspot, KeptRadio

(* KillSwitch::setBlock() and the switch of NetworkManager.                *)
LEMMA SetBlockKept ==
    ASSUME NEW w \in Worlds, NEW block \in BOOLEAN, NEW ok \in BOOLEAN
    PROVE  LET v == setBlock(w, block, ok)
           IN  /\ KeptHotspot(w, v) /\ (RadioInv(w) => RadioInv(v))
               /\ v.hs = w.hs /\ v.nm.flight = w.nm.flight /\ v.nm.wireless = w.nm.wireless
               /\ ok /\ w.hs.kill = (IF block THEN "unblocked" ELSE "soft_blocked")
                     /\ w.nm.kill # "hard_blocked"
                  => v.nm.kill = IF block THEN "soft_blocked" ELSE "unblocked"
               /\ w.hs.kill # (IF block THEN "unblocked" ELSE "soft_blocked") => v = w
<1>1. CASE ok /\ w.hs.kill = (IF block THEN "unblocked" ELSE "soft_blocked")
  BY <1>1, BlockedParts, BlockedKept DEF setBlock
<1>2. CASE ~(ok /\ w.hs.kill = (IF block THEN "unblocked" ELSE "soft_blocked"))
  BY <1>2, KeptRefl DEF setBlock
<1> QED
  BY <1>1, <1>2

(* NetworkManager's switch for WiFi.                                       *)
LEMMA SetWirelessKept ==
    ASSUME NEW w \in Worlds, NEW on \in BOOLEAN
    PROVE  LET v == setWirelessEnabled(w, on)
           IN  /\ KeptHotspot(w, v) /\ (RadioInv(w) => RadioInv(v))
               /\ v.hs = w.hs /\ v.nm.flight = w.nm.flight /\ v.nm.wireless = on
               /\ v.nm.kill = w.nm.kill
<1> DEFINE v == setWirelessEnabled(w, on)
<1>1. /\ v \in Worlds /\ v.hs = w.hs /\ v.sig = w.sig /\ v.nm.kill = w.nm.kill
      /\ v.nm.flight = w.nm.flight /\ v.nm.wireless = on
      /\ v.nm.conns = w.nm.conns /\ v.nm.act = w.nm.act /\ v.nm.conn = w.nm.conn
  BY DEF setWirelessEnabled, Worlds, Networks
<1>2. Grows(w.sig, v.sig, RadioKinds)
  BY <1>1, Parts, GrowsRefl
<1> HIDE DEF v
<1>3. KeptHotspot(w, v)
  BY <1>1, <1>2 DEF KeptHotspot, LinksTold
<1>4. RadioInv(w) => RadioInv(v)
  BY <1>1 DEF RadioInv
<1> QED
  BY <1>1, <1>3, <1>4 DEF v

(* FlightMode() of urfkill: the change of flight mode, and then that of    *)
(* the state of the kill switch.                                           *)
FlightSent(w, on, kill) == Sent([w EXCEPT !.nm.flight = on, !.nm.kill = kill],
                                [t |-> "flight", on |-> on])

(* Flight mode changes and is told, with the kill switch.                  *)
LEMMA FlightSentKept ==
    ASSUME NEW w \in Worlds, NEW on \in BOOLEAN, NEW kill \in KillStates
    PROVE  LET v == FlightSent(w, on, kill)
           IN  /\ KeptHotspot(w, v) /\ v.hs = w.hs /\ v.nm.flight = on /\ v.nm.kill = kill
               /\ Told(v.sig, "flight", v.hs.flightMode, v.nm.flight)
               /\ Comes(w.sig, "state") => Comes(v.sig, "state")
<1> DEFINE a == [w EXCEPT !.nm.flight = on, !.nm.kill = kill]
           s == [t |-> "flight", on |-> on]
           v == FlightSent(w, on, kill)
<1>1. /\ a \in Worlds /\ a.hs = w.hs /\ a.sig = w.sig /\ a.nm.flight = on /\ a.nm.kill = kill
      /\ a.nm.conns = w.nm.conns /\ a.nm.act = w.nm.act /\ a.nm.conn = w.nm.conn
  BY DEF Worlds, Networks
<1>2. v = Sent(a, s)
  BY DEF FlightSent
<1> HIDE DEF a, v
<1>3. s \in Signals /\ s.t = "flight" /\ Value(s) = on
  BY SignalTypes DEF Value
<1>4. /\ v \in Worlds /\ v.hs = w.hs /\ v.nm.flight = on /\ v.nm.kill = kill
      /\ v.nm.conns = w.nm.conns /\ v.nm.act = w.nm.act /\ v.nm.conn = w.nm.conn
      /\ v.sig = Append(w.sig, s)
  BY <1>1, <1>2, <1>3, SentParts
<1>5. w.sig \in Seq(Signals)
  BY Parts
<1>6. Told(Append(w.sig, s), s.t, v.hs.flightMode, Value(s))
  BY <1>3, <1>5, AppendTold
<1>7. Grows(w.sig, Append(w.sig, s), {"flight"})
  BY <1>3, <1>5, GrowsAppend
<1>8. Append(w.sig, s) \in Seq(Signals)
  BY <1>3, <1>5
<1> HIDE DEF s
<1>9. Grows(w.sig, Append(w.sig, s), RadioKinds)
  <2>1. {"flight"} \subseteq RadioKinds
    BY DEF RadioKinds
  <2> QED
    BY <1>5, <1>7, <1>8, <2>1, GrowsMore
<1>10. Comes(w.sig, "state") => Comes(v.sig, "state")
  <2>1. PICK b : b = w.sig
    OBVIOUS
  <2>2. PICK u : u = v.sig
    OBVIOUS
  <2>3. Grows(b, u, {"flight"})
    BY <1>4, <1>7, <2>1, <2>2
  <2>4. Comes(b, "state") => Comes(u, "state")
    BY <2>3 DEF Grows, Comes
  <2> QED
    BY <2>1, <2>2, <2>4
<1>11. KeptHotspot(w, v)
  BY <1>4, <1>9 DEF KeptHotspot, LinksTold
<1> QED
  BY <1>3, <1>4, <1>6, <1>11, <1>10 DEF v

(* The state of the kill switch is told.                                   *)
LEMMA StateSentKept ==
    ASSUME NEW w \in Worlds, Told(w.sig, "flight", w.hs.flightMode, w.nm.flight)
    PROVE  LET v == Sent(w, [t |-> "state"])
           IN  /\ KeptHotspot(w, v) /\ v.hs = w.hs /\ v.nm = w.nm
               /\ Told(v.sig, "flight", v.hs.flightMode, v.nm.flight)
               /\ Comes(v.sig, "state")
<1> DEFINE s == [t |-> "state"]
           v == Sent(w, s)
<1>1. s \in Signals /\ s.t = "state"
  BY SignalTypes
<1>2. v \in Worlds /\ v.hs = w.hs /\ v.nm = w.nm /\ v.sig = Append(w.sig, s)
  BY <1>1, SentParts
<1>3. w.sig \in Seq(Signals)
  BY Parts
<1> HIDE DEF v, s
<1>4. v.sig \in Seq(Signals) /\ Grows(w.sig, v.sig, {"state"})
  BY <1>1, <1>2, <1>3, GrowsAppend
<1>5. Told(v.sig, "flight", w.hs.flightMode, w.nm.flight)
  BY <1>3, <1>4, GrowsTold
<1>6. Grows(w.sig, v.sig, RadioKinds)
  BY <1>3, <1>4, GrowsMore DEF RadioKinds
<1>7. Comes(v.sig, "state")
  <2>1. Len(w.sig) + 1 \in DOMAIN v.sig /\ v.sig[Len(w.sig) + 1] = s
    BY <1>1, <1>2, <1>3
  <2> QED
    BY <1>1, <2>1 DEF Comes
<1>8. KeptHotspot(w, v)
  BY <1>2, <1>6 DEF KeptHotspot, LinksTold
<1> QED
  BY <1>2, <1>5, <1>7, <1>8 DEF v, s

(* FlightMode() of urfkill is a matter of the radio.                       *)
LEMMA FlownKept ==
    ASSUME NEW w \in Worlds, NEW on \in BOOLEAN
    PROVE  LET v == Flown(w, on)
           IN  /\ KeptHotspot(w, v) /\ (RadioInv(w) => RadioInv(v))
               /\ v.hs = w.hs /\ v.nm.flight = on
<1> DEFINE kill == IF w.nm.kill \in {"not_available", "hard_blocked"} THEN w.nm.kill
                   ELSE IF on THEN "soft_blocked" ELSE "unblocked"
           f == FlightSent(w, on, kill)
           v == Flown(w, on)
<1>1. v = IF w.nm.flight = on THEN w
          ELSE IF kill = w.nm.kill THEN f ELSE Sent(f, [t |-> "state"])
  BY DEF Flown, FlightSent
<1>2. kill \in KillStates
  <2>1. w.nm.kill \in KillStates
    BY Parts DEF Networks
  <2> QED
    BY <2>1 DEF KillStates
<1> HIDE DEF kill, v
<1>3. /\ KeptHotspot(w, f) /\ f.hs = w.hs /\ f.nm.flight = on /\ f.nm.kill = kill
      /\ Told(f.sig, "flight", f.hs.flightMode, f.nm.flight)
      /\ Comes(w.sig, "state") => Comes(f.sig, "state")
  BY <1>2, FlightSentKept
<1> HIDE DEF f
<1>4. CASE w.nm.flight = on
  BY <1>1, <1>4, KeptRefl DEF v
<1>5. CASE w.nm.flight # on /\ kill = w.nm.kill
  <2>1. v = f
    BY <1>1, <1>5
  <2>2. RadioInv(w) => RadioInv(f)
    BY <1>3, <1>5 DEF RadioInv
  <2> QED
    BY <1>3, <2>1, <2>2 DEF v
<1>6. CASE w.nm.flight # on /\ kill # w.nm.kill
  <2> DEFINE g == Sent(f, [t |-> "state"])
  <2>1. v = g
    BY <1>1, <1>6
  <2>2. f \in Worlds
    BY <1>3 DEF KeptHotspot
  <2>3. /\ KeptHotspot(f, g) /\ g.hs = f.hs /\ g.nm = f.nm
        /\ Told(g.sig, "flight", g.hs.flightMode, g.nm.flight)
        /\ Comes(g.sig, "state")
    BY <1>3, <2>2, StateSentKept
  <2> HIDE DEF g
  <2>4. KeptHotspot(w, g)
    BY <1>3, <2>3, KeptHotspotTrans
  <2>5. RadioInv(w) => RadioInv(g)
    BY <1>3, <2>3 DEF RadioInv
  <2> QED
    BY <1>3, <2>1, <2>3, <2>4, <2>5 DEF v
<1> QED
  BY <1>4, <1>5, <1>6

(* KillSwitch::flightMode()                                                *)
LEMMA FlightModeKept ==
    ASSUME NEW w \in Worlds, NEW on \in BOOLEAN, NEW ok \in BOOLEAN
    PROVE  LET v == flightMode(w, on, ok)
           IN  /\ KeptHotspot(w, v) /\ (RadioInv(w) => RadioInv(v))
               /\ v.hs = w.hs /\ (ok => v.nm.flight = on)
BY FlownKept, KeptRefl DEF flightMode

-----------------------------------------------------------------------------
(* NetworkManager's active connection                                      *)

(* The least of some numbers.                                              *)
LEMMA Least ==
    ASSUME NEW S, S \subseteq Nat, S # {}
    PROVE  \E x \in S : \A y \in S : x <= y
<1>1. PICK x \in S : \A y \in S : <<y, x>> \notin OpToRel(<, Nat)
  BY NatLessThanWellFounded, WFMin
<1>2. \A y \in S : x \in Nat /\ y \in Nat /\ ~(y < x)
  BY <1>1 DEF OpToRel
<1>3. \A y \in S : x <= y
  BY <1>2
<1> QED
  BY <1>3

(* Only so many paths are known.                                           *)
LEMMA UsedFinite ==
    ASSUME NEW w \in Worlds
    PROVE  IsFiniteSet(Used(w))
<1> DEFINE I == {j \in DOMAIN w.sig : w.sig[j].t = "list"}
           T == {w.sig[i].act : i \in I}
           f == [i \in I |-> w.sig[i].act]
<1>1. IsFiniteSet(I)
  <2>1. Len(w.sig) \in Nat /\ DOMAIN w.sig = 1 .. Len(w.sig)
    BY Parts
  <2>2. IsFiniteSet(1 .. Len(w.sig))
    BY <2>1, FS_Interval
  <2>3. I \in SUBSET (1 .. Len(w.sig))
    BY <2>1
  <2> QED
    BY <2>2, <2>3, FS_Subset
<1>2. f \in Surjection(I, T)
  BY DEF Surjection
<1>3. IsFiniteSet(T)
  BY <1>1, <1>2, FS_Surjection
<1>4. Used(w) = (T \cup {w.nm.act}) \cup {w.hs.listed.act}
  BY DEF Used
<1> HIDE DEF T
<1>5. IsFiniteSet(T \cup {w.nm.act})
  BY <1>3, FS_AddElement, Zenon
<1>6. IsFiniteSet((T \cup {w.nm.act}) \cup {w.hs.listed.act})
  BY <1>5, FS_AddElement, Zenon
<1> QED
  BY <1>4, <1>6

(* There is a fresh path, and it is known to nobody.                       *)
LEMMA FreshIsNew ==
    ASSUME NEW w \in Worlds
    PROVE  Fresh(w) \in Nat \ {0} /\ Fresh(w) \notin Used(w)
<1> DEFINE U == Used(w)
           m == Cardinality(U) + 1
           S == (1 .. m) \ U
<1>1. IsFiniteSet(U) /\ Cardinality(U) \in Nat
  BY UsedFinite, FS_CardinalityType
<1>2. S # {}
  <2>1. SUFFICES ASSUME S = {}
                 PROVE  FALSE
    OBVIOUS
  <2>2. 1 .. m \in SUBSET U
    BY <2>1
  <2>3. Cardinality(1 .. m) <= Cardinality(U)
    BY <1>1, <2>2, FS_Subset
  <2>4. Cardinality(1 .. m) = m
    BY <1>1, FS_Interval
  <2> QED
    BY <1>1, <2>3, <2>4
<1>3. S \subseteq Nat
  OBVIOUS
<1> HIDE DEF U
<1>4. PICK n \in S : \A y \in S : n <= y
  BY <1>2, <1>3, Least
<1>5. n \in 1 .. m /\ n \notin U /\ \A k \in 1 .. n - 1 : k \in U
  BY <1>1, <1>4
<1>6. Fresh(w) \in 1 .. m /\ Fresh(w) \notin U
  BY <1>5 DEF Fresh, U
<1> QED
  BY <1>1, <1>6 DEF U

(* NetworkManager tells of its list of active connections.                 *)
LEMMA ListParts ==
    ASSUME NEW w \in Worlds
    PROVE  LET v == List(w)
           IN  /\ v \in Worlds /\ v.hs = w.hs /\ v.nm = w.nm
               /\ Grows(w.sig, v.sig, {"list"})
               /\ \A k : Told(v.sig, "list", k, v.nm.act)
<1> DEFINE s == [t |-> "list", act |-> w.nm.act, other |-> w.nm.other]
           v == List(w)
<1>1. s \in Signals /\ s.t = "list" /\ Value(s) = w.nm.act
  BY Parts DEF Networks, Signals, Value
<1>2. v = Sent(w, s)
  BY DEF List
<1> HIDE DEF s, v
<1>3. v \in Worlds /\ v.hs = w.hs /\ v.nm = w.nm /\ v.sig = Append(w.sig, s)
  BY <1>1, <1>2, SentParts
<1>4. w.sig \in Seq(Signals)
  BY Parts
<1>5. Grows(w.sig, v.sig, {"list"})
  BY <1>1, <1>3, <1>4, GrowsAppend
<1>6. \A k : Told(v.sig, "list", k, v.nm.act)
  BY <1>1, <1>3, <1>4, AppendTold
<1> QED
  BY <1>3, <1>5, <1>6 DEF v

(* A connection becomes active, under a path that is new.                  *)
LEMMA ActivatedKept ==
    ASSUME NEW w \in Worlds, NEW c \in Nat
    PROVE  LET v == Activated(w, c)
           IN  /\ KeptRadio(w, v) /\ v.hs = w.hs /\ v.nm.conns = w.nm.conns
               /\ v.nm.act # 0 /\ v.nm.conn = c
               /\ ActiveInv(w) => ActiveInv(v)
<1> DEFINE a == [w EXCEPT !.nm.act = Fresh(w), !.nm.conn = c]
           v == Activated(w, c)
<1>1. Fresh(w) \in Nat \ {0} /\ Fresh(w) # w.hs.listed.act
  BY FreshIsNew DEF Used
<1>2. /\ a \in Worlds /\ a.hs = w.hs /\ a.sig = w.sig /\ a.nm.conns = w.nm.conns
      /\ a.nm.act = Fresh(w) /\ a.nm.conn = c
      /\ a.nm.kill = w.nm.kill /\ a.nm.flight = w.nm.flight /\ a.nm.wireless = w.nm.wireless
  BY <1>1 DEF Worlds, Networks
<1>3. v = List(a)
  BY DEF Activated
<1> HIDE DEF a, v
<1>4. /\ v \in Worlds /\ v.hs = a.hs /\ v.nm = a.nm /\ Grows(a.sig, v.sig, {"list"})
      /\ \A k : Told(v.sig, "list", k, v.nm.act)
  BY <1>2, <1>3, ListParts
<1>5. KeptRadio(w, v)
  BY <1>2, <1>4 DEF KeptRadio
<1>6. ActiveInv(w) => ActiveInv(v)
  BY <1>1, <1>2, <1>4 DEF ActiveInv, LinksTold
<1> QED
  BY <1>1, <1>2, <1>4, <1>5, <1>6 DEF v

(* Nothing is active any more.                                             *)
LEMMA DeactivatedKept ==
    ASSUME NEW w \in Worlds, w.nm.act = 0 => w.nm.conn = 0
    PROVE  LET v == Deactivated(w)
           IN  /\ KeptRadio(w, v) /\ v.hs = w.hs /\ v.nm.conns = w.nm.conns
               /\ v.nm.act = 0 /\ v.nm.conn = 0
               /\ ActiveInv(w) => ActiveInv(v)
<1> DEFINE a == [w EXCEPT !.nm.act = 0, !.nm.conn = 0]
           v == Deactivated(w)
<1>1. CASE w.nm.act = 0
  <2>1. v = w
    BY <1>1 DEF Deactivated
  <2> QED
    BY <1>1, <2>1, KeptRefl DEF v
<1>2. CASE w.nm.act # 0
  <2>1. /\ a \in Worlds /\ a.hs = w.hs /\ a.sig = w.sig /\ a.nm.conns = w.nm.conns
        /\ a.nm.act = 0 /\ a.nm.conn = 0
        /\ a.nm.kill = w.nm.kill /\ a.nm.flight = w.nm.flight /\ a.nm.wireless = w.nm.wireless
    BY DEF Worlds, Networks
  <2>2. v = List(a)
    BY <1>2 DEF Deactivated
  <2> HIDE DEF a, v
  <2>3. /\ v \in Worlds /\ v.hs = a.hs /\ v.nm = a.nm /\ Grows(a.sig, v.sig, {"list"})
        /\ \A k : Told(v.sig, "list", k, v.nm.act)
    BY <2>1, <2>2, ListParts
  <2>4. KeptRadio(w, v)
    BY <2>1, <2>3 DEF KeptRadio
  <2>5. ActiveInv(w) => ActiveInv(v)
    BY <2>1, <2>3 DEF ActiveInv, LinksTold
  <2> QED
    BY <2>1, <2>3, <2>4, <2>5 DEF v
<1> QED
  BY <1>1, <1>2

(* ActivateConnection() of the hotspot's connection.                       *)
LEMMA ActivateKept ==
    ASSUME NEW w \in Worlds, NEW outcome \in Outcomes, ActiveInv(w)
    PROVE  LET v == activateConnection(w, outcome)
           IN  /\ KeptRadio(w, v) /\ v.hs = w.hs /\ v.nm.conns = w.nm.conns
               /\ ActiveInv(v)
               /\ outcome # "refused" => (v.nm.act # 0 => v.nm.conn = w.hs.hotspot)
               /\ outcome = "refused" => v = w
               /\ outcome \in {"activated", "late"} => v.nm.act # 0
<1> DEFINE a == Activated(w, w.hs.hotspot)
<1>1. w.hs.hotspot \in Nat
  BY Parts DEF Services
<1>2. /\ KeptRadio(w, a) /\ a.hs = w.hs /\ a.nm.conns = w.nm.conns
      /\ a.nm.act # 0 /\ a.nm.conn = w.hs.hotspot /\ ActiveInv(a)
  BY <1>1, ActivatedKept
<1> HIDE DEF a
<1>3. CASE outcome = "refused"
  BY <1>3, KeptRefl DEF activateConnection
<1>4. CASE outcome = "failed"
  <2> DEFINE v == Deactivated(a)
  <2>1. a \in Worlds
    BY <1>2 DEF KeptRadio
  <2>2. /\ KeptRadio(a, v) /\ v.hs = a.hs /\ v.nm.conns = a.nm.conns
        /\ v.nm.act = 0 /\ v.nm.conn = 0 /\ ActiveInv(v)
    BY <1>2, <2>1, DeactivatedKept
  <2>3. activateConnection(w, outcome) = v
    BY <1>4 DEF activateConnection, a
  <2> HIDE DEF v
  <2>4. KeptRadio(w, v)
    BY <1>2, <2>2, KeptRadioTrans
  <2> QED
    BY <1>2, <1>4, <2>2, <2>3, <2>4
<1>5. CASE outcome \in {"activated", "late"}
  <2>1. activateConnection(w, outcome) = a
    BY <1>5 DEF activateConnection, a
  <2> QED
    BY <1>2, <1>5, <2>1
<1> QED
  BY <1>3, <1>4, <1>5 DEF Outcomes

-----------------------------------------------------------------------------
(* HotspotManager's operators                                              *)

(* What the hotspot is to NetworkManager and to the links, without what    *)
(* the manager has stored.                                                 *)
KeptActive(w, v) ==
    /\ v.nm.act = w.nm.act /\ v.nm.conn = w.nm.conn /\ v.sig = w.sig
    /\ v.hs.enabled = w.hs.enabled /\ v.hs.hook = w.hs.hook /\ v.hs.listed = w.hs.listed
    /\ v.hs.disconnectWifi = w.hs.disconnectWifi /\ v.hs.links = w.hs.links
KeptConn(w, v) ==
    /\ v.hs.stored = w.hs.stored /\ v.hs.hotspot = w.hs.hotspot /\ v.hs.uuid = w.hs.uuid
    /\ v.nm.conns = w.nm.conns

(* setDisconnectWifi() tells all links.                                    *)
LEMMA SetDisconnectKept ==
    ASSUME NEW w \in Worlds, NEW d \in BOOLEAN
    PROVE  LET v == setDisconnectWifi(w, d)
           IN  /\ KeptRadio(w, v) /\ KeptConn(w, v) /\ v.nm = w.nm /\ v.sig = w.sig
               /\ v.hs.enabled = w.hs.enabled /\ v.hs.hook = w.hs.hook
               /\ v.hs.listed = w.hs.listed /\ v.hs.set = w.hs.set
               /\ v.hs.disconnectWifi = d
               /\ ActiveInv(w) => ActiveInv(v)
<1> DEFINE ls == [e \in DOMAIN w.hs.links |->
                      IF w.hs.disconnectWifi = d THEN w.hs.links[e] ELSE d]
           v == setDisconnectWifi(w, d)
<1>1. w.hs.links \in Links
  BY Parts DEF Services
<1>2. PICK D \in SUBSET Devices : w.hs.links \in [D -> BOOLEAN]
  BY <1>1 DEF Links
<1>3. ls \in [D -> BOOLEAN] /\ DOMAIN ls = D /\ DOMAIN w.hs.links = D
  BY <1>2
<1>4. ls \in Links
  BY <1>2, <1>3 DEF Links
<1>5. (\A e \in DOMAIN w.hs.links : w.hs.links[e] = w.hs.disconnectWifi)
        => \A e \in DOMAIN ls : ls[e] = d
  BY <1>2, <1>3
<1>6. v = [w EXCEPT !.hs.disconnectWifi = d, !.hs.links = ls]
  BY DEF setDisconnectWifi, Worlds, Services
<1> HIDE DEF ls, v
<1>7. /\ v \in Worlds /\ v.nm = w.nm /\ v.sig = w.sig
      /\ v.hs.disconnectWifi = d /\ v.hs.links = ls
      /\ v.hs.enabled = w.hs.enabled /\ v.hs.hook = w.hs.hook
      /\ v.hs.listed = w.hs.listed /\ v.hs.set = w.hs.set
      /\ v.hs.stored = w.hs.stored /\ v.hs.hotspot = w.hs.hotspot /\ v.hs.uuid = w.hs.uuid
      /\ v.hs.kill = w.hs.kill /\ v.hs.flightMode = w.hs.flightMode
      /\ v.hs.wifiEnabled = w.hs.wifiEnabled
  BY <1>4, <1>6 DEF Worlds, Services
<1>8. w.sig \in Seq(Signals) /\ Grows(w.sig, w.sig, {"list"})
  BY Parts, GrowsRefl
<1>9. KeptRadio(w, v)
  BY <1>7, <1>8 DEF KeptRadio
<1>10. ActiveInv(w) => ActiveInv(v)
  BY <1>5, <1>7 DEF ActiveInv, LinksTold
<1> QED
  BY <1>7, <1>9, <1>10 DEF KeptConn, v

(* setEnable() concerns the service alone.                                 *)
LEMMA SetEnableKept ==
    ASSUME NEW w \in Worlds, NEW value \in BOOLEAN
    PROVE  LET v == setEnable(w, value)
           IN  /\ KeptRadio(w, v) /\ KeptConn(w, v) /\ v.nm = w.nm /\ v.sig = w.sig
               /\ v.hs.enabled = value /\ v.hs.hook = w.hs.hook
               /\ v.hs.listed = w.hs.listed
               /\ v.hs.disconnectWifi = w.hs.disconnectWifi /\ v.hs.links = w.hs.links
<1> DEFINE v == setEnable(w, value)
<1>1. /\ v \in Worlds /\ v.nm = w.nm /\ v.sig = w.sig
      /\ v.hs.enabled = value /\ v.hs.hook = w.hs.hook
      /\ v.hs.listed = w.hs.listed
      /\ v.hs.disconnectWifi = w.hs.disconnectWifi /\ v.hs.links = w.hs.links
      /\ v.hs.stored = w.hs.stored /\ v.hs.hotspot = w.hs.hotspot /\ v.hs.uuid = w.hs.uuid
      /\ v.hs.kill = w.hs.kill /\ v.hs.flightMode = w.hs.flightMode
      /\ v.hs.wifiEnabled = w.hs.wifiEnabled
  BY DEF setEnable, Worlds, Services
<1>2. w.sig \in Seq(Signals) /\ Grows(w.sig, w.sig, {"list"})
  BY Parts, GrowsRefl
<1> QED
  BY <1>1, <1>2 DEF KeptRadio, KeptConn

(* So does connecting and disconnecting the hook.                          *)
LEMMA SetHookKept ==
    ASSUME NEW w \in Worlds, NEW n \in Nat
    PROVE  LET v == [w EXCEPT !.hs.hook = n]
           IN  /\ KeptRadio(w, v) /\ KeptConn(w, v) /\ v.nm = w.nm /\ v.sig = w.sig
               /\ v.hs.enabled = w.hs.enabled /\ v.hs.hook = n
               /\ v.hs.listed = w.hs.listed
               /\ v.hs.disconnectWifi = w.hs.disconnectWifi /\ v.hs.links = w.hs.links
<1> DEFINE v == [w EXCEPT !.hs.hook = n]
<1>1. /\ v \in Worlds /\ v.nm = w.nm /\ v.sig = w.sig
      /\ v.hs.enabled = w.hs.enabled /\ v.hs.hook = n
      /\ v.hs.listed = w.hs.listed
      /\ v.hs.disconnectWifi = w.hs.disconnectWifi /\ v.hs.links = w.hs.links
      /\ v.hs.stored = w.hs.stored /\ v.hs.hotspot = w.hs.hotspot /\ v.hs.uuid = w.hs.uuid
      /\ v.hs.kill = w.hs.kill /\ v.hs.flightMode = w.hs.flightMode
      /\ v.hs.wifiEnabled = w.hs.wifiEnabled
  BY DEF Worlds, Services
<1>2. w.sig \in Seq(Signals) /\ Grows(w.sig, w.sig, {"list"})
  BY Parts, GrowsRefl
<1> QED
  BY <1>1, <1>2 DEF KeptRadio, KeptConn

(* So does looking for the device.                                         *)
LEMMA FindApKept ==
    ASSUME NEW w \in Worlds, NEW found \in BOOLEAN
    PROVE  LET v == findApDevice(w, found)
           IN  /\ KeptRadio(w, v) /\ KeptConn(w, v) /\ KeptActive(w, v) /\ v.hs.set = w.hs.set
<1> DEFINE v == findApDevice(w, found)
           d == IF found THEN Tether ELSE NoDevice
<1>1. d \in Devices \cup {NoDevice} /\ v = [w EXCEPT !.hs.device = d]
  BY TetherAssumption DEF findApDevice
<1> HIDE DEF d, v
<1>2. /\ v \in Worlds /\ v.nm = w.nm /\ v.sig = w.sig
      /\ v.hs.enabled = w.hs.enabled /\ v.hs.hook = w.hs.hook
      /\ v.hs.listed = w.hs.listed /\ v.hs.set = w.hs.set
      /\ v.hs.disconnectWifi = w.hs.disconnectWifi /\ v.hs.links = w.hs.links
      /\ v.hs.stored = w.hs.stored /\ v.hs.hotspot = w.hs.hotspot /\ v.hs.uuid = w.hs.uuid
      /\ v.hs.kill = w.hs.kill /\ v.hs.flightMode = w.hs.flightMode
      /\ v.hs.wifiEnabled = w.hs.wifiEnabled
  BY <1>1 DEF Worlds, Services
<1>3. w.sig \in Seq(Signals) /\ Grows(w.sig, w.sig, {"list"})
  BY Parts, GrowsRefl
<1> QED
  BY <1>2, <1>3 DEF KeptRadio, KeptConn, KeptActive, v

(* What an operator keeps of the hotspot's part of the invariant.          *)
LEMMA KeptPartsInv ==
    ASSUME NEW w, NEW v
    PROVE  /\ KeptConn(w, v) /\ ConnInv(w) => ConnInv(v)
           /\ KeptActive(w, v) /\ ActiveInv(w) => ActiveInv(v)
<1>1. KeptConn(w, v) /\ ConnInv(w) => ConnInv(v)
  BY DEF KeptConn, ConnInv, Stored
<1>2. KeptActive(w, v) /\ ActiveInv(w) => ActiveInv(v)
  BY DEF KeptActive, ActiveInv, LinksTold
<1> QED
  BY <1>1, <1>2

(* What is written of the settings.                                        *)
LEMMA ConnType ==
    ASSUME NEW s \in Named, NEW u \in Nat
    PROVE  createConnectionSettings(s, u) \in Conns
BY DEF Conns

(* A connection that is written is not a deleted one.                      *)
LEMMA ConnParts ==
    ASSUME NEW s, NEW u \in Nat
    PROVE  LET c == createConnectionSettings(s, u)
           IN  c.uuid = u /\ c.mode = s.mode /\ c # Gone
<1> DEFINE c == createConnectionSettings(s, u)
<1>1. c.uuid = u /\ c.mode = s.mode
  BY DEF createConnectionSettings
<1>2. "mode" \in DOMAIN c /\ "mode" \notin DOMAIN Gone
  BY DEF createConnectionSettings, Gone
<1> QED
  BY <1>1, <1>2

(* updateConnection() writes the connection that the manager knows.        *)
LEMMA UpdateKept ==
    ASSUME NEW w \in Worlds, w.hs.set \in Named, NEW ok \in BOOLEAN
    PROVE  LET v == updateConnection(w, ok)
           IN  /\ KeptRadio(w, v) /\ KeptActive(w, v) /\ v.hs = w.hs
               /\ ConnInv(w) => ConnInv(v)
<1> DEFINE c == w.hs.hotspot
           conn == createConnectionSettings(w.hs.set, w.hs.uuid)
           a == [w EXCEPT !.nm.conns[c] = conn]
           v == updateConnection(w, ok)
<1>1. CASE ~(ok /\ c \in Stored(w.nm) /\ w.nm.conns[c].uuid = w.hs.uuid)
  <2>1. v = w
    BY <1>1 DEF updateConnection
  <2> QED
    BY <2>1, KeptRefl DEF KeptActive, v
<1>2. CASE ok /\ c \in Stored(w.nm) /\ w.nm.conns[c].uuid = w.hs.uuid
  <2>1. v = a
    BY <1>2 DEF updateConnection
  <2>2. w.hs.uuid \in Nat /\ w.nm.conns \in Seq(Conns \cup {Gone}) /\ c \in DOMAIN w.nm.conns
    BY <1>2, Parts DEF Services, Networks, Stored
  <2>3. conn \in Conns /\ conn.uuid = w.hs.uuid
    BY <2>2, ConnType, ConnParts
  <2> HIDE DEF conn
  <2> DEFINE cs == [w.nm.conns EXCEPT ![c] = conn]
  <2>4. /\ cs \in Seq(Conns \cup {Gone}) /\ DOMAIN cs = DOMAIN w.nm.conns
        /\ \A i \in DOMAIN cs : cs[i] = IF i = c THEN conn ELSE w.nm.conns[i]
    BY <2>2, <2>3
  <2>5. a = [w EXCEPT !.nm.conns = cs]
    BY <2>2 DEF Worlds, Networks
  <2> HIDE DEF cs, a
  <2>6. /\ a \in Worlds /\ a.hs = w.hs /\ a.sig = w.sig /\ a.nm.conns = cs
        /\ a.nm.act = w.nm.act /\ a.nm.conn = w.nm.conn
        /\ a.nm.kill = w.nm.kill /\ a.nm.flight = w.nm.flight /\ a.nm.wireless = w.nm.wireless
    BY <2>4, <2>5 DEF Worlds, Networks
  <2>7. w.sig \in Seq(Signals) /\ Grows(w.sig, w.sig, {"list"})
    BY Parts, GrowsRefl
  <2>8. KeptRadio(w, a) /\ KeptActive(w, a)
    BY <2>6, <2>7 DEF KeptRadio, KeptActive
  <2>9. ConnInv(w) => ConnInv(a)
    <3>1. \A i \in Stored(a.nm) : i = c \/ (i \in Stored(w.nm) /\ a.nm.conns[i] = w.nm.conns[i])
      BY <2>4, <2>6 DEF Stored
    <3>2. a.nm.conns[c].uuid = w.hs.uuid
      BY <2>2, <2>3, <2>4, <2>6
    <3> QED
      BY <2>6, <3>1, <3>2 DEF ConnInv
  <2> QED
    BY <2>1, <2>6, <2>8, <2>9 DEF v
<1> QED
  BY <1>1, <1>2

(* addConnection() makes the connection that the manager knows.            *)
LEMMA AddKept ==
    ASSUME NEW w \in Worlds, w.hs.set \in Named, w.hs.hotspot = 0, NEW ok \in BOOLEAN
    PROVE  LET v == addConnection(w, ok)
           IN  /\ KeptRadio(w, v) /\ KeptActive(w, v)
               /\ ConnInv(w) => ConnInv(v)
<1> DEFINE n == Len(w.nm.conns) + 1
           uuid == IF w.hs.uuid = 0 THEN n ELSE w.hs.uuid
           conn == createConnectionSettings(w.hs.set, uuid)
           cs == Append(w.nm.conns, conn)
           a == [w EXCEPT !.hs.uuid = uuid, !.hs.stored = TRUE, !.hs.hotspot = n, !.nm.conns = cs]
           b == [w EXCEPT !.hs.uuid = uuid, !.hs.stored = FALSE, !.hs.hotspot = 0]
           v == addConnection(w, ok)
<1>1. v = IF ok THEN a ELSE b
  BY DEF addConnection
<1>2. /\ w.hs.uuid \in Nat /\ w.nm.conns \in Seq(Conns \cup {Gone})
      /\ w.sig \in Seq(Signals) /\ Grows(w.sig, w.sig, {"list"})
  BY Parts, GrowsRefl DEF Services, Networks
<1>3. n \in Nat \ {0} /\ uuid \in Nat
  BY <1>2
<1> HIDE DEF uuid
<1>4. conn \in Conns /\ conn.uuid = uuid
  BY <1>3, ConnType, ConnParts
<1> HIDE DEF conn
<1>c. cs = Append(w.nm.conns, conn) /\ n = Len(w.nm.conns) + 1
  OBVIOUS
<1> HIDE DEF n, cs, v, a, b
<1>5. /\ cs \in Seq(Conns \cup {Gone}) /\ DOMAIN cs = DOMAIN w.nm.conns \cup {n}
      /\ cs[n] = conn /\ \A i \in DOMAIN w.nm.conns : i # n /\ cs[i] = w.nm.conns[i]
  <2>1. PICK q : q = w.nm.conns
    OBVIOUS
  <2>2. q \in Seq(Conns \cup {Gone}) /\ cs = Append(q, conn) /\ n = Len(q) + 1
    BY <1>2, <1>c, <2>1
  <2>3. cs \in Seq(Conns \cup {Gone}) /\ Len(cs) = n /\ cs[n] = conn
    BY <1>4, <2>2
  <2>4. \A i \in DOMAIN q : i # n /\ cs[i] = q[i]
    BY <1>4, <2>2
  <2>5. DOMAIN cs = DOMAIN q \cup {n}
    BY <2>2, <2>3
  <2> QED
    BY <2>1, <2>3, <2>4, <2>5
<1> USE DEF a, b
<1> HIDE DEF n, cs, v
<1>6. CASE ok
  <2>1. /\ a \in Worlds /\ a.sig = w.sig /\ a.nm.conns = cs
        /\ a.nm.act = w.nm.act /\ a.nm.conn = w.nm.conn
        /\ a.nm.kill = w.nm.kill /\ a.nm.flight = w.nm.flight /\ a.nm.wireless = w.nm.wireless
        /\ a.hs.enabled = w.hs.enabled /\ a.hs.hook = w.hs.hook
        /\ a.hs.listed = w.hs.listed
        /\ a.hs.disconnectWifi = w.hs.disconnectWifi /\ a.hs.links = w.hs.links
        /\ a.hs.stored = TRUE /\ a.hs.hotspot = n /\ a.hs.uuid = uuid
        /\ a.hs.kill = w.hs.kill /\ a.hs.flightMode = w.hs.flightMode
        /\ a.hs.wifiEnabled = w.hs.wifiEnabled
    BY <1>3, <1>5 DEF Worlds, Services, Networks
  <2> HIDE DEF a
  <2>2. KeptRadio(w, a) /\ KeptActive(w, a)
    BY <1>2, <2>1 DEF KeptRadio, KeptActive
  <2>3. ASSUME ConnInv(w)
        PROVE  ConnInv(a)
    <3>1. \A c \in Stored(a.nm) : c = n \/ (c \in Stored(w.nm) /\ a.nm.conns[c] = w.nm.conns[c])
      BY <1>5, <2>1 DEF Stored
    <3>2. \A c \in Stored(w.nm) : c # 0
      BY <1>2 DEF Stored
    <3>3. a.nm.conns[n].uuid = uuid
      BY <1>4, <1>5, <2>1
    <3> QED
      BY <1>3, <2>1, <2>3, <3>1, <3>2, <3>3 DEF ConnInv
  <2> QED
    BY <1>1, <1>6, <2>2, <2>3 DEF v
<1>7. CASE ~ok
  <2>1. /\ b \in Worlds /\ b.sig = w.sig /\ b.nm = w.nm
        /\ b.hs.enabled = w.hs.enabled /\ b.hs.hook = w.hs.hook
        /\ b.hs.listed = w.hs.listed
        /\ b.hs.disconnectWifi = w.hs.disconnectWifi /\ b.hs.links = w.hs.links
        /\ b.hs.stored = FALSE /\ b.hs.hotspot = 0 /\ b.hs.uuid = uuid
        /\ b.hs.kill = w.hs.kill /\ b.hs.flightMode = w.hs.flightMode
        /\ b.hs.wifiEnabled = w.hs.wifiEnabled
    BY <1>3 DEF Worlds, Services
  <2> HIDE DEF b
  <2>2. KeptRadio(w, b) /\ KeptActive(w, b)
    BY <1>2, <2>1 DEF KeptRadio, KeptActive
  <2>3. ASSUME ConnInv(w)
        PROVE  ConnInv(b)
    <3>1. \A c \in Stored(w.nm) : c # 0
      BY <1>2 DEF Stored
    <3> QED
      BY <2>1, <2>3, <3>1 DEF ConnInv
  <2> QED
    BY <1>1, <1>7, <2>2, <2>3 DEF v
<1> QED
  BY <1>6, <1>7

(* enable() puts the hotspot on the air if it says so.                     *)
LEMMA EnableKept ==
    ASSUME NEW w \in Worlds, NEW outcome \in Outcomes, ConnInv(w), ActiveInv(w),
           w.hs.disconnectWifi, ~w.hs.enabled
    PROVE  LET v == enable(w, outcome)
           IN  /\ KeptRadio(w, v) /\ HotspotInv(v)
               /\ v.hs.enabled => outcome = "activated" /\ v.hs.hook # 0 /\ v.nm.act # 0
<1> DEFINE success == outcome = "activated"
           b == activateConnection(w, outcome)
           a == setEnable(b, success)
           v == enable(w, outcome)
<1>1. CASE w.hs.hotspot = 0
  <2>1. v = w
    BY <1>1 DEF enable
  <2>2. HotspotInv(w)
    BY DEF HotspotInv, EnabledInv
  <2> QED
    BY <2>1, <2>2, KeptRefl
<1>2. CASE w.hs.hotspot # 0
  <2>1. v = IF success THEN [a EXCEPT !.hs.hook = a.hs.hook + 1] ELSE a
    BY <1>2 DEF enable
  <2>2. /\ KeptRadio(w, b) /\ b.hs = w.hs /\ b.nm.conns = w.nm.conns
        /\ ActiveInv(b)
        /\ success => b.nm.act # 0 /\ b.nm.conn = w.hs.hotspot
    BY ActivateKept
  <2>3. b \in Worlds /\ success \in BOOLEAN
    BY <2>2 DEF KeptRadio
  <2> HIDE DEF b, success, v
  <2>4. /\ KeptRadio(b, a) /\ KeptConn(b, a) /\ a.nm = b.nm /\ a.sig = b.sig
        /\ a.hs.enabled = success /\ a.hs.hook = b.hs.hook
        /\ a.hs.listed = b.hs.listed
        /\ a.hs.disconnectWifi = b.hs.disconnectWifi /\ a.hs.links = b.hs.links
    BY <2>3, SetEnableKept
  <2> HIDE DEF a
  <2>5. KeptRadio(w, a) /\ a \in Worlds
    BY <2>2, <2>4, KeptRadioTrans DEF KeptRadio
  <2>6. KeptConn(w, a) /\ ConnInv(a)
    BY <2>2, <2>4, KeptPartsInv DEF KeptConn
  <2>7. ActiveInv(a)
    BY <2>2, <2>4 DEF ActiveInv, LinksTold
  <2>8. CASE ~success
    <3>1. HotspotInv(a)
      BY <2>4, <2>6, <2>7, <2>8 DEF HotspotInv, EnabledInv
    <3> QED
      BY <2>1, <2>4, <2>5, <2>8, <3>1 DEF v
  <2>9. CASE success
    <3> DEFINE c == [a EXCEPT !.hs.hook = a.hs.hook + 1]
    <3>1. a.hs.hook \in Nat
      BY <2>5, Parts DEF Services
    <3>2. /\ KeptRadio(a, c) /\ KeptConn(a, c) /\ c.nm = a.nm /\ c.sig = a.sig
          /\ c.hs.enabled = a.hs.enabled /\ c.hs.hook = a.hs.hook + 1
          /\ c.hs.listed = a.hs.listed
          /\ c.hs.disconnectWifi = a.hs.disconnectWifi /\ c.hs.links = a.hs.links
      <4>1. a.hs.hook + 1 \in Nat
        BY <3>1
      <4> QED
        BY <2>5, <4>1, SetHookKept
    <3> HIDE DEF c
    <3>3. KeptRadio(w, c) /\ ConnInv(c)
      BY <2>5, <2>6, <3>2, KeptRadioTrans, KeptPartsInv
    <3>4. ActiveInv(c)
      BY <2>7, <3>2 DEF ActiveInv, LinksTold
    <3>5. EnabledInv(c)
      BY <1>2, <2>2, <2>4, <2>6, <3>2 DEF EnabledInv, KeptConn
    <3>6. c.hs.hook # 0 /\ c.nm.act # 0
      BY <2>2, <2>4, <2>9, <3>1, <3>2
    <3>7. v = c
      BY <2>1, <2>9 DEF c
    <3> QED
      BY <2>9, <3>3, <3>4, <3>5, <3>6, <3>7 DEF HotspotInv, v, success
  <2> QED
    BY <2>8, <2>9
<1> QED
  BY <1>1, <1>2

(* disable() takes it off the air, and nothing brings it back.             *)
LEMMA DisableKept ==
    ASSUME NEW w \in Worlds, HotspotInv(w)
    PROVE  LET v == disable(w)
           IN  /\ KeptRadio(w, v) /\ ConnInv(v) /\ ActiveInv(v)
               /\ ~v.hs.enabled /\ v.hs.hook = 0
               /\ w.sig = <<>> /\ w.hs.enabled => v.nm.act = 0
<1> DEFINE a == [w EXCEPT !.hs.hook = 0]
           off == getActiveConnection(a.hs) # 0 /\ getActiveConnection(a.hs) = a.nm.act
           b == IF off THEN Deactivated(a) ELSE a
           v == disable(w)
<1>1. v = setEnable(b, FALSE)
  BY DEF disable
<1>2. /\ KeptRadio(w, a) /\ KeptConn(w, a) /\ a.nm = w.nm /\ a.sig = w.sig
      /\ a.hs.hook = 0 /\ a.hs.listed = w.hs.listed
      /\ a.hs.disconnectWifi = w.hs.disconnectWifi /\ a.hs.links = w.hs.links
  BY SetHookKept
<1>3. a \in Worlds /\ ConnInv(a) /\ ActiveInv(a)
  BY <1>2, KeptPartsInv DEF KeptRadio, HotspotInv, ActiveInv, LinksTold
<1>4. /\ KeptRadio(w, b) /\ b \in Worlds /\ ConnInv(b) /\ ActiveInv(b) /\ b.hs.hook = 0
      /\ off => b.nm.act = 0
  <2>1. CASE ~off
    BY <1>2, <1>3, <2>1
  <2>2. CASE off
    <3> DEFINE d == Deactivated(a)
    <3>1. /\ KeptRadio(a, d) /\ d.hs = a.hs /\ d.nm.conns = a.nm.conns
          /\ d.nm.act = 0 /\ ActiveInv(d)
      BY <1>3, DeactivatedKept DEF ActiveInv
    <3>2. b = d
      BY <2>2
    <3> HIDE DEF d, a, b
    <3>3. KeptRadio(w, d) /\ d \in Worlds /\ ConnInv(d)
      <4>1. KeptConn(a, d)
        BY <3>1 DEF KeptConn
      <4> QED
        BY <1>2, <1>3, <3>1, <4>1, KeptRadioTrans, KeptPartsInv DEF KeptRadio
    <3> QED
      BY <1>2, <3>1, <3>2, <3>3
  <2> QED
    BY <2>1, <2>2
<1>5. w.sig = <<>> /\ w.hs.enabled => b.nm.act = 0
  <2>1. SUFFICES ASSUME w.sig = <<>>, w.hs.enabled, ~off
                 PROVE  w.nm.act = 0
    BY <1>2, <1>4
  <2>2. w.hs.listed.act = w.nm.act
    BY <2>1, NothingComes DEF HotspotInv, ActiveInv
  <2>3. w.hs.listed.conn = w.nm.conn
    BY <2>2 DEF HotspotInv, ActiveInv
  <2>4. a.hs.hotspot = w.hs.hotspot /\ w.hs.hotspot # 0 /\ (w.nm.act # 0 => w.nm.conn = w.hs.hotspot)
    BY <1>2, <2>1 DEF HotspotInv, EnabledInv, KeptConn
  <2> HIDE DEF a
  <2>5. CASE w.nm.act # 0
    BY <1>2, <2>1, <2>2, <2>3, <2>4, <2>5 DEF getActiveConnection
  <2> QED
    BY <2>5
<1> HIDE DEF b, v
<1>6. /\ KeptRadio(b, v) /\ KeptConn(b, v) /\ v.nm = b.nm /\ v.sig = b.sig
      /\ v.hs.enabled = FALSE /\ v.hs.hook = b.hs.hook
      /\ v.hs.listed = b.hs.listed
      /\ v.hs.disconnectWifi = b.hs.disconnectWifi /\ v.hs.links = b.hs.links
  BY <1>1, <1>4, SetEnableKept
<1>7. KeptRadio(w, v) /\ ConnInv(v)
  BY <1>4, <1>6, KeptRadioTrans, KeptPartsInv
<1>8. ActiveInv(v)
  BY <1>4, <1>6 DEF ActiveInv, LinksTold
<1> QED
  BY <1>4, <1>5, <1>6, <1>7, <1>8 DEF v

(* setEnabled(true), whatever of it fails.                                 *)
LEMMA EnabledKept ==
    ASSUME NEW w \in Worlds, HotspotInv(w), ~w.hs.enabled,
           NEW found \in BOOLEAN, NEW ok \in BOOLEAN, NEW outcome \in Outcomes
    PROVE  LET v == Enabled(w, found, ok, outcome)
           IN  /\ KeptRadio(w, v) /\ HotspotInv(v)
               /\ v.hs.enabled => outcome = "activated" /\ v.hs.hook # 0 /\ v.nm.act # 0
<1> DEFINE a == setDisconnectWifi(w, TRUE)
           b == findApDevice(a, found)
           c == IF w.hs.stored THEN updateConnection(b, ok) ELSE addConnection(b, ok)
           v == Enabled(w, found, ok, outcome)
<1>1. \/ v = setEnable(w, FALSE)
      \/ v = setDisconnectWifi(b, FALSE)
      \/ v = enable(c, outcome) /\ w.hs.set \in Named
  <2>1. w.hs.set \in Settings
    BY Parts DEF Services
  <2> QED
    BY <2>1, Zenon DEF Enabled, createApDevice, Named
<1> HIDE DEF v
<1>2. /\ KeptRadio(w, a) /\ KeptConn(w, a) /\ a.hs.disconnectWifi /\ ~a.hs.enabled
      /\ a.hs.set = w.hs.set /\ a.hs.hook = w.hs.hook /\ ActiveInv(a)
  BY SetDisconnectKept DEF HotspotInv
<1>3. a \in Worlds /\ ConnInv(a)
  BY <1>2, KeptPartsInv DEF KeptRadio, HotspotInv
<1> HIDE DEF a
<1>4. KeptRadio(a, b) /\ KeptConn(a, b) /\ KeptActive(a, b) /\ b.hs.set = a.hs.set
  BY <1>3, FindApKept
<1> HIDE DEF b
<1>5. b \in Worlds /\ KeptRadio(w, b) /\ ConnInv(b) /\ ActiveInv(b)
  BY <1>2, <1>3, <1>4, KeptPartsInv, KeptRadioTrans DEF KeptRadio
<1>6. b.hs.disconnectWifi /\ ~b.hs.enabled
  BY <1>2, <1>4 DEF KeptActive
<1>7. CASE v = setEnable(w, FALSE)
  <2>1. /\ KeptRadio(w, v) /\ KeptConn(w, v) /\ v.nm = w.nm /\ v.sig = w.sig
        /\ v.hs.enabled = FALSE /\ v.hs.hook = w.hs.hook
        /\ v.hs.listed = w.hs.listed
        /\ v.hs.disconnectWifi = w.hs.disconnectWifi /\ v.hs.links = w.hs.links
    BY <1>7, SetEnableKept
  <2>2. ConnInv(v) /\ EnabledInv(v)
    BY <2>1, KeptPartsInv DEF HotspotInv, EnabledInv
  <2>3. ActiveInv(v)
    BY <2>1 DEF HotspotInv, ActiveInv, LinksTold
  <2> QED
    BY <2>1, <2>2, <2>3 DEF HotspotInv, v
<1>8. CASE v = setDisconnectWifi(b, FALSE)
  <2>1. /\ KeptRadio(b, v) /\ KeptConn(b, v) /\ v.hs.enabled = b.hs.enabled /\ ActiveInv(v)
    BY <1>5, <1>8, SetDisconnectKept
  <2>2. KeptRadio(w, v) /\ ConnInv(v) /\ EnabledInv(v)
    BY <1>5, <1>6, <2>1, KeptPartsInv, KeptRadioTrans DEF EnabledInv
  <2> QED
    BY <1>6, <2>1, <2>2 DEF HotspotInv, v
<1>9. CASE v = enable(c, outcome) /\ w.hs.set \in Named
  <2>1. b.hs.set \in Named
    BY <1>2, <1>4, <1>9
  <2>2. /\ KeptRadio(b, c) /\ ConnInv(c) /\ ActiveInv(c) /\ c.hs.disconnectWifi /\ ~c.hs.enabled
    <3>1. CASE w.hs.stored
      <4>1. /\ KeptRadio(b, c) /\ KeptActive(b, c) /\ ConnInv(c)
        BY <1>5, <2>1, <3>1, UpdateKept
      <4> QED
        BY <1>5, <1>6, <4>1, KeptPartsInv DEF KeptActive
    <3>2. CASE ~w.hs.stored
      <4>1. b.hs.hotspot = 0
        BY <1>2, <1>4, <3>2 DEF KeptConn, HotspotInv, ConnInv
      <4>2. /\ KeptRadio(b, c) /\ KeptActive(b, c) /\ ConnInv(c)
        BY <1>5, <2>1, <3>2, <4>1, AddKept
      <4> QED
        BY <1>5, <1>6, <4>2, KeptPartsInv DEF KeptActive
    <3> QED
      BY <3>1, <3>2
  <2> HIDE DEF c
  <2>3. c \in Worlds
    BY <2>2 DEF KeptRadio
  <2>4. /\ KeptRadio(c, v) /\ HotspotInv(v)
        /\ v.hs.enabled => outcome = "activated" /\ v.hs.hook # 0 /\ v.nm.act # 0
    BY <1>9, <2>2, <2>3, EnableKept
  <2>5. KeptRadio(w, v)
    BY <1>5, <2>2, <2>4, KeptRadioTrans
  <2> QED
    BY <2>4, <2>5 DEF v
<1> QED
  BY <1>1, <1>7, <1>8, <1>9

(* HotspotManager::setEnabled(): what was asked for is so.                 *)
LEMMA SetEnabledKept ==
    ASSUME NEW w \in Worlds, HotspotInv(w), NEW value \in BOOLEAN,
           NEW found \in BOOLEAN, NEW ok \in BOOLEAN, NEW outcome \in Outcomes
    PROVE  LET v == setEnabled(w, value, found, ok, outcome)
           IN  /\ KeptRadio(w, v) /\ HotspotInv(v)
               /\ ~w.hs.enabled /\ value /\ v.hs.enabled /\ Possible(v, outcome) => On(v)
               /\ w.hs.enabled /\ ~value /\ w.sig = <<>> => Off(v)
               /\ w.hs.enabled = value => v = w
<1> DEFINE v == setEnabled(w, value, found, ok, outcome)
<1>0. w.hs.enabled \in BOOLEAN
  BY Parts DEF Services
<1>1. CASE w.hs.enabled = value
  <2>1. v = w
    BY <1>1 DEF setEnabled
  <2> QED
    BY <1>1, <2>1, KeptRefl
<1>2. CASE ~w.hs.enabled /\ value
  <2>1. v = Enabled(w, found, ok, outcome)
    BY <1>0, <1>2 DEF setEnabled
  <2> HIDE DEF v
  <2>2. /\ KeptRadio(w, v) /\ HotspotInv(v)
        /\ v.hs.enabled => outcome = "activated" /\ v.hs.hook # 0 /\ v.nm.act # 0
    BY <1>2, <2>1, EnabledKept
  <2>3. v.hs.enabled /\ Possible(v, outcome) => On(v)
    BY <2>2 DEF Possible, On
  <2> QED
    BY <1>2, <2>2, <2>3 DEF v
<1>3. CASE w.hs.enabled /\ ~value
  <2> DEFINE d == disable(w)
  <2>1. v = setDisconnectWifi(d, FALSE)
    BY <1>0, <1>3 DEF setEnabled
  <2>2. /\ KeptRadio(w, d) /\ ConnInv(d) /\ ActiveInv(d)
        /\ ~d.hs.enabled /\ d.hs.hook = 0
        /\ w.sig = <<>> /\ w.hs.enabled => d.nm.act = 0
    BY DisableKept
  <2> HIDE DEF d, v
  <2>3. d \in Worlds
    BY <2>2 DEF KeptRadio
  <2>4. /\ KeptRadio(d, v) /\ KeptConn(d, v) /\ v.nm = d.nm /\ v.sig = d.sig
        /\ v.hs.enabled = d.hs.enabled /\ v.hs.hook = d.hs.hook
        /\ v.hs.disconnectWifi = FALSE /\ ActiveInv(v)
    BY <2>1, <2>2, <2>3, SetDisconnectKept
  <2>5. KeptRadio(w, v) /\ ConnInv(v) /\ EnabledInv(v)
    BY <2>2, <2>4, KeptPartsInv, KeptRadioTrans DEF EnabledInv
  <2>6. ASSUME w.sig = <<>>
        PROVE  Off(v)
    <3>1. v.sig \in Seq(Signals) /\ <<>> \in Seq(Signals) /\ Grows(<<>>, v.sig, {"list"})
      BY <2>5, <2>6 DEF KeptRadio, Worlds
    <3>2. ~Comes(<<>>, "reactivate")
      BY DEF Comes
    <3>3. ~Comes(v.sig, "reactivate")
      BY <3>1, <3>2, GrowsComes
    <3> QED
      BY <1>3, <2>2, <2>4, <2>6, <3>3 DEF Off
  <2> QED
    BY <1>3, <2>4, <2>5, <2>6 DEF HotspotInv, v
<1> QED
  BY <1>0, <1>1, <1>2, <1>3

-----------------------------------------------------------------------------
(* ManagerImpl: the three switches                                         *)

(* The parts of the invariant that an operator keeps.                      *)
LEMMA KeptWorldInv ==
    ASSUME NEW w, NEW v, WorldInv(w)
    PROVE  /\ KeptHotspot(w, v) /\ RadioInv(v) => WorldInv(v)
           /\ KeptRadio(w, v) /\ HotspotInv(v) => WorldInv(v)
<1>1. KeptHotspot(w, v) /\ RadioInv(v) => WorldInv(v)
  BY KeptHotspotInv DEF WorldInv, KeptHotspot
<1>2. KeptRadio(w, v) /\ HotspotInv(v) => WorldInv(v)
  BY KeptRadioInv DEF WorldInv, KeptRadio
<1> QED
  BY <1>1, <1>2

(* Unblocking or blocking, and telling NetworkManager: what was asked for  *)
(* on current information is so.                                           *)
LEMMA SwitchKept ==
    ASSUME NEW w, WorldInv(w), NEW on \in BOOLEAN, NEW ok \in BOOLEAN
    PROVE  LET v == setWirelessEnabled(setBlock(w, ~on, ok), on)
           IN  /\ KeptHotspot(w, v) /\ WorldInv(v) /\ v.hs = w.hs
               /\ v.nm.flight = w.nm.flight
               /\ w.hs.kill = w.nm.kill /\ ok /\ w.nm.kill # "hard_blocked"
                     /\ (w.hs.wifiEnabled <=> ~on)
                  => WifiWish(v, {on})
<1> DEFINE b == setBlock(w, ~on, ok)
           v == setWirelessEnabled(b, on)
<1>1. w \in Worlds /\ RadioInv(w) /\ (~on) \in BOOLEAN
  BY DEF WorldInv
<1>2. /\ KeptHotspot(w, b) /\ RadioInv(b)
      /\ b.hs = w.hs /\ b.nm.flight = w.nm.flight
      /\ ok /\ w.hs.kill = (IF ~on THEN "unblocked" ELSE "soft_blocked")
            /\ w.nm.kill # "hard_blocked"
         => b.nm.kill = IF ~on THEN "soft_blocked" ELSE "unblocked"
      /\ w.hs.kill # (IF ~on THEN "unblocked" ELSE "soft_blocked") => b = w
  BY <1>1, SetBlockKept
<1>3. b \in Worlds
  BY <1>2 DEF KeptHotspot
<1> HIDE DEF b
<1>4. /\ KeptHotspot(b, v) /\ RadioInv(v)
      /\ v.hs = b.hs /\ v.nm.flight = b.nm.flight /\ v.nm.wireless = on
      /\ v.nm.kill = b.nm.kill
  BY <1>2, <1>3, SetWirelessKept
<1> HIDE DEF v
<1>5. KeptHotspot(w, v)
  BY <1>2, <1>4, KeptHotspotTrans
<1>6. WorldInv(v)
  BY <1>4, <1>5, KeptWorldInv
<1>7. ASSUME w.hs.kill = w.nm.kill, ok, w.nm.kill # "hard_blocked", w.hs.wifiEnabled <=> ~on
      PROVE  v.nm.kill \in {"not_available", IF on THEN "unblocked" ELSE "soft_blocked"}
  <2>1. w.hs.kill \in KillStates
    BY <1>1, Parts DEF Services
  <2>2. CASE w.hs.kill = "not_available"
    BY <1>2, <1>4, <1>7, <2>2
  <2>3. CASE w.hs.kill # "not_available"
    <3>1. w.hs.wifiEnabled <=> w.hs.kill = "unblocked"
      BY <1>1, <2>3 DEF RadioInv
    <3>2. w.hs.kill = IF ~on THEN "unblocked" ELSE "soft_blocked"
      BY <1>7, <2>1, <2>3, <3>1 DEF KillStates
    <3> QED
      BY <1>2, <1>4, <1>7, <3>2
  <2> QED
    BY <2>2, <2>3
<1> QED
  BY <1>2, <1>4, <1>5, <1>6, <1>7 DEF WifiWish, v, b

(* Switching the hotspot off on the way to something else.                 *)
WantedOff(w, off, h) == IF off /\ w.hs.enabled THEN Expect(w.sig = <<>>, FALSE) ELSE h

(* A request that switches the hotspot off on its way: so it is.           *)
LEMMA OffOnTheWay ==
    ASSUME NEW w, WorldInv(w)
    PROVE  LET a == setEnabled(w, FALSE, TRUE, TRUE, "refused")
           IN  /\ KeptRadio(w, a) /\ WorldInv(a)
               /\ \A h : HotspotWish(w, h) => HotspotWish(a, WantedOff(w, TRUE, h))
<1> DEFINE a == setEnabled(w, FALSE, TRUE, TRUE, "refused")
<1>1. w \in Worlds /\ HotspotInv(w) /\ "refused" \in Outcomes /\ w.hs.enabled \in BOOLEAN
  BY Parts DEF WorldInv, Outcomes, Services
<1>2. /\ KeptRadio(w, a) /\ HotspotInv(a)
      /\ w.hs.enabled /\ w.sig = <<>> => Off(a)
      /\ w.hs.enabled = FALSE => a = w
  BY <1>1, SetEnabledKept
<1> HIDE DEF a
<1>3. ASSUME NEW h, HotspotWish(w, h)
      PROVE  HotspotWish(a, WantedOff(w, TRUE, h))
  <2>1. CASE w.hs.enabled
    BY <1>2, <2>1 DEF HotspotWish, WantedOff, Expect
  <2>2. CASE ~w.hs.enabled
    BY <1>1, <1>2, <1>3, <2>2 DEF WantedOff
  <2> QED
    BY <2>1, <2>2
<1>4. WorldInv(a)
  BY <1>2, KeptWorldInv
<1> QED
  BY <1>2, <1>3, <1>4 DEF a

(* ManagerImpl::setWifiEnabled()                                           *)
LEMMA SetWifiKept ==
    ASSUME NEW w, WorldInv(w), NEW enabled \in BOOLEAN, NEW ok \in BOOLEAN
    PROVE  LET v == setWifiEnabled(w, enabled, ok)
               off == ~enabled /\ w.hs.hasWifi /\ w.hs.wifiEnabled
           IN  /\ WorldInv(v) /\ v.nm.flight = w.nm.flight
               /\ w.sig = <<>> /\ ok /\ w.nm.kill # "hard_blocked" /\ w.hs.hasWifi
                  => WifiWish(v, {enabled})
               /\ \A h : HotspotWish(w, h) => HotspotWish(v, WantedOff(w, off, h))
<1> DEFINE a == IF ~enabled THEN setEnabled(w, FALSE, TRUE, TRUE, "refused") ELSE w
           off == ~enabled /\ w.hs.hasWifi /\ w.hs.wifiEnabled
           v == setWifiEnabled(w, enabled, ok)
<1>0. /\ w \in Worlds /\ RadioInv(w) /\ w.hs.hasWifi \in BOOLEAN /\ w.hs.wifiEnabled \in BOOLEAN
      /\ w.nm.kill \in KillStates
  BY Parts DEF WorldInv, Services, Networks
<1>1. w.sig = <<>> => w.hs.kill = w.nm.kill
  BY <1>0 DEF RadioInv, Comes
<1>2. CASE ~w.hs.hasWifi /\ ~enabled
  <2>1. v = w
    BY <1>2 DEF setWifiEnabled
  <2>2. \A h : WantedOff(w, off, h) = h
    BY <1>2 DEF WantedOff
  <2> QED
    BY <1>2, <2>1, <2>2
<1>3. CASE ~(~w.hs.hasWifi /\ ~enabled) /\ w.hs.wifiEnabled = enabled
  <2>1. v = setWirelessEnabled(w, enabled)
    BY <1>3 DEF setWifiEnabled
  <2> HIDE DEF v
  <2>2. /\ KeptHotspot(w, v) /\ RadioInv(v)
        /\ v.hs = w.hs /\ v.nm.flight = w.nm.flight /\ v.nm.wireless = enabled
        /\ v.nm.kill = w.nm.kill
    BY <1>0, <2>1, SetWirelessKept
  <2>3. WorldInv(v)
    BY <2>2, KeptWorldInv
  <2>4. ASSUME w.sig = <<>>, w.nm.kill # "hard_blocked"
        PROVE  w.nm.kill \in {"not_available", IF enabled THEN "unblocked" ELSE "soft_blocked"}
    BY <1>0, <1>1, <1>3, <2>4 DEF RadioInv, KillStates
  <2>5. \A h : HotspotWish(w, h) => HotspotWish(v, h)
    BY <2>2, KeptHotspotWish
  <2>6. \A h : WantedOff(w, off, h) = h
    BY <1>3 DEF WantedOff
  <2> QED
    BY <2>2, <2>3, <2>4, <2>5, <2>6 DEF WifiWish, v
<1>4. CASE ~(~w.hs.hasWifi /\ ~enabled) /\ w.hs.wifiEnabled # enabled
  <2>1. v = setWirelessEnabled(setBlock(a, ~enabled, ok), enabled)
    BY <1>4 DEF setWifiEnabled
  <2>2. /\ KeptRadio(w, a) /\ WorldInv(a)
        /\ \A h : HotspotWish(w, h) => HotspotWish(a, WantedOff(w, off, h))
    <3>1. CASE enabled
      <4>1. a = w /\ \A h : WantedOff(w, off, h) = h
        BY <3>1 DEF WantedOff
      <4> QED
        BY <1>0, <4>1, KeptRefl
    <3>2. CASE ~enabled
      <4>1. a = setEnabled(w, FALSE, TRUE, TRUE, "refused") /\ (off <=> TRUE)
        BY <1>0, <1>4, <3>2
      <4>2. \A h : WantedOff(w, off, h) = WantedOff(w, TRUE, h)
        BY <4>1 DEF WantedOff
      <4> HIDE DEF a, off
      <4> QED
        BY <4>1, <4>2, OffOnTheWay
    <3> QED
      BY <3>1, <3>2
  <2> HIDE DEF a, off, v
  <2>3. /\ KeptHotspot(a, v) /\ WorldInv(v) /\ v.hs = a.hs
        /\ v.nm.flight = a.nm.flight
        /\ a.hs.kill = a.nm.kill /\ ok /\ a.nm.kill # "hard_blocked"
              /\ (a.hs.wifiEnabled <=> ~enabled)
           => WifiWish(v, {enabled})
    BY <2>1, <2>2, SwitchKept
  <2>4. /\ a.hs.kill = w.hs.kill /\ a.nm.kill = w.nm.kill /\ a.nm.flight = w.nm.flight
        /\ a.hs.wifiEnabled = w.hs.wifiEnabled
    BY <2>2 DEF KeptRadio
  <2>5. w.sig = <<>> /\ ok /\ w.nm.kill # "hard_blocked" => WifiWish(v, {enabled})
    BY <1>0, <1>1, <1>4, <2>3, <2>4
  <2>6. \A h : HotspotWish(w, h) => HotspotWish(v, WantedOff(w, off, h))
    BY <2>2, <2>3, KeptHotspotWish
  <2> QED
    BY <2>3, <2>4, <2>5, <2>6 DEF v, off
<1> QED
  BY <1>2, <1>3, <1>4

(* ManagerImpl::setHotspotEnabled(), when it is not refused                *)
HotspotSwitched(w, v, enabled, ok, outcome) ==
    /\ WorldInv(v) /\ v.nm.flight = w.nm.flight
    /\ w.sig = <<>> /\ v.hs.enabled = enabled /\ Possible(v, outcome)
       => HotspotWish(v, {enabled})
    /\ enabled /\ ~w.hs.wifiEnabled /\ w.sig = <<>> /\ ok /\ w.nm.kill # "hard_blocked"
       => WifiWish(v, {TRUE})
    /\ ~(enabled /\ ~w.hs.wifiEnabled) => \A h : WifiWish(w, h) => WifiWish(v, h)

(* ManagerImpl::setHotspotEnabled()                                        *)
LEMMA SetHotspotKept ==
    ASSUME NEW w, WorldInv(w), NEW enabled \in BOOLEAN, NEW found \in BOOLEAN,
           NEW ok \in BOOLEAN, NEW outcome \in Outcomes,
           setHotspotEnabled(w, enabled, found, ok, outcome) # w
    PROVE  HotspotSwitched(w, setHotspotEnabled(w, enabled, found, ok, outcome),
                           enabled, ok, outcome)
<1> DEFINE unblocks == enabled /\ ~w.hs.wifiEnabled
           a == IF unblocks THEN setWirelessEnabled(setBlock(w, FALSE, ok), TRUE) ELSE w
           v == setHotspotEnabled(w, enabled, found, ok, outcome)
<1>0. w \in Worlds /\ w.hs.enabled \in BOOLEAN /\ w.hs.wifiEnabled \in BOOLEAN
  BY Parts DEF WorldInv, Services
<1>1. v = setEnabled(a, enabled, found, ok, outcome) /\ w.hs.enabled # enabled
  BY DEF setHotspotEnabled
<1>2. /\ WorldInv(a) /\ a.hs.enabled = w.hs.enabled
      /\ a.nm.flight = w.nm.flight
      /\ unblocks /\ w.sig = <<>> /\ ok /\ w.nm.kill # "hard_blocked" => WifiWish(a, {TRUE})
      /\ ~unblocks => a = w
  <2>1. CASE ~unblocks
    BY <2>1
  <2>2. CASE unblocks
    <3> DEFINE b == setWirelessEnabled(setBlock(w, ~TRUE, ok), TRUE)
    <3>1. a = b
      BY <2>2
    <3>2. /\ KeptHotspot(w, b) /\ WorldInv(b) /\ b.hs = w.hs
          /\ b.nm.flight = w.nm.flight
          /\ w.hs.kill = w.nm.kill /\ ok /\ w.nm.kill # "hard_blocked"
                /\ (w.hs.wifiEnabled <=> ~TRUE)
             => WifiWish(b, {TRUE})
      BY SwitchKept
    <3> HIDE DEF a, b
    <3>3. w.sig = <<>> => w.hs.kill = w.nm.kill
      BY DEF WorldInv, RadioInv, Comes
    <3> QED
      BY <2>2, <3>1, <3>2, <3>3
  <2> QED
    BY <2>1, <2>2
<1> HIDE DEF a, v
<1>3. a \in Worlds /\ HotspotInv(a)
  BY <1>2 DEF WorldInv
<1>4. /\ KeptRadio(a, v) /\ HotspotInv(v)
      /\ ~a.hs.enabled /\ enabled /\ v.hs.enabled /\ Possible(v, outcome) => On(v)
      /\ a.hs.enabled /\ ~enabled /\ a.sig = <<>> => Off(v)
  BY <1>1, <1>3, SetEnabledKept
<1>5. WorldInv(v)
  BY <1>2, <1>4, KeptWorldInv
<1>6. \A h : WifiWish(a, h) => WifiWish(v, h)
  BY <1>4, KeptRadioInv
<1>7. ASSUME w.sig = <<>>, v.hs.enabled = enabled, Possible(v, outcome)
      PROVE  HotspotWish(v, {enabled})
  <2>1. CASE enabled
    <3>1. On(v)
      BY <1>0, <1>1, <1>2, <1>4, <1>7, <2>1
    <3> QED
      BY <2>1, <3>1 DEF HotspotWish
  <2>2. CASE ~enabled
    <3>1. Off(v)
      BY <1>0, <1>1, <1>2, <1>4, <1>7, <2>2
    <3> QED
      BY <2>2, <3>1 DEF HotspotWish
  <2> QED
    BY <2>1, <2>2
<1>8. v.nm.flight = w.nm.flight
  BY <1>2, <1>4 DEF KeptRadio
<1> QED
  BY <1>2, <1>5, <1>6, <1>7, <1>8 DEF v, HotspotSwitched

(* ManagerImpl::setFlightMode()                                            *)
LEMMA SetFlightKept ==
    ASSUME NEW w, WorldInv(w), NEW enabled \in BOOLEAN, NEW ok \in BOOLEAN,
           w.hs.flightMode # enabled
    PROVE  LET v == setFlightMode(w, enabled, ok)
           IN  /\ WorldInv(v) /\ (ok => v.nm.flight = enabled)
               /\ \A h : HotspotWish(w, h) => HotspotWish(v, WantedOff(w, enabled, h))
<1> DEFINE a == IF enabled THEN setEnabled(w, FALSE, TRUE, TRUE, "refused") ELSE w
           v == setFlightMode(w, enabled, ok)
<1>1. v = flightMode(a, enabled, ok)
  BY DEF setFlightMode
<1>2. /\ WorldInv(a)
      /\ \A h : HotspotWish(w, h) => HotspotWish(a, WantedOff(w, enabled, h))
  <2>1. CASE enabled
    <3>1. a = setEnabled(w, FALSE, TRUE, TRUE, "refused") /\ (enabled <=> TRUE)
      BY <2>1
    <3>2. \A h : WantedOff(w, enabled, h) = WantedOff(w, TRUE, h)
      BY <3>1 DEF WantedOff
    <3> HIDE DEF a
    <3> QED
      BY <3>1, <3>2, OffOnTheWay
  <2>2. CASE ~enabled
    BY <2>2 DEF WantedOff
  <2> QED
    BY <2>1, <2>2
<1> HIDE DEF a, v
<1>3. a \in Worlds /\ RadioInv(a)
  BY <1>2 DEF WorldInv
<1>4. /\ KeptHotspot(a, v) /\ RadioInv(v)
      /\ v.hs = a.hs /\ (ok => v.nm.flight = enabled)
  BY <1>1, <1>3, FlightModeKept
<1>5. WorldInv(v)
  BY <1>2, <1>4, KeptWorldInv
<1>6. \A h : HotspotWish(w, h) => HotspotWish(v, WantedOff(w, enabled, h))
  BY <1>2, <1>4, KeptHotspotWish
<1> QED
  BY <1>4, <1>5, <1>6 DEF v

-----------------------------------------------------------------------------
(* The steps of clients                                                    *)

(* What is to be shown of a step: the next world and the next wishes.      *)
LEMMA Stepped ==
    ASSUME NEW w, NEW wanted, NEW v, NEW next,
           w = World, wanted = wish, v = World', next = wish',
           WorldInv(v) /\ WishInv(v, next)
    PROVE  IInv'
BY DEF IInv

(* The next state, as a world.                                             *)
LEMMA BecomesWorld ==
    ASSUME NEW v \in Worlds, Becomes(v)
    PROVE  World' = v
BY Parts DEF Becomes, World

(* A wish that is expected.                                                *)
LEMMA Expected ==
    ASSUME NEW sure \in BOOLEAN, NEW value \in BOOLEAN
    PROVE  Expect(sure, value) \in SUBSET BOOLEAN
BY DEF Expect

(* Nothing is wished.                                                      *)
LEMMA NoWish ==
    ASSUME NEW w
    PROVE  WifiWish(w, {}) /\ FlightWish(w, {}) /\ HotspotWish(w, {})
BY DEF WifiWish, FlightWish, HotspotWish

(* The world and the wishes as they are.                                   *)
LEMMA Now ==
    ASSUME IInv
    PROVE  /\ WorldInv(World) /\ World \in Worlds
           /\ World.hs = hs /\ World.nm = nm /\ World.sig = sig
           /\ wish \in Wishes /\ WifiWish(World, wish.wifi)
           /\ FlightWish(World, wish.flight) /\ HotspotWish(World, wish.hotspot)
<1>1. World.hs = hs /\ World.nm = nm /\ World.sig = sig
  BY DEF World
<1> QED
  BY <1>1 DEF IInv, WorldInv, WishInv

(* A wish that is met if it is sure is met if it is expected.              *)
LEMMA MetIfSure ==
    ASSUME NEW w, NEW sure \in BOOLEAN, NEW value \in BOOLEAN
    PROVE  /\ (sure => WifiWish(w, {value})) => WifiWish(w, Expect(sure, value))
           /\ (sure => FlightWish(w, {value})) => FlightWish(w, Expect(sure, value))
           /\ (sure => HotspotWish(w, {value})) => HotspotWish(w, Expect(sure, value))
BY NoWish DEF Expect

(* What HotspotOff wishes is a set of values of the switch.                *)
LEMMA WantedOffType ==
    ASSUME NEW w, NEW off \in BOOLEAN, NEW h \in SUBSET BOOLEAN
    PROVE  WantedOff(w, off, h) \in SUBSET BOOLEAN
BY DEF WantedOff, Expect

(* A request for the WiFi switch.                                          *)
LEMMA SetWifiStep ==
    ASSUME IInv, NEW enabled \in BOOLEAN, SetWifiEnabled(enabled)
    PROVE  IInv'
<1>1. PICK ok \in BOOLEAN :
        /\ Becomes(setWifiEnabled(World, enabled, ok))
        /\ wish' = [wish EXCEPT
              !.wifi = Expect(Settled /\ ok /\ nm.kill # "hard_blocked" /\ hs.hasWifi, enabled),
              !.hotspot = HotspotOff(~enabled /\ hs.hasWifi /\ hs.wifiEnabled)]
  BY DEF SetWifiEnabled
<1>2. PICK w : w = World
  OBVIOUS
<1>3. PICK wanted : wanted = wish
  OBVIOUS
<1> DEFINE v == setWifiEnabled(w, enabled, ok)
           sure == w.sig = <<>> /\ ok /\ w.nm.kill # "hard_blocked" /\ w.hs.hasWifi
           off == ~enabled /\ w.hs.hasWifi /\ w.hs.wifiEnabled
<1>4. /\ WorldInv(w) /\ w \in Worlds /\ w.hs = hs /\ w.nm = nm /\ w.sig = sig
      /\ wanted \in Wishes
      /\ FlightWish(w, wanted.flight) /\ HotspotWish(w, wanted.hotspot)
  BY <1>2, <1>3, Now
<1>5. /\ WorldInv(v) /\ v.nm.flight = w.nm.flight
      /\ sure => WifiWish(v, {enabled})
      /\ \A h : HotspotWish(w, h) => HotspotWish(v, WantedOff(w, off, h))
  BY <1>4, SetWifiKept
<1>6. Becomes(v)
  BY <1>1, <1>2
<1> HIDE DEF v
<1>7. World' = v
  BY <1>5, <1>6, BecomesWorld DEF WorldInv
<1>8. sure \in BOOLEAN /\ off \in BOOLEAN
  BY <1>4, Parts DEF Services
<1>9. wish' = [wanted EXCEPT !.wifi = Expect(sure, enabled),
                             !.hotspot = WantedOff(w, off, wanted.hotspot)]
  BY <1>1, <1>3, <1>4 DEF Settled, HotspotOff, WantedOff
<1> HIDE DEF sure, off
<1>10. PICK next : next = wish'
  OBVIOUS
<1>11. /\ Expect(sure, enabled) \in SUBSET BOOLEAN
       /\ WantedOff(w, off, wanted.hotspot) \in SUBSET BOOLEAN
  BY <1>4, <1>8, Expected, WantedOffType DEF Wishes
<1>12. /\ next \in Wishes /\ next.wifi = Expect(sure, enabled)
       /\ next.flight = wanted.flight /\ next.hotspot = WantedOff(w, off, wanted.hotspot)
  BY <1>4, <1>9, <1>10, <1>11 DEF Wishes
<1>13. WifiWish(v, next.wifi)
  BY <1>5, <1>8, <1>12, MetIfSure
<1>14. FlightWish(v, next.flight) /\ HotspotWish(v, next.hotspot)
  BY <1>4, <1>5, <1>12 DEF FlightWish
<1> QED
  BY <1>2, <1>3, <1>5, <1>7, <1>10, <1>12, <1>13, <1>14, Stepped DEF WishInv

(* A request for the hotspot.                                              *)
LEMMA SetHotspotStep ==
    ASSUME IInv, NEW enabled \in BOOLEAN, SetHotspotEnabled(enabled)
    PROVE  IInv'
<1>1. PICK found \in BOOLEAN, ok \in BOOLEAN, outcome \in Outcomes :
        LET v == setHotspotEnabled(World, enabled, found, ok, outcome)
            unblocks == enabled /\ ~hs.wifiEnabled
        IN  /\ Request(~found \/ ~ok \/ outcome # "activated")
            /\ v # World
            /\ Possible(v, outcome)
            /\ Becomes(v)
            /\ wish' = [wish EXCEPT
                    !.hotspot = Expect(Settled /\ v.hs.enabled = enabled, enabled),
                    !.wifi = IF unblocks THEN Expect(Settled /\ ok /\ nm.kill # "hard_blocked", TRUE)
                             ELSE @]
  BY Zenon DEF SetHotspotEnabled
<1>2. PICK w : w = World
  OBVIOUS
<1>3. PICK wanted : wanted = wish
  OBVIOUS
<1> DEFINE v == setHotspotEnabled(w, enabled, found, ok, outcome)
           sure == w.sig = <<>> /\ v.hs.enabled = enabled
           wifi == w.sig = <<>> /\ ok /\ w.nm.kill # "hard_blocked"
           unblocks == enabled /\ ~w.hs.wifiEnabled
<1>4. /\ WorldInv(w) /\ w \in Worlds /\ w.hs = hs /\ w.nm = nm /\ w.sig = sig
      /\ wanted \in Wishes /\ WifiWish(w, wanted.wifi)
      /\ FlightWish(w, wanted.flight) /\ HotspotWish(w, wanted.hotspot)
  BY <1>2, <1>3, Now
<1>5. v # w /\ Possible(v, outcome) /\ Becomes(v)
  BY <1>1, <1>2
<1>6. HotspotSwitched(w, v, enabled, ok, outcome)
  BY <1>4, <1>5, SetHotspotKept
<1>7. wish' = [wanted EXCEPT !.hotspot = Expect(sure, enabled),
                             !.wifi = IF unblocks THEN Expect(wifi, TRUE) ELSE wanted.wifi]
  BY <1>1, <1>2, <1>3, <1>4 DEF Settled
<1> HIDE DEF v
<1>8. World' = v
  BY <1>5, <1>6, BecomesWorld DEF WorldInv, HotspotSwitched
<1>9. sure \in BOOLEAN /\ wifi \in BOOLEAN /\ unblocks \in BOOLEAN
  BY <1>4, Parts DEF Services
<1>10. /\ sure => HotspotWish(v, {enabled})
       /\ unblocks => (wifi => WifiWish(v, {TRUE}))
       /\ ~unblocks => WifiWish(v, wanted.wifi)
  BY <1>4, <1>5, <1>6 DEF HotspotSwitched
<1> HIDE DEF sure, wifi, unblocks
<1>11. PICK next : next = wish'
  OBVIOUS
<1>12. /\ Expect(sure, enabled) \in SUBSET BOOLEAN
       /\ (IF unblocks THEN Expect(wifi, TRUE) ELSE wanted.wifi) \in SUBSET BOOLEAN
  BY <1>4, <1>9, Expected DEF Wishes
<1>13. /\ next \in Wishes /\ next.hotspot = Expect(sure, enabled)
       /\ next.flight = wanted.flight
       /\ next.wifi = IF unblocks THEN Expect(wifi, TRUE) ELSE wanted.wifi
  BY <1>4, <1>7, <1>11, <1>12 DEF Wishes
<1>14. WifiWish(v, next.wifi)
  <2>1. CASE unblocks
    <3>1. TRUE \in BOOLEAN /\ (wifi => WifiWish(v, {TRUE}))
      BY <1>10, <2>1
    <3> QED
      BY <1>9, <1>13, <2>1, <3>1, MetIfSure
  <2>2. CASE ~unblocks
    BY <1>10, <1>13, <2>2
  <2> QED
    BY <2>1, <2>2
<1>15. HotspotWish(v, next.hotspot)
  BY <1>9, <1>10, <1>13, MetIfSure
<1>16. WorldInv(v) /\ FlightWish(v, next.flight)
  BY <1>4, <1>6, <1>13 DEF FlightWish, HotspotSwitched
<1> QED
  BY <1>2, <1>3, <1>8, <1>11, <1>13, <1>14, <1>15, <1>16, Stepped DEF WishInv

(* A request for flight mode.                                              *)
LEMMA SetFlightStep ==
    ASSUME IInv, NEW enabled \in BOOLEAN, SetFlightMode(enabled)
    PROVE  IInv'
<1>1. PICK ok \in BOOLEAN :
        /\ hs.flightMode # enabled
        /\ Becomes(setFlightMode(World, enabled, ok))
        /\ wish' = [wifi |-> {}, flight |-> Expect(Settled /\ ok, enabled),
                    hotspot |-> HotspotOff(enabled)]
  BY DEF SetFlightMode
<1>2. PICK w : w = World
  OBVIOUS
<1>3. PICK wanted : wanted = wish
  OBVIOUS
<1> DEFINE v == setFlightMode(w, enabled, ok)
           sure == w.sig = <<>> /\ ok
<1>4. /\ WorldInv(w) /\ w \in Worlds /\ w.hs = hs /\ w.nm = nm /\ w.sig = sig
      /\ wanted \in Wishes /\ HotspotWish(w, wanted.hotspot)
  BY <1>2, <1>3, Now
<1>5. /\ WorldInv(v) /\ (ok => v.nm.flight = enabled)
      /\ \A h : HotspotWish(w, h) => HotspotWish(v, WantedOff(w, enabled, h))
  BY <1>1, <1>4, SetFlightKept
<1>6. Becomes(v)
  BY <1>1, <1>2
<1> HIDE DEF v
<1>7. World' = v
  BY <1>5, <1>6, BecomesWorld DEF WorldInv
<1>8. sure \in BOOLEAN
  OBVIOUS
<1>9. wish' = [wifi |-> {}, flight |-> Expect(sure, enabled),
               hotspot |-> WantedOff(w, enabled, wanted.hotspot)]
  BY <1>1, <1>3, <1>4 DEF Settled, HotspotOff, WantedOff
<1>10. sure => FlightWish(v, {enabled})
  BY <1>5 DEF FlightWish
<1> HIDE DEF sure
<1>11. PICK next : next = wish'
  OBVIOUS
<1>12. /\ Expect(sure, enabled) \in SUBSET BOOLEAN
       /\ WantedOff(w, enabled, wanted.hotspot) \in SUBSET BOOLEAN
  BY <1>4, <1>8, Expected, WantedOffType DEF Wishes
<1>13. /\ next \in Wishes /\ next.wifi = {} /\ next.flight = Expect(sure, enabled)
       /\ next.hotspot = WantedOff(w, enabled, wanted.hotspot)
  BY <1>9, <1>11, <1>12 DEF Wishes
<1>14. WifiWish(v, next.wifi) /\ FlightWish(v, next.flight)
  BY <1>8, <1>10, <1>13, MetIfSure, NoWish
<1>15. HotspotWish(v, next.hotspot)
  BY <1>4, <1>5, <1>13
<1> QED
  BY <1>2, <1>3, <1>5, <1>7, <1>11, <1>13, <1>14, <1>15, Stepped DEF WishInv

(* The four settings.                                                      *)
LEMMA FieldType ==
    ASSUME NEW A, NEW B, NEW C, NEW D,
           NEW s \in [ssid : A, password : B, mode : C, auth : D]
    PROVE  /\ \A v \in A : [s EXCEPT !["ssid"] = v] \in [ssid : A, password : B, mode : C, auth : D]
           /\ \A v \in B : [s EXCEPT !["password"] = v] \in [ssid : A, password : B, mode : C, auth : D]
           /\ \A v \in C : [s EXCEPT !["mode"] = v] \in [ssid : A, password : B, mode : C, auth : D]
           /\ \A v \in D : [s EXCEPT !["auth"] = v] \in [ssid : A, password : B, mode : C, auth : D]
OBVIOUS

(* A setting takes the values a user may give it.                          *)
LEMMA SettingType ==
    ASSUME NEW s \in Settings
    PROVE  /\ \A v \in Ssids \cup {""} : [s EXCEPT !["ssid"] = v] \in Settings
           /\ \A v \in Passwords : [s EXCEPT !["password"] = v] \in Settings
           /\ \A v \in {"ap", "adhoc"} : [s EXCEPT !["mode"] = v] \in Settings
           /\ \A v \in {"wpa-psk", None} : [s EXCEPT !["auth"] = v] \in Settings
<1> DEFINE A == Ssids \cup {"", "Ubuntu"}
           B == Passwords \cup {"generated"}
           C == {"ap", "adhoc"}
           D == {"wpa-psk", None}
<1>1. Settings = [ssid : A, password : B, mode : C, auth : D]
  BY Zenon DEF Settings
<1>2. (\A v \in Ssids \cup {""} : v \in A) /\ (\A v \in Passwords : v \in B)
  BY Zenon
<1> HIDE DEF A, B
<1>3. /\ \A v \in A : [s EXCEPT !["ssid"] = v] \in Settings
      /\ \A v \in B : [s EXCEPT !["password"] = v] \in Settings
      /\ \A v \in C : [s EXCEPT !["mode"] = v] \in Settings
      /\ \A v \in D : [s EXCEPT !["auth"] = v] \in Settings
  BY <1>1, FieldType
<1> QED
  BY <1>2, <1>3, Zenon

(* The settings are nobody else's matter before the next enabling.         *)
LEMMA SetSettingKept ==
    ASSUME NEW w, WorldInv(w), NEW s \in Settings,
           NEW v, v = [w EXCEPT !.hs = [w.hs EXCEPT !.set = s]]
    PROVE  /\ WorldInv(v) /\ v.nm = w.nm
           /\ \A h : HotspotWish(w, h) => HotspotWish(v, h)
<1>1. w \in Worlds /\ RadioInv(w)
  BY DEF WorldInv
<1>2. /\ v \in Worlds /\ v.nm = w.nm /\ v.sig = w.sig
      /\ v.hs.enabled = w.hs.enabled /\ v.hs.hook = w.hs.hook
      /\ v.hs.listed = w.hs.listed
      /\ v.hs.disconnectWifi = w.hs.disconnectWifi /\ v.hs.links = w.hs.links
      /\ v.hs.stored = w.hs.stored /\ v.hs.hotspot = w.hs.hotspot /\ v.hs.uuid = w.hs.uuid
      /\ v.hs.kill = w.hs.kill /\ v.hs.flightMode = w.hs.flightMode
      /\ v.hs.wifiEnabled = w.hs.wifiEnabled
  BY <1>1 DEF Worlds, Services
<1>3. Grows(w.sig, v.sig, RadioKinds)
  BY <1>1, <1>2, Parts, GrowsRefl
<1>4. KeptHotspot(w, v)
  BY <1>1, <1>2, <1>3 DEF KeptHotspot, LinksTold
<1>5. RadioInv(v)
  BY <1>1, <1>2 DEF RadioInv
<1> QED
  BY <1>2, <1>4, <1>5, KeptWorldInv, KeptHotspotWish

(* A step that leaves NetworkManager and the wishes as they are.           *)
LEMMA SameWishes ==
    ASSUME IInv, NEW v, WorldInv(v), World' = v, v.nm = nm, wish' = wish,
           HotspotWish(World, wish.hotspot) => HotspotWish(v, wish.hotspot)
    PROVE  IInv'
<1>1. PICK w : w = World
  OBVIOUS
<1>2. PICK wanted : wanted = wish
  OBVIOUS
<1>3. /\ w.nm = nm /\ wanted \in Wishes /\ WifiWish(w, wanted.wifi)
      /\ FlightWish(w, wanted.flight) /\ HotspotWish(w, wanted.hotspot)
  BY <1>1, <1>2, Now
<1>4. WifiWish(v, wanted.wifi) /\ FlightWish(v, wanted.flight)
  BY <1>3 DEF WifiWish, FlightWish
<1>5. HotspotWish(v, wanted.hotspot)
  BY <1>1, <1>2, <1>3
<1> QED
  BY <1>1, <1>2, <1>3, <1>4, <1>5, Stepped DEF WishInv

(* The settings of a service.                                              *)
LEMMA ServiceSet ==
    \A h \in Services : h.set \in Settings
BY DEF Services

(* One setting is changed.                                                 *)
LEMMA SetOneStep ==
    ASSUME IInv, NEW f, NEW x, SetSetting(f, x), [hs.set EXCEPT ![f] = x] \in Settings
    PROVE  IInv'
<1>1. PICK w : w = World
  OBVIOUS
<1>2. /\ WorldInv(w) /\ w \in Worlds /\ w.hs = hs /\ w.nm = nm /\ w.sig = sig
  BY <1>1, Now
<1>3. PICK s : s = [w.hs.set EXCEPT ![f] = x]
  OBVIOUS
<1>4. s \in Settings
  BY <1>2, <1>3
<1>v. PICK v : v = [w EXCEPT !.hs = [w.hs EXCEPT !.set = s]]
  OBVIOUS
<1>5. /\ hs' = [w.hs EXCEPT !.set = s] /\ nm' = w.nm /\ sig' = w.sig /\ wish' = wish
  BY <1>2, <1>3 DEF SetSetting, setSetting
<1>6. /\ WorldInv(v) /\ v.nm = w.nm
      /\ \A h : HotspotWish(w, h) => HotspotWish(v, h)
  BY <1>2, <1>4, <1>v, SetSettingKept
<1>7. World' = v
  BY <1>2, <1>5, <1>v DEF World, Worlds
<1> QED
  BY <1>1, <1>2, <1>5, <1>6, <1>7, SameWishes

(* Any of the four.                                                        *)
LEMMA SetSettingStep ==
    ASSUME IInv,
           \/ \E v \in Ssids \cup {""} : SetSetting("ssid", v)
           \/ \E v \in Passwords : SetSetting("password", v)
           \/ \E v \in {"ap", "adhoc"} : SetSetting("mode", v)
           \/ \E v \in {"wpa-psk", None} : SetSetting("auth", v)
    PROVE  IInv'
<1>1. hs.set \in Settings
  <2>1. World \in Worlds /\ World.hs = hs
    BY Now, Zenon
  <2>2. World.hs \in Services
    BY <2>1, Parts, Zenon
  <2> QED
    BY <2>1, <2>2, ServiceSet, Zenon
<1> QED
  BY <1>1, SettingType, SetOneStep, Zenon

-----------------------------------------------------------------------------
(* The event loop                                                          *)

(* ActiveConnectionManager changes its list only.                          *)
LEMMA ListUpdatedParts ==
    ASSUME NEW w \in Worlds, NEW s, s.act \in Nat, s.other \in BOOLEAN
    PROVE  LET h == ListUpdated(w.hs, w.nm, s)
               conn == IF s.act = w.hs.listed.act THEN w.hs.listed.conn
                       ELSE IF s.act = w.nm.act THEN w.nm.conn ELSE 0
           IN  /\ h = [w.hs EXCEPT !.listed = [act |-> s.act, other |-> s.other, conn |-> conn]]
               /\ conn \in Nat
<1>1. w.hs.listed.conn \in Nat /\ w.nm.conn \in Nat
  BY Parts DEF Services, Networks, Listeds
<1>2. w.hs \in Services
  BY Parts
<1> QED
  BY <1>1, <1>2 DEF ListUpdated, Services, Listeds

(* Only what is known of the active connection changes.                    *)
LEMMA ListedParts ==
    ASSUME NEW w \in Worlds, NEW l \in Listeds, NEW q \in Seq(Signals)
    PROVE  LET v == [hs |-> [w.hs EXCEPT !.listed = l], nm |-> w.nm, sig |-> q]
           IN  /\ v \in Worlds /\ v.nm = w.nm /\ v.sig = q /\ v.hs.listed = l
               /\ v.hs.enabled = w.hs.enabled /\ v.hs.hook = w.hs.hook
               /\ v.hs.disconnectWifi = w.hs.disconnectWifi /\ v.hs.links = w.hs.links
               /\ v.hs.stored = w.hs.stored /\ v.hs.hotspot = w.hs.hotspot
               /\ v.hs.uuid = w.hs.uuid
               /\ v.hs.kill = w.hs.kill /\ v.hs.flightMode = w.hs.flightMode
               /\ v.hs.wifiEnabled = w.hs.wifiEnabled
BY DEF Worlds, Services

(* The slots that are posted for the connection that is gone.              *)
Posted(n) == [i \in 1 .. n |-> [t |-> "reactivate"]]

(* What the hooks post to the queue.                                       *)
LEMMA PostedKept ==
    ASSUME NEW q \in Seq(Signals), NEW n \in Nat
    PROVE  /\ q \o Posted(n) \in Seq(Signals)
           /\ Grows(q, q \o Posted(n), {"reactivate"})
           /\ n = 0 => q \o Posted(n) = q
           /\ n # 0 => Notices(q \o Posted(n))
<1>1. [t |-> "reactivate"] \in Signals /\ [t |-> "reactivate"].t = "reactivate"
  BY SignalTypes
<1>2. PICK x : x = [t |-> "reactivate"]
  OBVIOUS
<1>3. x \in Signals /\ x.t = "reactivate"
  BY <1>1, <1>2
<1> DEFINE r == Posted(n)
           u == q \o r
<1>4. r \in Seq(Signals) /\ Len(r) = n /\ \A i \in 1 .. n : r[i] = x
  BY <1>2, <1>3 DEF Posted
<1> HIDE DEF r
<1>5. /\ u \in Seq(Signals) /\ Len(u) = Len(q) + n
      /\ \A i \in 1 .. Len(u) : u[i] = IF i <= Len(q) THEN q[i] ELSE r[i - Len(q)]
  BY <1>4
<1>6. \A i \in 1 .. Len(u) : u[i] = IF i <= Len(q) THEN q[i] ELSE x
  BY <1>4, <1>5
<1> HIDE DEF u
<1>7. Grows(q, u, {"reactivate"})
  BY <1>3, <1>5, <1>6 DEF Grows
<1>8. ASSUME n # 0
      PROVE  Notices(u)
  <2>1. Len(u) \in DOMAIN u /\ u[Len(u)] = x
    BY <1>5, <1>6, <1>8
  <2> QED
    BY <1>3, <2>1 DEF Notices
<1>9. n = 0 => u = q
  BY <1>4, <1>5 DEF u
<1> QED
  BY <1>5, <1>7, <1>8, <1>9 DEF u, r

(* The list is brought up to date and the hooks run.                       *)
LEMMA ListKept ==
    ASSUME NEW w, WorldInv(w), w.sig # <<>>, Head(w.sig).t = "list"
    PROVE  LET s == Head(w.sig)
               changed == s.act # w.hs.listed.act \/ s.other # w.hs.listed.other
               v == [hs |-> ListUpdated(w.hs, w.nm, s), nm |-> w.nm,
                     sig |-> Tail(w.sig) \o Posted(IF changed THEN w.hs.hook ELSE 0)]
           IN  /\ WorldInv(v) /\ v.nm = w.nm
               /\ \A h : HotspotWish(w, h) => HotspotWish(v, h)
<1>1. PICK s : s = Head(w.sig)
  OBVIOUS
<1>2. PICK q : q = Tail(w.sig)
  OBVIOUS
<1> DEFINE n == IF s.act # w.hs.listed.act \/ s.other # w.hs.listed.other THEN w.hs.hook ELSE 0
           u == q \o Posted(n)
           conn == IF s.act = w.hs.listed.act THEN w.hs.listed.conn
                   ELSE IF s.act = w.nm.act THEN w.nm.conn ELSE 0
           l == [act |-> s.act, other |-> s.other, conn |-> conn]
           v == [hs |-> [w.hs EXCEPT !.listed = l], nm |-> w.nm, sig |-> u]
<1>3. /\ w \in Worlds /\ RadioInv(w) /\ HotspotInv(w) /\ w.sig \in Seq(Signals)
      /\ w.hs.hook \in Nat
  BY Parts DEF WorldInv, Services
<1>4. /\ s \in Signals /\ s.t = "list" /\ q \in Seq(Signals)
      /\ \A t : Comes(w.sig, t) <=> s.t = t \/ Comes(q, t)
      /\ Notices(w.sig) => Notices(q) \/ (s.t = "list" /\ s.act # 0)
  BY <1>1, <1>2, <1>3, HeadTail
<1>5. s.act \in Nat /\ s.other \in BOOLEAN /\ Value(s) = s.act
  BY <1>4 DEF Signals, Value
<1>6. ListUpdated(w.hs, w.nm, s) = [w.hs EXCEPT !.listed = l] /\ conn \in Nat
  BY <1>3, <1>5, ListUpdatedParts
<1>7. n \in Nat
  BY <1>3
<1>8. /\ u \in Seq(Signals) /\ Grows(q, u, {"reactivate"})
      /\ n = 0 => u = q
      /\ n # 0 => Notices(u)
  BY <1>4, <1>7, PostedKept
<1>9. l \in Listeds /\ l.act = s.act /\ l.other = s.other /\ l.conn = conn
  BY <1>5, <1>6 DEF Listeds
<1> HIDE DEF l, u
<1>10. /\ v \in Worlds /\ v.nm = w.nm /\ v.sig = u /\ v.hs.listed = l
       /\ v.hs.enabled = w.hs.enabled /\ v.hs.hook = w.hs.hook
       /\ v.hs.disconnectWifi = w.hs.disconnectWifi /\ v.hs.links = w.hs.links
       /\ v.hs.stored = w.hs.stored /\ v.hs.hotspot = w.hs.hotspot
       /\ v.hs.uuid = w.hs.uuid
       /\ v.hs.kill = w.hs.kill /\ v.hs.flightMode = w.hs.flightMode
       /\ v.hs.wifiEnabled = w.hs.wifiEnabled
  BY <1>3, <1>8, <1>9, ListedParts
<1> HIDE DEF v
<1>11. Told(u, "list", l.act, w.nm.act)
  <2>1. Told(w.sig, "list", w.hs.listed.act, w.nm.act)
    BY <1>3 DEF HotspotInv, ActiveInv
  <2>2. Told(q, "list", s.act, w.nm.act)
    BY <1>1, <1>2, <1>3, <1>4, <1>5, <2>1, TailTold
  <2>3. Told(u, "list", s.act, w.nm.act)
    BY <1>4, <1>8, <2>2, GrowsTold
  <2> QED
    BY <1>9, <2>3
<1>12. Told(u, "flight", w.hs.flightMode, w.nm.flight)
  <2>1. Told(w.sig, "flight", w.hs.flightMode, w.nm.flight)
    BY <1>3 DEF RadioInv
  <2>2. Told(q, "flight", w.hs.flightMode, w.nm.flight)
    BY <1>1, <1>2, <1>3, <1>4, <2>1, TailTold
  <2> QED
    BY <1>4, <1>8, <2>2, GrowsTold
<1>13. /\ Comes(w.sig, "state") => Comes(u, "state")
       /\ Notices(q) => Notices(u)
       /\ ~Comes(w.sig, "reactivate") => ~Comes(q, "reactivate")
  BY <1>4, <1>8, GrowsComes, GrowsNotices
<1>14. RadioInv(v)
  BY <1>3, <1>10, <1>12, <1>13 DEF RadioInv
<1>15. ConnInv(v) /\ EnabledInv(v)
  BY <1>3, <1>10 DEF HotspotInv, ConnInv, EnabledInv
<1>16. ActiveInv(v)
  BY <1>3, <1>9, <1>10, <1>11 DEF HotspotInv, ActiveInv, LinksTold
<1>17. On(w) => On(v)
  <2>1. SUFFICES ASSUME On(w), v.nm.act = 0, v.hs.listed.act = 0
                 PROVE  Notices(u)
    BY <1>10 DEF On
  <2>2. s.act = 0 /\ w.nm.act = 0 /\ w.hs.hook # 0
    BY <1>9, <1>10, <2>1 DEF On
  <2>3. CASE w.hs.listed.act # 0
    BY <1>8, <2>2, <2>3
  <2>4. CASE w.hs.listed.act = 0
    BY <1>4, <1>13, <2>1, <2>2, <2>4 DEF On
  <2> QED
    BY <2>3, <2>4
<1>18. Off(w) => Off(v)
  BY <1>8, <1>10, <1>13 DEF Off
<1>19. \A h : HotspotWish(w, h) => HotspotWish(v, h)
  BY <1>17, <1>18 DEF HotspotWish
<1>20. WorldInv(v)
  BY <1>10, <1>14, <1>15, <1>16 DEF WorldInv, HotspotInv
<1> QED
  BY <1>1, <1>2, <1>6, <1>10, <1>19, <1>20 DEF v, u

(* A list of active connections arrives.                                   *)
LEMMA HandleListStep ==
    ASSUME IInv, HandleList
    PROVE  IInv'
<1>1. PICK w : w = World
  OBVIOUS
<1>2. /\ WorldInv(w) /\ w.hs = hs /\ w.nm = nm /\ w.sig = sig
  BY <1>1, Now
<1> DEFINE s == Head(w.sig)
           changed == s.act # w.hs.listed.act \/ s.other # w.hs.listed.other
           v == [hs |-> ListUpdated(w.hs, w.nm, s), nm |-> w.nm,
                 sig |-> Tail(w.sig) \o Posted(IF changed THEN w.hs.hook ELSE 0)]
<1>3. w.sig # <<>> /\ Head(w.sig).t = "list"
  BY <1>2 DEF HandleList, Calls
<1>4. /\ WorldInv(v) /\ v.nm = w.nm
      /\ \A h : HotspotWish(w, h) => HotspotWish(v, h)
  BY <1>2, <1>3, ListKept
<1>5. World' = v /\ wish' = wish
  BY <1>2 DEF HandleList, World, Posted
<1> HIDE DEF v
<1> QED
  BY <1>1, <1>2, <1>4, <1>5, SameWishes

(* The service h after a signal of another kind than "list".               *)
KeptService(g, h) ==
    /\ h \in Services
    /\ h.enabled = g.enabled /\ h.disconnectWifi = g.disconnectWifi
    /\ h.stored = g.stored /\ h.hotspot = g.hotspot /\ h.uuid = g.uuid
    /\ h.hook = g.hook /\ h.listed = g.listed
    /\ (\A d \in DOMAIN g.links : g.links[d] = g.disconnectWifi)
         => \A d \in DOMAIN h.links : h.links[d] = h.disconnectWifi

Heard(w, s, h) ==
    /\ KeptService(w.hs, h)
    /\ h.flightMode = IF s.t = "flight" THEN s.on ELSE w.hs.flightMode
    /\ h.kill = IF s.t = "state" THEN w.nm.kill ELSE w.hs.kill
    /\ h.kill # "not_available" => (h.wifiEnabled <=> h.kill = "unblocked")

(* A signal of another kind is handled.                                    *)
LEMMA HeardKept ==
    ASSUME NEW w, WorldInv(w), w.sig # <<>>, Head(w.sig).t # "list",
           NEW h, Heard(w, Head(w.sig), h)
    PROVE  LET v == [hs |-> h, nm |-> w.nm, sig |-> Tail(w.sig)]
           IN  /\ WorldInv(v) /\ v.nm = w.nm /\ v.hs = h
               /\ On(w) /\ (Head(w.sig).t # "reactivate" \/ w.hs.listed.act # 0) => On(v)
               /\ Off(w) => Off(v) /\ Head(w.sig).t # "reactivate"
<1>1. PICK s : s = Head(w.sig)
  OBVIOUS
<1>2. PICK q : q = Tail(w.sig)
  OBVIOUS
<1> DEFINE v == [hs |-> h, nm |-> w.nm, sig |-> q]
<1>3. /\ w \in Worlds /\ RadioInv(w) /\ HotspotInv(w) /\ w.sig \in Seq(Signals)
      /\ w.nm \in Networks
  BY Parts DEF WorldInv
<1>4. /\ s \in Signals /\ s.t # "list" /\ q \in Seq(Signals)
      /\ \A t : Comes(w.sig, t) <=> s.t = t \/ Comes(q, t)
      /\ Notices(w.sig) => Notices(q) \/ s.t = "reactivate"
  BY <1>1, <1>2, <1>3, HeadTail
<1>5. Heard(w, s, h)
  BY <1>1
<1>6. v \in Worlds /\ v.hs = h /\ v.nm = w.nm /\ v.sig = q
  BY <1>3, <1>4, <1>5 DEF Worlds, Heard, KeptService
<1> HIDE DEF v
<1>7. Told(q, "flight", h.flightMode, w.nm.flight)
  <2>1. Told(w.sig, "flight", w.hs.flightMode, w.nm.flight)
    BY <1>3 DEF RadioInv
  <2>2. /\ s.t # "flight" => Told(q, "flight", w.hs.flightMode, w.nm.flight)
        /\ s.t = "flight" => Told(q, "flight", Value(s), w.nm.flight)
    BY <1>1, <1>2, <1>3, <2>1, TailTold
  <2>3. s.t = "flight" => Value(s) = s.on
    BY DEF Value
  <2> QED
    BY <1>5, <2>2, <2>3 DEF Heard
<1>8. Told(q, "list", w.hs.listed.act, w.nm.act)
  <2>1. Told(w.sig, "list", w.hs.listed.act, w.nm.act)
    BY <1>3 DEF HotspotInv, ActiveInv
  <2> QED
    BY <1>1, <1>2, <1>3, <1>4, <2>1, TailTold
<1>9. RadioInv(v)
  BY <1>3, <1>4, <1>5, <1>6, <1>7 DEF RadioInv, Heard
<1>10. ConnInv(v) /\ EnabledInv(v)
  BY <1>3, <1>5, <1>6 DEF HotspotInv, ConnInv, EnabledInv, Heard, KeptService
<1>11. ActiveInv(v)
  BY <1>3, <1>5, <1>6, <1>8 DEF HotspotInv, ActiveInv, LinksTold, Heard, KeptService
<1>12. On(w) /\ (s.t # "reactivate" \/ w.hs.listed.act # 0) => On(v)
  BY <1>4, <1>5, <1>6 DEF On, Heard, KeptService
<1>13. Off(w) => Off(v) /\ s.t # "reactivate"
  BY <1>4, <1>5, <1>6 DEF Off, Heard, KeptService
<1> QED
  BY <1>1, <1>2, <1>6, <1>9, <1>10, <1>11, <1>12, <1>13 DEF WorldInv, HotspotInv, v

(* ManagerImpl::updateHasWifi()                                            *)
LEMMA UpdateHasWifiKept ==
    ASSUME NEW h \in Services, NEW n \in Networks
    PROVE  LET g == updateHasWifi(h, n)
           IN  /\ KeptService(h, g) /\ g.flightMode = h.flightMode /\ g.kill = h.kill
               /\ g.kill # "not_available" => (g.wifiEnabled <=> g.kill = "unblocked")
<1>1. CASE h.kill # "not_available"
  <2> DEFINE on == h.kill = "unblocked"
             g == [h EXCEPT !.hasWifi = TRUE, !.wifiEnabled = on]
  <2>1. updateHasWifi(h, n) = g
    BY <1>1 DEF updateHasWifi
  <2>2. /\ g \in Services /\ g.wifiEnabled = on /\ g.flightMode = h.flightMode /\ g.kill = h.kill
        /\ g.enabled = h.enabled /\ g.disconnectWifi = h.disconnectWifi
        /\ g.stored = h.stored /\ g.hotspot = h.hotspot /\ g.uuid = h.uuid
        /\ g.hook = h.hook /\ g.listed = h.listed /\ g.links = h.links
    BY DEF Services
  <2> HIDE DEF g
  <2> QED
    BY <2>1, <2>2 DEF KeptService
<1>2. CASE h.kill = "not_available"
  <2> DEFINE has == DOMAIN h.links # {}
             on == has /\ n.wireless
             g == [h EXCEPT !.hasWifi = has, !.wifiEnabled = on]
  <2>1. updateHasWifi(h, n) = g
    BY <1>2 DEF updateHasWifi
  <2>2. has \in BOOLEAN /\ on \in BOOLEAN
    BY DEF Networks
  <2> HIDE DEF has, on
  <2>3. /\ g \in Services /\ g.flightMode = h.flightMode /\ g.kill = h.kill
        /\ g.enabled = h.enabled /\ g.disconnectWifi = h.disconnectWifi
        /\ g.stored = h.stored /\ g.hotspot = h.hotspot /\ g.uuid = h.uuid
        /\ g.hook = h.hook /\ g.listed = h.listed /\ g.links = h.links
    BY <2>2 DEF Services
  <2> HIDE DEF g
  <2> QED
    BY <1>2, <2>1, <2>3 DEF KeptService
<1> QED
  BY <1>1, <1>2

(* Links come and go.                                                      *)
LEMMA MoreLinks ==
    ASSUME NEW ls \in Links, NEW d \in Devices, NEW b \in BOOLEAN, NEW u,
           u = [e \in DOMAIN ls \cup {d} |-> IF e = d THEN b ELSE ls[e]]
    PROVE  /\ u \in Links
           /\ (\A e \in DOMAIN ls : ls[e] = b) => \A e \in DOMAIN u : u[e] = b
<1>1. PICK D \in SUBSET Devices : ls \in [D -> BOOLEAN]
  BY DEF Links
<1>2. /\ u \in [D \cup {d} -> BOOLEAN] /\ D \cup {d} \in SUBSET Devices
      /\ \A e \in D \cup {d} : u[e] = IF e = d THEN b ELSE ls[e]
  BY <1>1
<1> QED
  BY <1>1, <1>2 DEF Links

(* A link goes.                                                            *)
LEMMA FewerLinks ==
    ASSUME NEW ls \in Links, NEW d \in Devices, NEW u,
           u = [e \in DOMAIN ls \ {d} |-> ls[e]]
    PROVE  u \in Links /\ \A e \in DOMAIN u : e \in DOMAIN ls /\ u[e] = ls[e]
<1>1. PICK D \in SUBSET Devices : ls \in [D -> BOOLEAN]
  BY DEF Links
<1>2. u \in [D \ {d} -> BOOLEAN] /\ D \ {d} \in SUBSET Devices
  BY <1>1
<1> QED
  BY <1>1, <1>2 DEF Links

(* The service with other links.                                           *)
LEMMA NewLinks ==
    ASSUME NEW h \in Services, NEW ls \in Links,
           (\A d \in DOMAIN h.links : h.links[d] = h.disconnectWifi)
             => \A d \in DOMAIN ls : ls[d] = h.disconnectWifi
    PROVE  LET g == [h EXCEPT !.links = ls]
           IN  KeptService(h, g) /\ g.flightMode = h.flightMode /\ g.kill = h.kill
<1> DEFINE g == [h EXCEPT !.links = ls]
<1>1. /\ g \in Services /\ g.flightMode = h.flightMode /\ g.kill = h.kill
      /\ g.enabled = h.enabled /\ g.disconnectWifi = h.disconnectWifi
      /\ g.stored = h.stored /\ g.hotspot = h.hotspot /\ g.uuid = h.uuid
      /\ g.hook = h.hook /\ g.listed = h.listed /\ g.links = ls
  BY DEF Services
<1> HIDE DEF g
<1> QED
  BY <1>1 DEF KeptService, g

(* One after the other, for a service.                                     *)
LEMMA KeptServiceTrans ==
    ASSUME NEW f, NEW g, NEW h, KeptService(f, g), KeptService(g, h)
    PROVE  KeptService(f, h)
BY DEF KeptService

(* A service that does not change.                                         *)
LEMMA KeptServiceRefl ==
    ASSUME NEW h \in Services
    PROVE  KeptService(h, h)
BY DEF KeptService

(* ManagerImpl::device_added(): a new link is told what the others were.   *)
LEMMA DeviceAddedKept ==
    ASSUME NEW h \in Services, NEW n \in Networks, NEW d \in Devices,
           h.kill # "not_available" => (h.wifiEnabled <=> h.kill = "unblocked")
    PROVE  LET g == device_added(h, n, d)
           IN  /\ KeptService(h, g) /\ g.flightMode = h.flightMode /\ g.kill = h.kill
               /\ g.kill # "not_available" => (g.wifiEnabled <=> g.kill = "unblocked")
<1> DEFINE ls == [e \in DOMAIN h.links \cup {d} |-> IF e = d THEN h.disconnectWifi ELSE h.links[e]]
           f == IF d \in n.devs /\ d # Interface(h) THEN [h EXCEPT !.links = ls] ELSE h
           g == device_added(h, n, d)
<1>1. h.links \in Links /\ h.disconnectWifi \in BOOLEAN
  BY DEF Services
<1>2. /\ ls \in Links
      /\ (\A e \in DOMAIN h.links : h.links[e] = h.disconnectWifi)
           => \A e \in DOMAIN ls : ls[e] = h.disconnectWifi
  <2>1. PICK k : k = h.links
    OBVIOUS
  <2>2. PICK b : b = h.disconnectWifi
    OBVIOUS
  <2>3. PICK u : u = [e \in DOMAIN k \cup {d} |-> IF e = d THEN b ELSE k[e]]
    OBVIOUS
  <2>4. u \in Links /\ ((\A e \in DOMAIN k : k[e] = b) => \A e \in DOMAIN u : u[e] = b)
    BY <1>1, <2>1, <2>2, <2>3, MoreLinks
  <2>5. u = ls
    BY <2>1, <2>2, <2>3
  <2> HIDE DEF ls
  <2> QED
    BY <2>1, <2>2, <2>4, <2>5
<1> HIDE DEF ls
<1>3. KeptService(h, f) /\ f.flightMode = h.flightMode /\ f.kill = h.kill
  BY <1>2, NewLinks, KeptServiceRefl
<1>4. g = IF d \in DOMAIN h.links THEN h ELSE updateHasWifi(f, n)
  BY DEF device_added, ls
<1> HIDE DEF f, g
<1>5. CASE d \in DOMAIN h.links
  BY <1>4, <1>5, KeptServiceRefl DEF g
<1>6. CASE d \notin DOMAIN h.links
  <2>1. f \in Services
    BY <1>3 DEF KeptService
  <2>2. /\ KeptService(f, g) /\ g.flightMode = f.flightMode /\ g.kill = f.kill
        /\ g.kill # "not_available" => (g.wifiEnabled <=> g.kill = "unblocked")
    BY <1>4, <1>6, <2>1, UpdateHasWifiKept
  <2> QED
    BY <1>3, <2>2, KeptServiceTrans DEF g
<1> QED
  BY <1>5, <1>6

(* ManagerImpl::device_removed(): the other links stay as they are.        *)
LEMMA DeviceRemovedKept ==
    ASSUME NEW h \in Services, NEW n \in Networks, NEW d \in Devices,
           h.kill # "not_available" => (h.wifiEnabled <=> h.kill = "unblocked")
    PROVE  LET g == device_removed(h, n, d)
           IN  /\ KeptService(h, g) /\ g.flightMode = h.flightMode /\ g.kill = h.kill
               /\ g.kill # "not_available" => (g.wifiEnabled <=> g.kill = "unblocked")
<1> DEFINE ls == [e \in DOMAIN h.links \ {d} |-> h.links[e]]
           f == [h EXCEPT !.links = ls]
           g == device_removed(h, n, d)
<1>1. h.links \in Links /\ h.disconnectWifi \in BOOLEAN
  BY DEF Services
<1>2. /\ ls \in Links
      /\ (\A e \in DOMAIN h.links : h.links[e] = h.disconnectWifi)
           => \A e \in DOMAIN ls : ls[e] = h.disconnectWifi
  <2>1. PICK k : k = h.links
    OBVIOUS
  <2>2. PICK u : u = [e \in DOMAIN k \ {d} |-> k[e]]
    OBVIOUS
  <2>3. u \in Links /\ \A e \in DOMAIN u : e \in DOMAIN k /\ u[e] = k[e]
    BY <1>1, <2>1, <2>2, FewerLinks
  <2>4. u = ls
    BY <2>1, <2>2
  <2> HIDE DEF ls
  <2> QED
    BY <2>1, <2>3, <2>4
<1>3. g = IF d \notin DOMAIN h.links THEN h ELSE updateHasWifi(f, n)
  BY DEF device_removed
<1> HIDE DEF ls
<1>4. KeptService(h, f) /\ f.flightMode = h.flightMode /\ f.kill = h.kill
  BY <1>2, NewLinks
<1> HIDE DEF f, g
<1>5. CASE d \notin DOMAIN h.links
  BY <1>3, <1>5, KeptServiceRefl DEF g
<1>6. CASE d \in DOMAIN h.links
  <2>1. f \in Services
    BY <1>4 DEF KeptService
  <2>2. /\ KeptService(f, g) /\ g.flightMode = f.flightMode /\ g.kill = f.kill
        /\ g.kill # "not_available" => (g.wifiEnabled <=> g.kill = "unblocked")
    BY <1>3, <1>6, <2>1, UpdateHasWifiKept
  <2> QED
    BY <1>4, <2>2, KeptServiceTrans DEF g
<1> QED
  BY <1>5, <1>6

(* What a signal is handled with.                                          *)
Handled(h, n, s) ==
    CASE s.t = "flight" -> [h EXCEPT !.flightMode = s.on]
      [] s.t = "state" -> updateHasWifi([h EXCEPT !.kill = n.kill], n)
      [] s.t = "added" -> device_added(h, n, s.dev)
      [] s.t = "removed" -> device_removed(h, n, s.dev)

(* Each of the four signals does what Heard says.                          *)
LEMMA HandledHeard ==
    ASSUME NEW w, WorldInv(w), NEW s \in Signals, s.t \notin {"list", "reactivate"}
    PROVE  Heard(w, s, Handled(w.hs, w.nm, s))
<1>1. PICK h : h = w.hs
  OBVIOUS
<1>2. PICK n : n = w.nm
  OBVIOUS
<1>3. /\ h \in Services /\ n \in Networks
      /\ h.kill # "not_available" => (h.wifiEnabled <=> h.kill = "unblocked")
  BY <1>1, <1>2, Parts DEF WorldInv, RadioInv
<1>4. /\ s.t \in {"flight", "state", "added", "removed"}
      /\ s.t = "flight" => s.on \in BOOLEAN
      /\ s.t \in {"added", "removed"} => s.dev \in Devices
  BY DEF Signals
<1> DEFINE g == Handled(h, n, s)
<1>5. CASE s.t = "flight"
  <2>1. g = [h EXCEPT !.flightMode = s.on]
    BY <1>5 DEF Handled
  <2>2. PICK on \in BOOLEAN : on = s.on
    BY <1>4, <1>5
  <2> DEFINE k == [h EXCEPT !.flightMode = on]
  <2>3. /\ k \in Services /\ k.flightMode = on /\ k.kill = h.kill
        /\ k.wifiEnabled = h.wifiEnabled
        /\ k.enabled = h.enabled /\ k.disconnectWifi = h.disconnectWifi
        /\ k.stored = h.stored /\ k.hotspot = h.hotspot /\ k.uuid = h.uuid
        /\ k.hook = h.hook /\ k.listed = h.listed /\ k.links = h.links
    BY <1>3 DEF Services
  <2>4. g = k
    BY <2>1, <2>2
  <2> HIDE DEF k, g
  <2>5. KeptService(h, g)
    BY <2>3, <2>4 DEF KeptService
  <2> QED
    BY <1>1, <1>2, <1>3, <1>5, <2>2, <2>3, <2>4, <2>5 DEF Heard, g
<1>6. CASE s.t = "state"
  <2> DEFINE k == [h EXCEPT !.kill = n.kill]
  <2>1. g = updateHasWifi(k, n)
    BY <1>6 DEF Handled
  <2>2. n.kill \in KillStates
    BY <1>3 DEF Networks
  <2>3. /\ k \in Services /\ k.flightMode = h.flightMode /\ k.kill = n.kill
        /\ k.enabled = h.enabled /\ k.disconnectWifi = h.disconnectWifi
        /\ k.stored = h.stored /\ k.hotspot = h.hotspot /\ k.uuid = h.uuid
        /\ k.hook = h.hook /\ k.listed = h.listed /\ k.links = h.links
    BY <1>3, <2>2 DEF Services
  <2> HIDE DEF k, g
  <2>4. KeptService(h, k)
    BY <2>3 DEF KeptService
  <2>5. /\ KeptService(k, g) /\ g.flightMode = k.flightMode /\ g.kill = k.kill
        /\ g.kill # "not_available" => (g.wifiEnabled <=> g.kill = "unblocked")
    BY <1>3, <2>1, <2>3, UpdateHasWifiKept
  <2>6. KeptService(h, g)
    BY <2>4, <2>5, KeptServiceTrans
  <2> QED
    BY <1>1, <1>2, <1>6, <2>3, <2>5, <2>6 DEF Heard, g
<1>7. CASE s.t \in {"added", "removed"}
  <2>1. s.dev \in Devices
    BY <1>4, <1>7
  <2>2. g = device_added(h, n, s.dev) \/ g = device_removed(h, n, s.dev)
    BY <1>7 DEF Handled
  <2> HIDE DEF g
  <2>3. /\ KeptService(h, g) /\ g.flightMode = h.flightMode /\ g.kill = h.kill
        /\ g.kill # "not_available" => (g.wifiEnabled <=> g.kill = "unblocked")
    BY <1>3, <2>1, <2>2, DeviceAddedKept, DeviceRemovedKept
  <2> QED
    BY <1>1, <1>2, <1>7, <2>3 DEF Heard, g
<1> QED
  BY <1>4, <1>5, <1>6, <1>7

(* A signal about flight mode, the kill switch or a device arrives.        *)
LEMMA HandleSignalStep ==
    ASSUME IInv, HandleSignal
    PROVE  IInv'
<1>1. PICK w : w = World
  OBVIOUS
<1>2. /\ WorldInv(w) /\ w.hs = hs /\ w.nm = nm /\ w.sig = sig /\ w.sig \in Seq(Signals)
  BY <1>1, Now, Parts
<1>3. PICK s : s = Head(w.sig)
  OBVIOUS
<1>4. w.sig # <<>> /\ s.t \notin {"list", "reactivate"}
  BY <1>2, <1>3 DEF HandleSignal
<1>5. PICK h : h = Handled(w.hs, w.nm, s)
  OBVIOUS
<1>6. s \in Signals
  BY <1>2, <1>3, <1>4, HeadTail
<1>7. Heard(w, s, h)
  BY <1>2, <1>4, <1>5, <1>6, HandledHeard
<1> DEFINE v == [hs |-> h, nm |-> w.nm, sig |-> Tail(w.sig)]
<1>8. /\ WorldInv(v) /\ v.nm = w.nm /\ (On(w) => On(v)) /\ (Off(w) => Off(v))
  BY <1>2, <1>3, <1>4, <1>7, HeardKept
<1>9. hs' = h /\ nm' = w.nm /\ sig' = Tail(w.sig) /\ wish' = wish
  BY <1>2, <1>3, <1>5 DEF HandleSignal, Handled
<1>10. World' = v
  BY <1>9 DEF World
<1> HIDE DEF v
<1>11. HotspotWish(w, wish.hotspot) => HotspotWish(v, wish.hotspot)
  BY <1>8 DEF HotspotWish
<1> QED
  BY <1>1, <1>2, <1>8, <1>9, <1>10, <1>11, SameWishes

(* Other signals, and else the same.                                       *)
LEMMA NewSignals ==
    ASSUME NEW w \in Worlds, NEW q
    PROVE  [w EXCEPT !.sig = q] = [hs |-> w.hs, nm |-> w.nm, sig |-> q]
BY DEF Worlds

(* reactivateConnection() looks for the device and activates.              *)
LEMMA ReactivateKept ==
    ASSUME NEW w, WorldInv(w), w.hs.hotspot # 0, NEW found \in BOOLEAN, NEW outcome \in Outcomes
    PROVE  LET v == activateConnection(findApDevice(w, found), outcome)
           IN  /\ WorldInv(v) /\ KeptRadio(w, v)
               /\ w.hs.enabled /\ w.hs.hook # 0 /\ w.hs.hotspot \in Stored(w.nm)
                     /\ outcome \in {"activated", "late"}
                  => On(v)
<1> DEFINE a == findApDevice(w, found)
           v == activateConnection(a, outcome)
<1>1. w \in Worlds /\ HotspotInv(w)
  BY DEF WorldInv
<1>2. KeptRadio(w, a) /\ KeptConn(w, a) /\ KeptActive(w, a)
  BY <1>1, FindApKept
<1> HIDE DEF a
<1>3. a \in Worlds /\ ConnInv(a) /\ ActiveInv(a)
  BY <1>1, <1>2, KeptPartsInv DEF KeptRadio, HotspotInv
<1>4. /\ KeptRadio(a, v) /\ v.hs = a.hs /\ v.nm.conns = a.nm.conns
      /\ ActiveInv(v)
      /\ outcome # "refused" => (v.nm.act # 0 => v.nm.conn = a.hs.hotspot)
      /\ outcome = "refused" => v = a
      /\ outcome \in {"activated", "late"} => v.nm.act # 0
  BY <1>3, ActivateKept
<1> HIDE DEF v
<1>5. KeptRadio(w, v)
  BY <1>2, <1>4, KeptRadioTrans
<1>6. KeptConn(a, v)
  BY <1>4 DEF KeptConn
<1>7. ConnInv(v)
  BY <1>3, <1>6, KeptPartsInv
<1>8. EnabledInv(a)
  BY <1>1, <1>2 DEF HotspotInv, EnabledInv, KeptConn, KeptActive
<1>9. EnabledInv(v)
  BY <1>4, <1>8 DEF EnabledInv
<1>10. WorldInv(v)
  BY <1>4, <1>5, <1>7, <1>9, KeptWorldInv DEF HotspotInv
<1>11. w.hs.enabled /\ w.hs.hook # 0 /\ w.hs.hotspot \in Stored(w.nm)
             /\ outcome \in {"activated", "late"}
          => On(v)
  BY <1>2, <1>4 DEF On, KeptConn, KeptActive, Stored
<1> QED
  BY <1>5, <1>10, <1>11 DEF v, a

(* "If our connection gets booted, reconnect."                             *)
LEMMA ReactivateStep ==
    ASSUME IInv, reactivateConnection
    PROVE  IInv'
<1>1. PICK w : w = World
  OBVIOUS
<1>2. PICK wanted : wanted = wish
  OBVIOUS
<1>3. /\ WorldInv(w) /\ w.hs = hs /\ w.nm = nm /\ w.sig = sig /\ w \in Worlds
      /\ w.hs \in Services /\ w.nm \in Networks /\ wanted \in Wishes
      /\ WifiWish(w, wanted.wifi) /\ FlightWish(w, wanted.flight)
      /\ HotspotWish(w, wanted.hotspot)
  BY <1>1, <1>2, Now, Parts
<1>4. w.sig # <<>> /\ Head(w.sig).t = "reactivate"
  BY <1>3 DEF reactivateConnection, Calls
<1> DEFINE x == [hs |-> w.hs, nm |-> w.nm, sig |-> Tail(w.sig)]
<1>5. Heard(w, Head(w.sig), w.hs)
  BY <1>3, <1>4, KeptServiceRefl DEF Heard, WorldInv, RadioInv
<1>6. /\ WorldInv(x) /\ x.nm = w.nm /\ x.hs = w.hs
      /\ On(w) /\ w.hs.listed.act # 0 => On(x)
      /\ ~Off(w)
  BY <1>3, <1>4, <1>5, HeardKept
<1>7. CASE hs.hotspot = 0 \/ getActiveConnection(hs) # 0
  <2>1. sig' = Tail(sig) /\ UNCHANGED <<hs, nm, wish, steps>>
    BY <1>7 DEF reactivateConnection
  <2>2. World' = x
    BY <1>3, <2>1 DEF World
  <2>3. On(w) => w.hs.listed.act # 0
    <3>1. On(w) => w.hs.hotspot # 0
      BY <1>3 DEF On, Stored, Networks
    <3> QED
      BY <1>3, <1>7, <3>1 DEF getActiveConnection
  <2> HIDE DEF x
  <2>4. HotspotWish(w, wish.hotspot) => HotspotWish(x, wish.hotspot)
    BY <1>6, <2>3 DEF HotspotWish
  <2> QED
    BY <1>1, <1>3, <1>6, <2>1, <2>2, <2>4, SameWishes
<1>8. CASE ~(hs.hotspot = 0 \/ getActiveConnection(hs) # 0)
  <2>1. PICK found \in BOOLEAN, outcome \in Outcomes :
          LET y == findApDevice([World EXCEPT !.sig = Tail(@)], found)
              again == found /\ outcome \in {"activated", "late"}
              forced == Tether \notin nm.devs \/ hs.hotspot \notin Stored(nm)
          IN  /\ found => Tether \in nm.devs
              /\ Possible(World, outcome)
              /\ ~found => outcome = "refused"
              /\ IF again \/ forced THEN UNCHANGED steps ELSE Step("events")
              /\ Becomes(activateConnection(y, outcome))
              /\ wish' = [wish EXCEPT !.hotspot = IF again THEN @ ELSE {}]
    BY <1>8, Zenon DEF reactivateConnection
  <2> DEFINE again == found /\ outcome \in {"activated", "late"}
             v == activateConnection(findApDevice(x, found), outcome)
  <2>2. [w EXCEPT !.sig = Tail(w.sig)] = x
    BY <1>3, NewSignals
  <2>3. /\ Possible(w, outcome)
        /\ Becomes(v)
        /\ wish' = [wanted EXCEPT !.hotspot = IF again THEN wanted.hotspot ELSE {}]
    BY <1>1, <1>2, <2>1, <2>2
  <2> HIDE DEF x
  <2>4. x.hs.hotspot # 0
    BY <1>3, <1>6, <1>8
  <2>5. /\ WorldInv(v) /\ KeptRadio(x, v)
        /\ x.hs.enabled /\ x.hs.hook # 0 /\ x.hs.hotspot \in Stored(x.nm)
              /\ outcome \in {"activated", "late"}
           => On(v)
    BY <1>6, <2>4, ReactivateKept
  <2> HIDE DEF v
  <2>6. World' = v
    BY <2>3, <2>5, BecomesWorld DEF WorldInv
  <2>7. again /\ On(w) => On(v)
    BY <1>6, <2>5 DEF On
  <2>8. v.nm.wireless = w.nm.wireless /\ v.nm.kill = w.nm.kill /\ v.nm.flight = w.nm.flight
    BY <1>6, <2>5 DEF KeptRadio
  <2> HIDE DEF again
  <2>9. PICK next : next = wish'
    OBVIOUS
  <2>10. /\ next \in Wishes /\ next.wifi = wanted.wifi /\ next.flight = wanted.flight
         /\ next.hotspot = IF again THEN wanted.hotspot ELSE {}
    BY <1>3, <2>3, <2>9 DEF Wishes
  <2>11. WifiWish(v, next.wifi) /\ FlightWish(v, next.flight)
    BY <1>3, <2>8, <2>10 DEF WifiWish, FlightWish
  <2>12. HotspotWish(v, next.hotspot)
    BY <1>3, <1>6, <2>7, <2>10 DEF HotspotWish
  <2> QED
    BY <1>1, <1>2, <2>5, <2>6, <2>9, <2>10, <2>11, <2>12, Stepped DEF WishInv
<1> QED
  BY <1>7, <1>8

-----------------------------------------------------------------------------
(* What others do                                                          *)

(* A step that leaves the radio as it is.                                  *)
LEMMA SameRadio ==
    ASSUME IInv, NEW v, NEW wanted, NEW g \in SUBSET BOOLEAN, WorldInv(v), World' = v,
           wanted = wish, wish' = [wanted EXCEPT !.hotspot = g],
           v.nm.wireless = nm.wireless, v.nm.kill = nm.kill, v.nm.flight = nm.flight,
           HotspotWish(v, g)
    PROVE  IInv'
<1>1. PICK w : w = World
  OBVIOUS
<1>2. /\ w.nm = nm /\ wanted \in Wishes /\ WifiWish(w, wanted.wifi)
      /\ FlightWish(w, wanted.flight)
  BY <1>1, Now
<1>3. PICK next : next = wish'
  OBVIOUS
<1>4. next \in Wishes /\ next.wifi = wanted.wifi /\ next.flight = wanted.flight /\ next.hotspot = g
  BY <1>2, <1>3 DEF Wishes
<1>5. WifiWish(v, next.wifi) /\ FlightWish(v, next.flight)
  BY <1>2, <1>4 DEF WifiWish, FlightWish
<1> QED
  <2>1. WishInv(v, next)
    BY <1>4, <1>5 DEF WishInv
  <2> QED
    BY <1>1, <1>3, <2>1, Stepped

(* One that leaves all the wishes.                                         *)
LEMMA SameRadioWish ==
    ASSUME IInv, NEW v, WorldInv(v), World' = v, wish' = wish,
           v.nm.wireless = nm.wireless, v.nm.kill = nm.kill, v.nm.flight = nm.flight,
           HotspotWish(World, wish.hotspot) => HotspotWish(v, wish.hotspot)
    PROVE  IInv'
<1>1. PICK wanted : wanted = wish
  OBVIOUS
<1>2. /\ wanted \in Wishes /\ HotspotWish(v, wanted.hotspot)
  BY <1>1, Now
<1>3. wanted.hotspot \in SUBSET BOOLEAN /\ [wanted EXCEPT !.hotspot = wanted.hotspot] = wanted
  BY <1>2 DEF Wishes
<1> QED
  BY <1>1, <1>2, <1>3, SameRadio

(* The hotspot, or what else is active, is dropped.                        *)
LEMMA DroppedKept ==
    ASSUME NEW w, WorldInv(w)
    PROVE  LET v == Deactivated(w)
           IN  /\ WorldInv(v) /\ KeptRadio(w, v) /\ (On(w) => On(v)) /\ (Off(w) => Off(v))
<1> DEFINE v == Deactivated(w)
<1>1. w \in Worlds /\ HotspotInv(w) /\ w.sig \in Seq(Signals)
  BY Parts DEF WorldInv
<1>2. /\ KeptRadio(w, v) /\ v.hs = w.hs /\ v.nm.conns = w.nm.conns
      /\ v.nm.act = 0 /\ v.nm.conn = 0 /\ ActiveInv(v)
  BY <1>1, DeactivatedKept DEF HotspotInv, ActiveInv
<1>3. w.nm.act = 0 => v = w
  BY DEF Deactivated
<1> HIDE DEF v
<1>4. ConnInv(v) /\ EnabledInv(v)
  BY <1>1, <1>2 DEF HotspotInv, ConnInv, EnabledInv, Stored
<1>5. WorldInv(v)
  BY <1>2, <1>4, KeptWorldInv DEF HotspotInv
<1>6. w.nm.act # 0 => w.hs.listed.act # 0 \/ Notices(v.sig)
  <2>1. Told(w.sig, "list", w.hs.listed.act, w.nm.act)
    BY <1>1 DEF HotspotInv, ActiveInv
  <2>2. w.nm.act # 0 => w.hs.listed.act # 0 \/ Notices(w.sig)
    BY <2>1 DEF Told, Value, Notices
  <2>3. Grows(w.sig, v.sig, {"list"}) /\ v.sig \in Seq(Signals)
    BY <1>2, Parts DEF KeptRadio
  <2> QED
    BY <1>1, <2>2, <2>3, GrowsNotices
<1>7. On(w) => On(v)
  BY <1>2, <1>3, <1>6 DEF On, Stored
<1>8. Off(w) => Off(v)
  BY <1>3 DEF Off
<1> QED
  BY <1>2, <1>5, <1>7, <1>8 DEF v

(* NetworkManager drops the hotspot.                                       *)
LEMMA BootedStep ==
    ASSUME IInv, Booted
    PROVE  IInv'
<1>1. PICK w : w = World
  OBVIOUS
<1>2. WorldInv(w) /\ w.nm = nm
  BY <1>1, Now
<1> DEFINE v == Deactivated(w)
<1>3. Becomes(v) /\ wish' = wish
  BY <1>1 DEF Booted
<1>4. WorldInv(v) /\ KeptRadio(w, v) /\ (On(w) => On(v)) /\ (Off(w) => Off(v))
  BY <1>2, DroppedKept
<1> HIDE DEF v
<1>5. World' = v
  BY <1>3, <1>4, BecomesWorld DEF WorldInv
<1>6. HotspotWish(w, wish.hotspot) => HotspotWish(v, wish.hotspot)
  BY <1>4 DEF HotspotWish
<1>7. v.nm.wireless = nm.wireless /\ v.nm.kill = nm.kill /\ v.nm.flight = nm.flight
  BY <1>2, <1>4 DEF KeptRadio
<1> QED
  BY <1>1, <1>3, <1>4, <1>5, <1>6, <1>7, SameRadioWish

(* NetworkManager with another network or other devices.                   *)
LEMMA NetworkKept ==
    ASSUME NEW w, WorldInv(w), NEW n \in Networks,
           n.conns = w.nm.conns, n.act = w.nm.act, n.conn = w.nm.conn,
           n.wireless = w.nm.wireless, n.kill = w.nm.kill, n.flight = w.nm.flight
    PROVE  LET a == [w EXCEPT !.nm = n]
           IN  /\ a \in Worlds /\ a.hs = w.hs /\ a.nm = n /\ a.sig = w.sig
               /\ WorldInv(a) /\ (On(w) => On(a)) /\ (Off(w) => Off(a))
<1> DEFINE a == [w EXCEPT !.nm = n]
<1>1. a \in Worlds /\ a.hs = w.hs /\ a.nm = n /\ a.sig = w.sig
  BY DEF WorldInv, Worlds
<1> HIDE DEF a
<1>2. RadioInv(a) /\ ConnInv(a)
  BY <1>1 DEF WorldInv, RadioInv, HotspotInv, ConnInv, Stored
<1>3. ActiveInv(a) /\ EnabledInv(a)
  BY <1>1 DEF WorldInv, HotspotInv, ActiveInv, EnabledInv, LinksTold
<1>4. (On(w) => On(a)) /\ (Off(w) => Off(a))
  BY <1>1 DEF On, Off, Stored
<1> QED
  BY <1>1, <1>2, <1>3, <1>4 DEF WorldInv, HotspotInv, a

(* Another network comes or goes.                                          *)
LEMMA OtherNetworkStep ==
    ASSUME IInv, OtherNetwork
    PROVE  IInv'
<1>1. PICK w : w = World
  OBVIOUS
<1>2. WorldInv(w) /\ w.nm = nm /\ w.nm \in Networks /\ w \in Worlds
  BY <1>1, Now, Parts
<1>3. PICK n : n = [w.nm EXCEPT !.other = ~w.nm.other]
  OBVIOUS
<1>4. /\ n \in Networks /\ n.conns = w.nm.conns /\ n.act = w.nm.act /\ n.conn = w.nm.conn
      /\ n.wireless = w.nm.wireless /\ n.kill = w.nm.kill /\ n.flight = w.nm.flight
  BY <1>2, <1>3 DEF Networks
<1> DEFINE a == [w EXCEPT !.nm = n]
           v == List(a)
<1>5. Becomes(v) /\ wish' = wish
  BY <1>1, <1>3 DEF OtherNetwork
<1>6. /\ a \in Worlds /\ a.hs = w.hs /\ a.nm = n /\ a.sig = w.sig
      /\ WorldInv(a) /\ (On(w) => On(a)) /\ (Off(w) => Off(a))
  BY <1>2, <1>4, NetworkKept
<1> HIDE DEF a
<1>7. /\ v \in Worlds /\ v.hs = a.hs /\ v.nm = a.nm /\ Grows(a.sig, v.sig, {"list"})
      /\ \A k : Told(v.sig, "list", k, v.nm.act)
  BY <1>6, ListParts
<1> HIDE DEF v
<1>8. KeptRadio(a, v)
  BY <1>6, <1>7 DEF KeptRadio
<1>9. ConnInv(v) /\ EnabledInv(v)
  BY <1>6, <1>7 DEF WorldInv, HotspotInv, ConnInv, EnabledInv, Stored
<1>10. ActiveInv(v)
  BY <1>6, <1>7 DEF WorldInv, HotspotInv, ActiveInv, LinksTold
<1>11. WorldInv(v)
  BY <1>6, <1>8, <1>9, <1>10, KeptWorldInv DEF HotspotInv
<1>12. a.sig \in Seq(Signals) /\ v.sig \in Seq(Signals)
  BY <1>6, <1>7, Parts
<1>13. (Notices(a.sig) => Notices(v.sig)) /\ (Comes(v.sig, "reactivate") => Comes(a.sig, "reactivate"))
  <2>1. "reactivate" \notin {"list"}
    OBVIOUS
  <2> QED
    BY <1>7, <1>12, <2>1, GrowsNotices, GrowsComes
<1>14. (On(a) => On(v)) /\ (Off(a) => Off(v))
  BY <1>7, <1>13 DEF On, Off, Stored
<1>15. World' = v
  BY <1>5, <1>7, BecomesWorld
<1>16. HotspotWish(w, wish.hotspot) => HotspotWish(v, wish.hotspot)
  BY <1>6, <1>14 DEF HotspotWish
<1>17. v.nm.wireless = nm.wireless /\ v.nm.kill = nm.kill /\ v.nm.flight = nm.flight
  BY <1>2, <1>4, <1>6, <1>7
<1> QED
  BY <1>1, <1>5, <1>11, <1>15, <1>16, <1>17, SameRadioWish

(* A signal about a device.                                                *)
LEMMA DeviceSent ==
    ASSUME NEW w, WorldInv(w), NEW s \in Signals, s.t \in {"added", "removed"}
    PROVE  LET v == Sent(w, s)
           IN  /\ WorldInv(v) /\ v.nm = w.nm /\ (On(w) => On(v)) /\ (Off(w) => Off(v))
<1> DEFINE v == Sent(w, s)
<1>1. w \in Worlds /\ w.sig \in Seq(Signals) /\ RadioInv(w)
  BY Parts DEF WorldInv
<1>2. v \in Worlds /\ v.hs = w.hs /\ v.nm = w.nm /\ v.sig = Append(w.sig, s)
  BY <1>1, SentParts
<1> HIDE DEF v
<1>3. v.sig \in Seq(Signals) /\ Grows(w.sig, v.sig, {"added", "removed"})
  BY <1>1, <1>2, GrowsAppend
<1>4. Grows(w.sig, v.sig, RadioKinds)
  <2>1. {"added", "removed"} \subseteq RadioKinds
    BY DEF RadioKinds
  <2> QED
    BY <1>1, <1>3, <2>1, GrowsMore
<1>5. KeptHotspot(w, v)
  BY <1>1, <1>2, <1>4 DEF KeptHotspot, LinksTold
<1>6. RadioInv(v)
  <2>1. "flight" \notin {"added", "removed"}
    OBVIOUS
  <2>2. Told(v.sig, "flight", w.hs.flightMode, w.nm.flight)
    BY <1>1, <1>3, <2>1, GrowsTold DEF RadioInv
  <2>3. Comes(w.sig, "state") => Comes(v.sig, "state")
    BY <1>1, <1>3, GrowsComes
  <2> QED
    BY <1>1, <1>2, <2>2, <2>3 DEF RadioInv
<1>7. \A h : HotspotWish(w, h) => HotspotWish(v, h)
  BY <1>5, KeptHotspotWish
<1>8. /\ HotspotWish(w, {TRUE}) <=> On(w)
      /\ HotspotWish(w, {FALSE}) <=> Off(w)
      /\ HotspotWish(v, {TRUE}) <=> On(v)
      /\ HotspotWish(v, {FALSE}) <=> Off(v)
  BY DEF HotspotWish
<1>9. (On(w) => On(v)) /\ (Off(w) => Off(v))
  BY <1>7, <1>8
<1> QED
  BY <1>2, <1>5, <1>6, <1>9, KeptWorldInv DEF v

(* urfkill changes the state of the kill switch.                           *)
LEMMA UrfkillKept ==
    ASSUME NEW w, WorldInv(w), NEW kill \in KillStates
    PROVE  LET v == Sent([w EXCEPT !.nm.kill = kill], [t |-> "state"])
           IN  /\ WorldInv(v) /\ v.nm.flight = w.nm.flight
               /\ \A h : HotspotWish(w, h) => HotspotWish(v, h)
<1> DEFINE a == [w EXCEPT !.nm.kill = kill]
           v == Sent(a, [t |-> "state"])
<1>1. w \in Worlds /\ RadioInv(w) /\ w.sig \in Seq(Signals)
  BY Parts DEF WorldInv
<1>2. /\ a \in Worlds /\ a.hs = w.hs /\ a.sig = w.sig /\ a.nm.flight = w.nm.flight
      /\ a.nm.conns = w.nm.conns /\ a.nm.act = w.nm.act /\ a.nm.conn = w.nm.conn
  BY <1>1 DEF Worlds, Networks
<1> HIDE DEF a
<1>3. KeptHotspot(w, a)
  BY <1>1, <1>2, GrowsRefl DEF KeptHotspot, LinksTold
<1>4. Told(a.sig, "flight", a.hs.flightMode, a.nm.flight)
  BY <1>1, <1>2 DEF RadioInv
<1>5. /\ KeptHotspot(a, v) /\ v.hs = a.hs /\ v.nm = a.nm
      /\ Told(v.sig, "flight", v.hs.flightMode, v.nm.flight)
      /\ Comes(v.sig, "state")
  BY <1>2, <1>4, StateSentKept
<1> HIDE DEF v
<1>6. KeptHotspot(w, v)
  BY <1>3, <1>5, KeptHotspotTrans
<1>7. RadioInv(v)
  BY <1>1, <1>2, <1>5 DEF RadioInv
<1> QED
  BY <1>2, <1>5, <1>6, <1>7, KeptWorldInv, KeptHotspotWish DEF v, a

(* Nothing is wished for the WiFi switch any more.                         *)
LEMMA UrfkillStep ==
    ASSUME IInv, NEW kill \in KillStates, UrfkillChanges(kill)
    PROVE  IInv'
<1>1. PICK w : w = World
  OBVIOUS
<1>2. PICK wanted : wanted = wish
  OBVIOUS
<1>3. /\ WorldInv(w) /\ w.nm = nm /\ wanted \in Wishes
      /\ FlightWish(w, wanted.flight) /\ HotspotWish(w, wanted.hotspot)
  BY <1>1, <1>2, Now
<1> DEFINE v == Sent([w EXCEPT !.nm.kill = kill], [t |-> "state"])
<1>4. Becomes(v) /\ wish' = [wanted EXCEPT !.wifi = {}]
  BY <1>1, <1>2 DEF UrfkillChanges
<1>5. /\ WorldInv(v) /\ v.nm.flight = w.nm.flight
      /\ \A h : HotspotWish(w, h) => HotspotWish(v, h)
  BY <1>3, UrfkillKept
<1> HIDE DEF v
<1>6. World' = v
  BY <1>4, <1>5, BecomesWorld DEF WorldInv
<1>7. PICK next : next = wish'
  OBVIOUS
<1>8. /\ next \in Wishes /\ next.wifi = {} /\ next.flight = wanted.flight
      /\ next.hotspot = wanted.hotspot
  BY <1>3, <1>4, <1>7 DEF Wishes
<1>9. WifiWish(v, next.wifi) /\ FlightWish(v, next.flight) /\ HotspotWish(v, next.hotspot)
  BY <1>3, <1>5, <1>8 DEF FlightWish, WifiWish
<1> QED
  BY <1>1, <1>2, <1>5, <1>6, <1>7, <1>8, <1>9, Stepped DEF WishInv

(* A device comes.                                                         *)
LEMMA DeviceAddedStep ==
    ASSUME IInv, NEW d \in Devices, DeviceAdded(d)
    PROVE  IInv'
<1>1. PICK w : w = World
  OBVIOUS
<1>2. WorldInv(w) /\ w.nm = nm /\ w.nm \in Networks /\ w \in Worlds
  BY <1>1, Now, Parts
<1>3. PICK n : n = [w.nm EXCEPT !.devs = w.nm.devs \cup {d}]
  OBVIOUS
<1>4. /\ n \in Networks /\ n.conns = w.nm.conns /\ n.act = w.nm.act /\ n.conn = w.nm.conn
      /\ n.wireless = w.nm.wireless /\ n.kill = w.nm.kill /\ n.flight = w.nm.flight
  BY <1>2, <1>3 DEF Networks
<1> DEFINE s == [t |-> "added", dev |-> d]
           a == [w EXCEPT !.nm = n]
           v == Sent(a, s)
<1>5. Becomes(v) /\ wish' = wish
  BY <1>1, <1>3 DEF DeviceAdded
<1>6. /\ a \in Worlds /\ a.nm = n
      /\ WorldInv(a) /\ (On(w) => On(a)) /\ (Off(w) => Off(a))
  BY <1>2, <1>4, NetworkKept
<1>7. s \in Signals /\ s.t \in {"added", "removed"}
  BY SignalTypes
<1> HIDE DEF a, s
<1>8. WorldInv(v) /\ v.nm = a.nm /\ (On(a) => On(v)) /\ (Off(a) => Off(v))
  BY <1>6, <1>7, DeviceSent
<1> HIDE DEF v
<1>9. World' = v
  BY <1>5, <1>8, BecomesWorld DEF WorldInv
<1>10. HotspotWish(w, wish.hotspot) => HotspotWish(v, wish.hotspot)
  BY <1>6, <1>8 DEF HotspotWish
<1>11. v.nm.wireless = nm.wireless /\ v.nm.kill = nm.kill /\ v.nm.flight = nm.flight
  BY <1>2, <1>4, <1>6, <1>8
<1> QED
  BY <1>1, <1>5, <1>8, <1>9, <1>10, <1>11, SameRadioWish

(* A device goes, and with the tethering interface the hotspot.            *)
LEMMA DeviceRemovedStep ==
    ASSUME IInv, NEW d \in Devices, DeviceRemoved(d)
    PROVE  IInv'
<1>1. PICK w : w = World
  OBVIOUS
<1>2. WorldInv(w) /\ w.nm = nm /\ w.nm \in Networks /\ w \in Worlds
  BY <1>1, Now, Parts
<1>3. PICK n : n = [w.nm EXCEPT !.devs = w.nm.devs \ {d}]
  OBVIOUS
<1>4. /\ n \in Networks /\ n.conns = w.nm.conns /\ n.act = w.nm.act /\ n.conn = w.nm.conn
      /\ n.wireless = w.nm.wireless /\ n.kill = w.nm.kill /\ n.flight = w.nm.flight
  BY <1>2, <1>3 DEF Networks
<1> DEFINE s == [t |-> "removed", dev |-> d]
           a == [w EXCEPT !.nm = n]
           b == Sent(a, s)
           v == IF d = Tether THEN Deactivated(b) ELSE b
<1>5. Becomes(v) /\ wish' = wish
  BY <1>1, <1>3 DEF DeviceRemoved
<1>6. /\ a \in Worlds /\ a.nm = n
      /\ WorldInv(a) /\ (On(w) => On(a)) /\ (Off(w) => Off(a))
  BY <1>2, <1>4, NetworkKept
<1>7. s \in Signals /\ s.t \in {"added", "removed"}
  BY SignalTypes
<1> HIDE DEF a, s
<1>8. WorldInv(b) /\ b.nm = a.nm /\ (On(a) => On(b)) /\ (Off(a) => Off(b))
  BY <1>6, <1>7, DeviceSent
<1> HIDE DEF b
<1>9. /\ WorldInv(v) /\ (On(b) => On(v)) /\ (Off(b) => Off(v))
      /\ v.nm.wireless = b.nm.wireless /\ v.nm.kill = b.nm.kill /\ v.nm.flight = b.nm.flight
  BY <1>8, DroppedKept DEF KeptRadio
<1> HIDE DEF v
<1>10. World' = v
  BY <1>5, <1>9, BecomesWorld DEF WorldInv
<1>11. HotspotWish(w, wish.hotspot) => HotspotWish(v, wish.hotspot)
  BY <1>6, <1>8, <1>9 DEF HotspotWish
<1>12. v.nm.wireless = nm.wireless /\ v.nm.kill = nm.kill /\ v.nm.flight = nm.flight
  BY <1>2, <1>4, <1>6, <1>8, <1>9
<1> QED
  BY <1>1, <1>5, <1>9, <1>10, <1>11, <1>12, SameRadioWish

(* Somebody deletes a connection.                                          *)
LEMMA DeletedKept ==
    ASSUME NEW w, WorldInv(w), NEW c \in Stored(w.nm)
    PROVE  LET a == [w EXCEPT !.nm.conns[c] = Gone]
           IN  /\ WorldInv(a) /\ (Off(w) => Off(a))
               /\ a.nm.wireless = w.nm.wireless /\ a.nm.kill = w.nm.kill
               /\ a.nm.flight = w.nm.flight
<1> DEFINE cs == [w.nm.conns EXCEPT ![c] = Gone]
           n == [w.nm EXCEPT !.conns = cs]
           a == [w EXCEPT !.nm.conns[c] = Gone]
<1>1. w \in Worlds /\ w.nm \in Networks /\ w.nm.conns \in Seq(Conns \cup {Gone})
  BY Parts DEF WorldInv, Networks
<1>2. /\ cs \in Seq(Conns \cup {Gone}) /\ DOMAIN cs = DOMAIN w.nm.conns
      /\ \A i \in DOMAIN cs : cs[i] = IF i = c THEN Gone ELSE w.nm.conns[i]
  BY <1>1 DEF Stored
<1>3. a = [w EXCEPT !.nm = n]
  BY <1>1 DEF Worlds, Networks
<1> HIDE DEF cs
<1>4. /\ n \in Networks /\ n.conns = cs /\ n.act = w.nm.act /\ n.conn = w.nm.conn
      /\ n.wireless = w.nm.wireless /\ n.kill = w.nm.kill /\ n.flight = w.nm.flight
  BY <1>1, <1>2 DEF Networks
<1> HIDE DEF n, a
<1>5. a \in Worlds /\ a.hs = w.hs /\ a.nm = n /\ a.sig = w.sig
  BY <1>1, <1>3, <1>4 DEF Worlds
<1>6. \A i \in Stored(a.nm) : i \in Stored(w.nm) /\ a.nm.conns[i] = w.nm.conns[i]
  BY <1>2, <1>4, <1>5 DEF Stored
<1>7. RadioInv(a) /\ ConnInv(a)
  BY <1>4, <1>5, <1>6 DEF WorldInv, RadioInv, HotspotInv, ConnInv
<1>8. ActiveInv(a) /\ EnabledInv(a)
  BY <1>4, <1>5 DEF WorldInv, HotspotInv, ActiveInv, EnabledInv, LinksTold
<1>9. Off(w) => Off(a)
  BY <1>4, <1>5 DEF Off
<1> QED
  BY <1>4, <1>5, <1>7, <1>8, <1>9 DEF WorldInv, HotspotInv, a

(* The hotspot, if it was that, is no longer wished on.                    *)
LEMMA DeletedStep ==
    ASSUME IInv, NEW c, DeletedByOther(c)
    PROVE  IInv'
<1>1. PICK w : w = World
  OBVIOUS
<1>2. PICK wanted : wanted = wish
  OBVIOUS
<1>3. /\ WorldInv(w) /\ w.nm = nm /\ wanted \in Wishes /\ HotspotWish(w, wanted.hotspot)
  BY <1>1, <1>2, Now
<1> DEFINE a == [w EXCEPT !.nm.conns[c] = Gone]
           v == IF w.nm.conn = c THEN Deactivated(a) ELSE a
<1>4. /\ c \in Stored(w.nm) /\ Becomes(v)
      /\ wish' = [wanted EXCEPT !.hotspot = wanted.hotspot \ {TRUE}]
  BY <1>1, <1>2, <1>3 DEF DeletedByOther
<1>5. /\ WorldInv(a) /\ (Off(w) => Off(a))
      /\ a.nm.wireless = w.nm.wireless /\ a.nm.kill = w.nm.kill
      /\ a.nm.flight = w.nm.flight
  BY <1>3, <1>4, DeletedKept
<1> HIDE DEF a
<1>6. /\ WorldInv(v) /\ (Off(a) => Off(v))
      /\ v.nm.wireless = a.nm.wireless /\ v.nm.kill = a.nm.kill
      /\ v.nm.flight = a.nm.flight
  BY <1>5, DroppedKept DEF KeptRadio
<1> HIDE DEF v
<1>7. World' = v
  BY <1>4, <1>6, BecomesWorld DEF WorldInv
<1>8. PICK g : g = wanted.hotspot \ {TRUE}
  OBVIOUS
<1>9. g \in SUBSET BOOLEAN /\ HotspotWish(v, g)
  BY <1>3, <1>5, <1>6, <1>8 DEF Wishes, HotspotWish
<1> QED
  BY <1>2, <1>3, <1>4, <1>5, <1>6, <1>7, <1>8, <1>9, SameRadio

-----------------------------------------------------------------------------
(* Starting                                                                *)

(* What is read of a stored connection, written and read field by field.   *)
LEMMA ReadFields ==
    ASSUME NEW A, NEW B, NEW C, NEW D,
           NEW s \in [ssid : A, password : B, mode : C, auth : D],
           NEW d \in [ssid : A, password : B, mode : C, auth : D],
           None \in D, d.auth # None => s.auth \in {None, d.auth}, d.auth # None
    PROVE  LET t == [d EXCEPT !.ssid = s.ssid, !.mode = s.mode]
               p == [t EXCEPT !.password = s.password]
               o == [t EXCEPT !.auth = None]
           IN  /\ p \in [ssid : A, password : B, mode : C, auth : D]
               /\ o \in [ssid : A, password : B, mode : C, auth : D]
               /\ p.ssid = s.ssid /\ p.mode = s.mode /\ p.password = s.password
               /\ p.auth = d.auth
               /\ o.ssid = s.ssid /\ o.mode = s.mode /\ o.auth = None
OBVIOUS

(* The default settings are settings, and so are those that are stored.    *)
LEMMA SettingsRecords ==
    \E A, B, C, D :
        /\ Settings = [ssid : A, password : B, mode : C, auth : D]
        /\ DefaultSettings \in Settings /\ None \in D
        /\ \A s \in Settings : s.auth \in {None, DefaultSettings.auth}
        /\ DefaultSettings.auth # None
<1> DEFINE A == Ssids \cup {"", "Ubuntu"}
           B == Passwords \cup {"generated"}
           C == {"ap", "adhoc"}
           D == {"wpa-psk", None}
<1>1. Settings = [ssid : A, password : B, mode : C, auth : D]
  BY Zenon DEF Settings
<1>2. "Ubuntu" \in A /\ "generated" \in B
  BY Zenon
<1> HIDE DEF A, B
<1>3. /\ DefaultSettings \in [ssid : A, password : B, mode : C, auth : D] /\ None \in D
      /\ \A s \in [ssid : A, password : B, mode : C, auth : D] : s.auth \in {None, DefaultSettings.auth}
      /\ DefaultSettings.auth # None
  BY <1>2 DEF DefaultSettings, None
<1> QED
  BY <1>1, <1>3, Zenon

(* A connection has a name.                                                *)
LEMMA HasName ==
    ASSUME NEW s \in Named
    PROVE  s \in Settings /\ s.ssid # ""
BY Zenon DEF Named

(* HotspotManager::updateSettingsFromDbus() of a connection that the       *)
(* manager wrote gives settings, and with the secrets those that would be  *)
(* written again.                                                          *)
LEMMA ReadBack ==
    ASSUME NEW s \in Named, NEW u \in Nat, NEW secrets \in BOOLEAN
    PROVE  LET conn == createConnectionSettings(s, u)
               t == SettingsFromDbus(DefaultSettings, conn, secrets)
           IN  /\ t \in Settings
               /\ secrets => createConnectionSettings(t, u) = conn
<1> DEFINE sec == IF s.auth = None THEN Empty ELSE [keyMgmt |-> s.auth, psk |-> s.password]
           conn == createConnectionSettings(s, u)
           t == SettingsFromDbus(DefaultSettings, conn, secrets)
<1>1. PICK d : d = DefaultSettings
  OBVIOUS
<1>2. conn.ssid = s.ssid /\ conn.mode = s.mode /\ conn.security = sec
  BY DEF createConnectionSettings
<1>3. (s.auth # None <=> sec # Empty) /\ (s.auth # None => sec.psk = s.password)
  <2>1. CASE s.auth # None
    <3>1. sec = [keyMgmt |-> s.auth, psk |-> s.password]
      BY <2>1
    <3>2. "psk" \in DOMAIN sec /\ "psk" \notin DOMAIN Empty
      BY <3>1 DEF Empty
    <3> QED
      BY <2>1, <3>1, <3>2
  <2>2. CASE s.auth = None
    BY <2>2
  <2> QED
    BY <2>1, <2>2
<1>4. PICK x : x = IF conn.ssid = "" THEN d.ssid ELSE conn.ssid
  BY Zenon
<1>5. x = s.ssid
  BY <1>2, <1>4, HasName, Zenon
<1> DEFINE r == [d EXCEPT !.ssid = s.ssid, !.mode = s.mode]
           p == [r EXCEPT !.password = s.password]
           o == [r EXCEPT !.auth = None]
<1>6. t = IF secrets /\ conn.security # Empty
          THEN [[d EXCEPT !.ssid = x, !.mode = conn.mode] EXCEPT !.password = conn.security.psk]
          ELSE [[d EXCEPT !.ssid = x, !.mode = conn.mode] EXCEPT !.auth = None]
  BY <1>1, <1>4, Zenon DEF SettingsFromDbus
<1> HIDE DEF conn, t, sec
<1>7. t = IF secrets /\ s.auth # None THEN p ELSE o
  BY <1>2, <1>3, <1>5, <1>6
<1> HIDE DEF r
<1>8. /\ p \in Settings /\ o \in Settings
      /\ p.ssid = s.ssid /\ p.mode = s.mode /\ p.password = s.password
      /\ p.auth = d.auth
      /\ o.ssid = s.ssid /\ o.mode = s.mode /\ o.auth = None
      /\ s.auth \in {None, d.auth}
  <2>1. PICK A, B, C, D :
          /\ Settings = [ssid : A, password : B, mode : C, auth : D]
          /\ DefaultSettings \in Settings /\ None \in D
          /\ \A z \in Settings : z.auth \in {None, DefaultSettings.auth}
          /\ DefaultSettings.auth # None
    BY SettingsRecords, Zenon
  <2>2. s \in Settings
    BY HasName, Zenon
  <2> QED
    BY <1>1, <2>1, <2>2, ReadFields DEF r
<1> HIDE DEF p, o
<1>9. t \in Settings
  BY <1>7, <1>8
<1>10. ASSUME secrets
       PROVE  createConnectionSettings(t, u) = createConnectionSettings(s, u)
  <2>1. CASE s.auth # None
    BY <1>7, <1>8, <1>10, <2>1 DEF createConnectionSettings
  <2>2. CASE s.auth = None
    BY <1>7, <1>8, <1>10, <2>2 DEF createConnectionSettings
  <2> QED
    BY <2>1, <2>2
<1> QED
  BY <1>9, <1>10, Zenon DEF t, conn

(* What is stored was written by the manager.                              *)
LEMMA StoredParts ==
    ASSUME NEW n \in Networks, NEW c \in Stored(n)
    PROVE  /\ c # 0 /\ c \in Nat /\ n.conns[c].uuid \in Nat
           /\ \E s \in Named : n.conns[c] = createConnectionSettings(s, n.conns[c].uuid)
           /\ n.conns[c].mode \in {"ap", "adhoc"}
<1>1. n.conns \in Seq(Conns \cup {Gone}) /\ c \in DOMAIN n.conns /\ n.conns[c] # Gone
  BY DEF Networks, Stored
<1>2. c # 0 /\ c \in Nat /\ n.conns[c] \in Conns
  BY <1>1
<1>3. PICK s \in Named, u \in Nat : n.conns[c] = createConnectionSettings(s, u)
  BY <1>2 DEF Conns
<1>4. n.conns[c].uuid = u /\ n.conns[c].mode = s.mode
  BY <1>3, ConnParts
<1>5. s.mode \in {"ap", "adhoc"}
  <2>1. s \in Settings
    BY HasName, Zenon
  <2>2. \E A, B, D : Settings = [ssid : A, password : B, mode : {"ap", "adhoc"}, auth : D]
    BY Zenon DEF Settings
  <2> QED
    BY <2>1, <2>2
<1> QED
  BY <1>2, <1>3, <1>4, <1>5

(* The constructors of the service, whatever they find.                    *)
LEMMA ConstructedInv ==
    ASSUME NEW n \in Networks, n.act = 0 => n.conn = 0,
           NEW c, c = 0 \/ c \in Stored(n), NEW secrets \in BOOLEAN,
           \A i \in Stored(n) : i # c => n.conns[i].mode = "adhoc"
    PROVE  LET v == [hs |-> Constructed(n, c, secrets), nm |-> n, sig |-> <<>>]
           IN  WorldInv(v) /\ (n.act = 0 => Off(v))
<1> DEFINE active == c # 0 /\ n.conn = c
           listed == [act |-> n.act, conn |-> n.conn, other |-> n.other]
           uuid == IF c = 0 THEN 0 ELSE n.conns[c].uuid
           set == IF c = 0 THEN DefaultSettings
                  ELSE SettingsFromDbus(DefaultSettings, n.conns[c], secrets)
           links == [d \in n.devs |-> active]
           stored == c # 0
           h == [enabled |-> active, wakelock |-> active, disconnectWifi |-> active,
                 stored |-> stored, hotspot |-> c, uuid |-> uuid,
                 device |-> NoDevice, hook |-> 0, listed |-> listed, set |-> set,
                 kill |-> n.kill, flightMode |-> n.flight, hasWifi |-> FALSE,
                 wifiEnabled |-> FALSE, links |-> links]
           g == Constructed(n, c, secrets)
           v == [hs |-> g, nm |-> n, sig |-> <<>>]
<1>1. g = updateHasWifi(h, n)
  BY DEF Constructed
<1>2. set \in Settings
  <2>1. CASE c = 0
    BY <2>1, SettingsRecords, Zenon
  <2>2. CASE c # 0
    <3>1. PICK s \in Named : n.conns[c] = createConnectionSettings(s, n.conns[c].uuid)
      BY <2>2, StoredParts
    <3>2. n.conns[c].uuid \in Nat
      BY <2>2, StoredParts
    <3>3. SettingsFromDbus(DefaultSettings, n.conns[c], secrets) \in Settings
      BY <3>1, <3>2, ReadBack, Zenon
    <3> QED
      BY <2>2, <3>3
  <2> QED
    BY <2>1, <2>2
<1>3. c \in Nat /\ uuid \in Nat /\ active \in BOOLEAN /\ stored \in BOOLEAN
  BY StoredParts
<1>4. /\ listed \in Listeds /\ listed.act = n.act /\ listed.conn = n.conn
      /\ n.kill \in KillStates /\ n.flight \in BOOLEAN /\ n.devs \in SUBSET Devices
  BY DEF Networks, Listeds
<1>5. active => c # 0 /\ n.conn = c
  OBVIOUS
<1>6. stored <=> c # 0
  OBVIOUS
<1>7. c # 0 => uuid = n.conns[c].uuid
  OBVIOUS
<1> HIDE DEF set, uuid, active, listed, stored
<1>8. links \in Links /\ \A d \in DOMAIN links : links[d] = active
  BY <1>3, <1>4 DEF Links
<1> HIDE DEF links
<1>9. /\ h \in Services /\ h.enabled = active /\ h.disconnectWifi = active
      /\ h.stored = stored /\ h.hotspot = c /\ h.uuid = uuid /\ h.hook = 0
      /\ h.listed = listed /\ h.links = links /\ h.kill = n.kill /\ h.flightMode = n.flight
  BY <1>2, <1>3, <1>4, <1>8 DEF Services
<1> HIDE DEF h
<1>10. /\ KeptService(h, g) /\ g.flightMode = n.flight /\ g.kill = n.kill
       /\ g.kill # "not_available" => (g.wifiEnabled <=> g.kill = "unblocked")
  BY <1>1, <1>9, UpdateHasWifiKept
<1> HIDE DEF g
<1>11. /\ g \in Services /\ g.enabled = active /\ g.disconnectWifi = active
       /\ g.stored = stored /\ g.hotspot = c /\ g.uuid = uuid /\ g.hook = 0
       /\ g.listed = listed /\ \A d \in DOMAIN g.links : g.links[d] = active
  BY <1>8, <1>9, <1>10 DEF KeptService
<1>12. v \in Worlds /\ v.hs = g /\ v.nm = n /\ v.sig = <<>>
  BY <1>11 DEF Worlds
<1> HIDE DEF v
<1>13. \A t, k : ~Comes(<<>>, t) /\ Told(<<>>, t, k, k)
  BY DEF Comes, Told
<1>14. RadioInv(v)
  BY <1>10, <1>12, <1>13 DEF RadioInv
<1>15. ConnInv(v)
  <2>1. c \in Stored(n) => c # 0
    BY StoredParts
  <2> QED
    BY <1>6, <1>7, <1>11, <1>12, <2>1 DEF ConnInv
<1>16. ActiveInv(v)
  BY <1>4, <1>11, <1>12, <1>13 DEF ActiveInv, LinksTold
<1>17. EnabledInv(v)
  BY <1>5, <1>11, <1>12 DEF EnabledInv
<1>18. n.act = 0 => Off(v)
  BY <1>5, <1>11, <1>12, <1>13 DEF Off
<1> QED
  BY <1>12, <1>14, <1>15, <1>16, <1>17, <1>18 DEF WorldInv, HotspotInv, v, g

(* The service is started again, without a hook.                           *)
LEMMA RestartStep ==
    ASSUME IInv, Restart
    PROVE  IInv'
<1>1. PICK w : w = World
  OBVIOUS
<1>2. PICK wanted : wanted = wish
  OBVIOUS
<1>3. /\ WorldInv(w) /\ w.nm = nm /\ wanted \in Wishes /\ w.nm \in Networks
      /\ ConnInv(w) /\ ActiveInv(w)
  BY <1>1, <1>2, Now, Parts DEF WorldInv, HotspotInv
<1>4. PICK c \in Found(w.nm), secrets \in BOOLEAN : hs' = Constructed(w.nm, c, secrets)
  BY <1>3 DEF Restart
<1>5. /\ nm' = w.nm /\ sig' = <<>>
      /\ wish' = [wanted EXCEPT !.hotspot = IF w.nm.act = 0 THEN wanted.hotspot \ {TRUE} ELSE {}]
  BY <1>2, <1>3 DEF Restart
<1>6. c = 0 \/ c \in Stored(w.nm)
  BY <1>4 DEF Found, Hotspots
<1>7. \A i \in Stored(w.nm) : i # c => w.nm.conns[i].mode = "adhoc"
  <2>1. CASE Hotspots(w.nm, "ap") = {}
    BY <1>3, <2>1, StoredParts DEF Hotspots
  <2>2. CASE Hotspots(w.nm, "ap") # {}
    <3>1. c \in Stored(w.nm) /\ w.nm.conns[c].mode = "ap"
      BY <1>4, <2>2 DEF Found, Hotspots
    <3>2. c = w.hs.hotspot
      BY <1>3, <3>1 DEF ConnInv
    <3> QED
      BY <1>3, <3>2 DEF ConnInv
  <2> QED
    BY <2>1, <2>2
<1> DEFINE v == [hs |-> Constructed(w.nm, c, secrets), nm |-> w.nm, sig |-> <<>>]
<1>8. WorldInv(v) /\ (w.nm.act = 0 => Off(v))
  BY <1>3, <1>6, <1>7, ConstructedInv DEF ActiveInv
<1>9. World' = v /\ v.nm = w.nm
  BY <1>4, <1>5 DEF World
<1> HIDE DEF v
<1>10. PICK g : g = IF w.nm.act = 0 THEN wanted.hotspot \ {TRUE} ELSE {}
  OBVIOUS
<1>11. g \in SUBSET BOOLEAN /\ HotspotWish(v, g)
  BY <1>3, <1>8, <1>10 DEF Wishes, HotspotWish
<1> QED
  BY <1>2, <1>3, <1>5, <1>8, <1>9, <1>10, <1>11, SameRadio

(* Nothing is stored, active, on its way or wished at first.               *)
LEMMA InitIInv ==
    ASSUME Init
    PROVE  IInv
<1>1. PICK kill \in {"not_available", "unblocked"}, devs \in {{}, Devices} :
           nm = [conns |-> <<>>, act |-> 0, conn |-> 0, other |-> FALSE,
                 wireless |-> TRUE, kill |-> kill, flight |-> FALSE,
                 devs |-> devs]
  BY DEF Init
<1>2. PICK n : n = nm
  OBVIOUS
<1>3. kill \in KillStates /\ devs \in SUBSET Devices
  BY DEF KillStates
<1>4. n \in Networks /\ n.act = 0 /\ n.conn = 0 /\ n.conns = <<>>
  BY <1>1, <1>2, <1>3 DEF Networks
<1>5. Stored(n) = {}
  BY <1>4 DEF Stored
<1> DEFINE v == [hs |-> Constructed(n, 0, TRUE), nm |-> n, sig |-> <<>>]
<1>6. TRUE \in BOOLEAN
  OBVIOUS
<1>7. WorldInv(v)
  BY <1>4, <1>5, <1>6, ConstructedInv, Zenon
<1>8. World = v
  BY <1>2 DEF Init, World
<1> HIDE DEF v
<1>9. PICK wanted : wanted = wish
  OBVIOUS
<1>10. wanted = [wifi |-> {}, flight |-> {}, hotspot |-> {}]
  BY <1>9 DEF Init
<1>11. wanted \in Wishes /\ wanted.wifi = {} /\ wanted.flight = {} /\ wanted.hotspot = {}
  BY <1>10 DEF Wishes
<1>12. WishInv(v, wanted)
  BY <1>11 DEF WishInv, WifiWish, FlightWish, HotspotWish
<1> QED
  BY <1>7, <1>8, <1>9, <1>12 DEF IInv

(* Every step keeps the invariant.                                         *)
LEMMA NextIInv ==
    ASSUME IInv, [Next]_vars
    PROVE  IInv'
<1>1. CASE Clients
  <2>1. ASSUME NEW b \in BOOLEAN, SetWifiEnabled(b) \/ SetHotspotEnabled(b) \/ SetFlightMode(b)
        PROVE  IInv'
    BY <2>1, SetWifiStep, SetHotspotStep, SetFlightStep, Zenon
  <2> QED
    BY <1>1, <2>1, SetSettingStep, Zenon DEF Clients
<1>2. CASE Others
  <2>1. CASE Booted \/ OtherNetwork \/ Restart
    BY <2>1, BootedStep, OtherNetworkStep, RestartStep
  <2>2. CASE \E k \in KillStates : UrfkillChanges(k)
    BY <2>2, UrfkillStep
  <2>3. CASE \E d \in Devices : DeviceAdded(d) \/ DeviceRemoved(d)
    BY <2>3, DeviceAddedStep, DeviceRemovedStep
  <2>4. CASE \E c \in DOMAIN nm.conns : DeletedByOther(c)
    BY <2>4, DeletedStep
  <2> QED
    BY <1>2, <2>1, <2>2, <2>3, <2>4 DEF Others
<1>3. CASE EventLoop
  BY <1>3, HandleListStep, HandleSignalStep, ReactivateStep DEF EventLoop
<1>4. CASE UNCHANGED vars
  BY <1>4 DEF vars, IInv, World
<1> QED
  BY <1>1, <1>2, <1>3, <1>4, Zenon DEF Next

(* The invariant holds, for any devices, names and passwords and however   *)
(* many changes, requests and events there are.                            *)
THEOREM HotspotInvariant == Spec => []IInv
<1>1. Init => IInv
  BY InitIInv
<1>2. IInv /\ [Next]_vars => IInv'
  BY NextIInv
<1> QED
  BY <1>1, <1>2, PTL DEF Spec

-----------------------------------------------------------------------------
(* What the invariant says of the properties                               *)

(* With nothing on its way, what is wished and known is what there is.     *)
LEMMA SettledHolds ==
    ASSUME NEW w, WorldInv(w), NEW wanted, WishInv(w, wanted), w.sig = <<>>
    PROVE  /\ \A on \in wanted.wifi :
                 /\ w.nm.wireless = on
                 /\ w.nm.kill # "not_available" => w.hs.wifiEnabled = on
           /\ \A on \in wanted.flight : w.hs.flightMode = on /\ w.nm.flight = on
           /\ \A on \in wanted.hotspot :
                 /\ w.hs.enabled = on /\ w.hs.disconnectWifi = on /\ (w.nm.act # 0) = on
                 /\ \A d \in DOMAIN w.hs.links : w.hs.links[d] = on
<1>1. /\ w.hs.flightMode = w.nm.flight /\ w.hs.listed.act = w.nm.act
      /\ w.hs.kill = w.nm.kill
      /\ w.hs.kill # "not_available" => (w.hs.wifiEnabled <=> w.hs.kill = "unblocked")
      /\ LinksTold(w) /\ EnabledInv(w)
  BY NothingComes DEF WorldInv, RadioInv, HotspotInv, ActiveInv, Comes
<1>2. /\ w.hs.wifiEnabled \in BOOLEAN /\ w.hs.enabled \in BOOLEAN
      /\ w.hs.disconnectWifi \in BOOLEAN
  BY DEF WorldInv, Worlds, Services
<1>3. wanted.wifi \subseteq BOOLEAN /\ wanted.hotspot \subseteq BOOLEAN
  BY DEF WishInv, Wishes
<1>4. ASSUME NEW on \in wanted.wifi
      PROVE  /\ w.nm.wireless = on
             /\ w.nm.kill # "not_available" => w.hs.wifiEnabled = on
  <2>1. /\ w.nm.wireless = on
        /\ w.nm.kill \in {"not_available", IF on THEN "unblocked" ELSE "soft_blocked"}
    BY DEF WishInv, WifiWish
  <2>2. on \in BOOLEAN
    BY <1>3
  <2>3. CASE on = TRUE
    BY <1>1, <1>2, <2>1, <2>3
  <2>4. CASE on = FALSE
    BY <1>1, <1>2, <2>1, <2>4
  <2> QED
    BY <2>2, <2>3, <2>4
<1>5. \A on \in wanted.flight : w.hs.flightMode = on /\ w.nm.flight = on
  BY <1>1 DEF WishInv, FlightWish
<1>6. ASSUME NEW on \in wanted.hotspot
      PROVE  /\ w.hs.enabled = on /\ w.hs.disconnectWifi = on /\ (w.nm.act # 0) = on
             /\ \A d \in DOMAIN w.hs.links : w.hs.links[d] = on
  <2>1. IF on THEN On(w) ELSE Off(w)
    BY DEF WishInv, HotspotWish
  <2>2. on \in BOOLEAN
    BY <1>3
  <2>3. CASE on = TRUE
    <3>1. w.hs.enabled = TRUE /\ w.hs.disconnectWifi = TRUE
      BY <1>1, <1>2, <2>1, <2>3 DEF On, EnabledInv
    <3>2. ~Notices(w.sig)
      BY DEF Notices
    <3>3. w.nm.act # 0
      BY <1>1, <2>1, <2>3, <3>2 DEF On
    <3> QED
      BY <1>1, <2>3, <3>1, <3>3 DEF LinksTold
  <2>4. CASE on = FALSE
    <3>1. w.hs.enabled = FALSE /\ w.hs.disconnectWifi = FALSE /\ w.nm.act = 0
      BY <1>2, <2>1, <2>4 DEF Off
    <3> QED
      BY <1>1, <2>4, <3>1 DEF LinksTold
  <2> QED
    BY <2>2, <2>3, <2>4
<1> QED
  BY <1>4, <1>5, <1>6

(* RequestsHold: a request that was made on current information and that   *)
(* nobody refused holds whenever no signal is on its way.                  *)
THEOREM HotspotRequestsHold == Spec => []RequestsHold
<1>1. IInv => RequestsHold
  <2> SUFFICES ASSUME IInv, Settled
               PROVE  /\ \A on \in wish.wifi :
                            nm.wireless = on /\ (nm.kill # "not_available" => hs.wifiEnabled = on)
                      /\ \A on \in wish.flight : hs.flightMode = on /\ nm.flight = on
                      /\ \A on \in wish.hotspot :
                            /\ hs.enabled = on /\ hs.disconnectWifi = on /\ (nm.act # 0) = on
                            /\ \A d \in DOMAIN hs.links : hs.links[d] = on
    BY DEF RequestsHold
  <2>1. PICK w : w = World
    OBVIOUS
  <2>2. WorldInv(w) /\ WishInv(w, wish) /\ w.hs = hs /\ w.nm = nm /\ w.sig = <<>>
    BY <2>1, Now DEF IInv, Settled
  <2> QED
    BY <2>2, SettledHolds
<1> QED
  BY <1>1, HotspotInvariant, PTL

(* KnownAfterRestart: the manager's connection, stored in mode "ap", is    *)
(* the only one that getHotspot() finds, and what is read of it would be   *)
(* written again.                                                          *)
THEOREM HotspotKnownAfterRestart == Spec => []KnownAfterRestart
<1>1. IInv => KnownAfterRestart
  <2> SUFFICES ASSUME IInv
               PROVE  KnownAfterRestart
    OBVIOUS
  <2>1. PICK w : w = World
    OBVIOUS
  <2>2. /\ w.hs = hs /\ w.nm = nm /\ ConnInv(w) /\ w.nm \in Networks
    BY <2>1, Now, Parts DEF WorldInv, HotspotInv
  <2>3. PICK c : c = hs.hotspot
    OBVIOUS
  <2>4. ASSUME c \in Hotspots(nm, "ap")
        PROVE  /\ Found(nm) = {c}
               /\ createConnectionSettings(SettingsFromDbus(DefaultSettings, nm.conns[c], TRUE), hs.uuid)
                    = nm.conns[c]
    <3>1. c \in Stored(w.nm) /\ w.nm.conns[c].uuid = hs.uuid
      BY <2>2, <2>3, <2>4 DEF Hotspots, ConnInv
    <3>2. \A i \in Stored(w.nm) : i # c => w.nm.conns[i].mode # "ap"
      BY <2>2, <2>3 DEF ConnInv
    <3>3. Hotspots(nm, "ap") = {c}
      BY <2>2, <2>4, <3>2 DEF Hotspots
    <3>4. Found(nm) = {c}
      BY <3>3 DEF Found
    <3>5. PICK s \in Named : w.nm.conns[c] = createConnectionSettings(s, hs.uuid)
      BY <2>2, <3>1, StoredParts
    <3>6. hs.uuid \in Nat
      BY <2>2, <3>1, StoredParts
    <3>7. TRUE \in BOOLEAN
      OBVIOUS
    <3>8. createConnectionSettings(SettingsFromDbus(DefaultSettings, nm.conns[c], TRUE), hs.uuid)
            = nm.conns[c]
      BY <2>2, <3>5, <3>6, <3>7, ReadBack, Zenon
    <3> QED
      BY <3>4, <3>8
  <2> QED
    BY <2>3, <2>4 DEF KnownAfterRestart
<1> QED
  BY <1>1, HotspotInvariant, PTL
=============================================================================
