-------------------------- MODULE MobileDataProofs --------------------------
(* Proofs of the invariants of MobileData, for any number of modems, SIMs, *)
(* clients and restarts.                                                   *)
EXTENDS MobileData, FiniteSetTheorems, TLAPS

----------------------------------------------------------------------------
(* What the slots of ManagerImpl and wwan::Sim preserve, as predicates on  *)
(* the record they work on.  pw is ofono's Powered.                        *)

Chosen(m) == \A s \in Sims : m.flag[s] => s = m.sim

Kept(m) ==
    /\ m.settings.enabled = m.enabled
    /\ m.settings.sim = m.sim
    /\ m.sim \in m.settings.known \cup {NoSim}

(* The last call under way is the SIM's own value; if there is none, ofono *)
(* has that value.                                                         *)
Forced(m, pw) ==
    \A s \in Sims : m.conn[s] =>
       /\ m.calls[s] = <<>> => pw[s] = m.flag[s]
       /\ m.calls[s] # <<>> => m.calls[s][Len(m.calls[s])] = SetPowered(m.flag[s])

Sound(m, pw) == m \in Mgr /\ Chosen(m) /\ Kept(m) /\ Forced(m, pw)

(* Nothing else has changed. *)
Same(m, n) == n.conn = m.conn /\ n.settings.known = m.settings.known

(* Send appends its call, or finds it at the end. *)
LEMMA SendProperties ==
  ASSUME NEW q \in Seq(Call), NEW c \in Call
  PROVE  /\ Send(q, c) \in Seq(Call)
         /\ Send(q, c) # <<>>
         /\ Send(q, c)[Len(Send(q, c))] = c
<1>1. CASE q # <<>> /\ q[Len(q)] = c
  BY <1>1 DEF Send
<1>2. CASE ~(q # <<>> /\ q[Len(q)] = c)
  <2>1. Send(q, c) = Append(q, c)
    BY <1>2 DEF Send
  <2>2. Append(q, c) \in Seq(Call) /\ Len(Append(q, c)) = Len(q) + 1
        /\ Append(q, c)[Len(q) + 1] = c
    OBVIOUS
  <2> QED
    BY <2>1, <2>2
<1> QED
  BY <1>1, <1>2

(* A value of Powered is a call, and the two differ. *)
LEMMA SetPoweredType ==
  ASSUME NEW v \in BOOLEAN
  PROVE  SetPowered(v) \in Call /\ SetPowered(v) # "get" /\ (SetPowered(v) = "on" <=> v)
BY DEF SetPowered, Call

(* Deleting a proxy keeps the rest of its calls. *)
LEMMA OrphanedType ==
  ASSUME NEW q \in Seq(Call)
  PROVE  Orphaned(q) \in Seq(Call)
<1>1. CASE \E i \in 1..Len(q) : q[i] = "get"
  <2> DEFINE i == CHOOSE i \in 1..Len(q) : q[i] = "get"
  <2>1. i \in 1..Len(q)
    BY <1>1
  <2>2. Orphaned(q) = RemoveAt(q, i)
    BY <1>1 DEF Orphaned
  <2> HIDE DEF i
  <2>3. SubSeq(q, 1, i - 1) \in Seq(Call) /\ SubSeq(q, i + 1, Len(q)) \in Seq(Call)
    BY <2>1
  <2>4. RemoveAt(q, i) = SubSeq(q, 1, i - 1) \o SubSeq(q, i + 1, Len(q))
    BY DEF RemoveAt
  <2> QED
    BY <2>2, <2>3, <2>4
<1>2. CASE ~\E i \in 1..Len(q) : q[i] = "get"
  BY <1>2 DEF Orphaned
<1> QED
  BY <1>1, <1>2

(* n is m with the flags of the SIMs of S set to v. *)
SetTo(m, n, S, v) ==
    /\ n \in Mgr /\ Same(m, n)
    /\ n.settings = m.settings /\ n.enabled = m.enabled /\ n.sim = m.sim
    /\ n.simPending = m.simPending /\ n.enabledPending = m.enabledPending
    /\ \A s \in Sims : n.flag[s] = IF s \in S THEN v ELSE m.flag[s]

(* Sim::setMobileDataEnabled() sends what it stores, to SIMs with a proxy. *)
LEMMA SimSetSound ==
  ASSUME NEW m \in Mgr, NEW pw, NEW S \in SUBSET Sims, NEW v \in BOOLEAN, Forced(m, pw)
  PROVE  /\ SetTo(m, SimSetMobileDataEnabled(m, S, v), S, v)
         /\ Forced(SimSetMobileDataEnabled(m, S, v), pw)
<1> DEFINE n == SimSetMobileDataEnabled(m, S, v)
           f == [s \in Sims |-> IF s \in S THEN v ELSE m.flag[s]]
           c == [s \in Sims |-> IF s \in S /\ m.conn[s] /\ m.flag[s] # v
                                THEN Send(m.calls[s], SetPowered(v)) ELSE m.calls[s]]
<1>0. /\ m.flag \in [Sims -> BOOLEAN] /\ m.calls \in [Sims -> Seq(Call)]
      /\ m.conn \in [Sims -> BOOLEAN]
  BY DEF Mgr
<1>1. f \in [Sims -> BOOLEAN]
  BY <1>0
<1>2. c \in [Sims -> Seq(Call)]
  <2> SUFFICES ASSUME NEW s \in Sims PROVE c[s] \in Seq(Call)
    OBVIOUS
  <2>1. Send(m.calls[s], SetPowered(v)) \in Seq(Call)
    BY <1>0, SendProperties, SetPoweredType
  <2> QED
    BY <1>0, <2>1
<1>3. n = [m EXCEPT !.flag = f, !.calls = c]
  BY DEF SimSetMobileDataEnabled
<1>4. \A s \in Sims : c[s] = IF s \in S /\ m.conn[s] /\ m.flag[s] # v
                             THEN Send(m.calls[s], SetPowered(v)) ELSE m.calls[s]
  OBVIOUS
<1>5. \A s \in Sims : f[s] = IF s \in S THEN v ELSE m.flag[s]
  OBVIOUS
<1> HIDE DEF f, c, n
<1>6. n \in Mgr
  BY <1>1, <1>2, <1>3 DEF Mgr
<1>7. /\ n.flag = f /\ n.calls = c /\ n.conn = m.conn /\ n.settings = m.settings
      /\ n.enabled = m.enabled /\ n.sim = m.sim
      /\ n.simPending = m.simPending /\ n.enabledPending = m.enabledPending
  BY <1>3 DEF Mgr
<1>8. Forced(n, pw)
  <2> SUFFICES ASSUME NEW s \in Sims, n.conn[s]
               PROVE  /\ c[s] = <<>> => pw[s] = f[s]
                      /\ c[s] # <<>> => c[s][Len(c[s])] = SetPowered(f[s])
    BY <1>7 DEF Forced
  <2>1. CASE s \in S /\ m.flag[s] # v
    <3>1. c[s] = Send(m.calls[s], SetPowered(v)) /\ f[s] = v
      BY <1>4, <1>5, <1>7, <2>1
    <3>2. m.calls[s] \in Seq(Call) /\ SetPowered(v) \in Call
      BY <1>0, SetPoweredType
    <3>3. c[s] # <<>> /\ c[s][Len(c[s])] = SetPowered(v)
      <4>1. PICK q : q = m.calls[s]
        OBVIOUS
      <4>2. PICK k : k = SetPowered(v)
        OBVIOUS
      <4>3. Send(q, k) # <<>> /\ Send(q, k)[Len(Send(q, k))] = k
        BY <3>2, <4>1, <4>2, SendProperties
      <4>4. c[s] = Send(q, k)
        BY <3>1, <4>1, <4>2
      <4> QED
        BY <4>2, <4>3, <4>4
    <3> QED
      BY <3>1, <3>3
  <2>2. CASE ~(s \in S /\ m.flag[s] # v)
    <3>1. c[s] = m.calls[s] /\ f[s] = m.flag[s]
      BY <1>4, <1>5, <1>7, <2>2
    <3> QED
      BY <3>1, <1>7 DEF Forced
  <2> QED
    BY <2>1, <2>2
<1> QED
  BY <1>5, <1>6, <1>7, <1>8 DEF Same, SetTo, n

(* The switch: only the chosen SIM is switched on. *)
LEMMA SetEnabledSound ==
  ASSUME NEW m, NEW pw, Sound(m, pw), NEW carried \in SUBSET Sims, NEW v \in BOOLEAN
  PROVE  LET n == SetMobileDataEnabled(m, carried, v)
         IN  Sound(n, pw) /\ Same(m, n) /\ n.enabled = v /\ n.sim = m.sim
             /\ n.simPending = m.simPending
<1>0. m \in Mgr /\ Chosen(m) /\ Kept(m) /\ Forced(m, pw)
  BY DEF Sound
<1>1. CASE m.enabled = v /\ ~m.enabledPending
  BY <1>0, <1>1 DEF SetMobileDataEnabled, Sound, Same
<1>2. CASE ~(m.enabled = v /\ ~m.enabledPending)
  <2> DEFINE k == [m EXCEPT !.enabled = v, !.enabledPending = FALSE,
                            !.settings = [@ EXCEPT !.enabled = v]]
             S == IF v THEN carried \cap {m.sim} ELSE carried
             n == SimSetMobileDataEnabled(k, S, v)
  <2>1. SetMobileDataEnabled(m, carried, v) = n
    BY <1>2 DEF SetMobileDataEnabled
  <2>2. k \in Mgr
    BY <1>0 DEF Mgr, Settings
  <2>3. /\ k.flag = m.flag /\ k.conn = m.conn /\ k.calls = m.calls /\ k.sim = m.sim
        /\ k.simPending = m.simPending /\ k.enabled = v
        /\ k.settings.enabled = v /\ k.settings.sim = m.settings.sim
        /\ k.settings.known = m.settings.known
    BY <1>0 DEF Mgr, Settings
  <2>4. Forced(k, pw)
    BY <1>0, <2>3 DEF Forced
  <2>5. S \in SUBSET Sims
    OBVIOUS
  <2>6. v => S \subseteq {m.sim}
    OBVIOUS
  <2> HIDE DEF k, S
  <2>7. /\ n \in Mgr /\ Same(k, n) /\ Forced(n, pw)
        /\ n.settings = k.settings /\ n.enabled = k.enabled /\ n.sim = k.sim
        /\ n.simPending = k.simPending
        /\ \A s \in Sims : n.flag[s] = IF s \in S THEN v ELSE k.flag[s]
    BY <2>2, <2>4, <2>5, SimSetSound DEF SetTo
  <2> HIDE DEF n
  <2>8. Chosen(n)
    BY <1>0, <2>3, <2>6, <2>7 DEF Chosen
  <2>9. Kept(n)
    BY <1>0, <2>3, <2>7 DEF Kept
  <2> QED
    BY <2>1, <2>3, <2>7, <2>8, <2>9 DEF Sound, Same
<1> QED
  BY <1>1, <1>2

(* The choice: the old SIM loses data before the new one gets it. *)
LEMMA SetSimSound ==
  ASSUME NEW m, NEW pw, Sound(m, pw), NEW carried \in SUBSET Sims,
         NEW s \in m.settings.known \cup {NoSim}
  PROVE  LET n == SetSimForMobileData(m, carried, s)
         IN  Sound(n, pw) /\ Same(m, n) /\ n.sim = s /\ n.enabled = m.enabled
<1>0. m \in Mgr /\ Chosen(m) /\ Kept(m) /\ Forced(m, pw)
  BY DEF Sound
<1>1. CASE m.sim = s /\ ~m.simPending
  BY <1>0, <1>1 DEF SetSimForMobileData, Sound, Same
<1>2. CASE ~(m.sim = s /\ ~m.simPending)
  <2> DEFINE j == [m EXCEPT !.simPending = FALSE]
             n == IF m.simPending THEN SetMobileDataEnabled(j, carried, m.enabled) ELSE m
             old == {m.sim} \ {NoSim}
             new == {s} \ {NoSim}
             off == SimSetMobileDataEnabled(n, old, FALSE)
             chosen == [off EXCEPT !.sim = s, !.settings = [@ EXCEPT !.sim = s]]
             v == m.enabled
             r == SimSetMobileDataEnabled(chosen, new, v)
  <2>1. SetSimForMobileData(m, carried, s) = r
    BY <1>2 DEF SetSimForMobileData
  <2>t. m.enabled \in BOOLEAN /\ m.sim \in Sims \cup {NoSim} /\ s \in Sims \cup {NoSim}
    BY <1>0 DEF Mgr, Settings
  <2>2. Sound(j, pw) /\ Same(m, j) /\ j.sim = m.sim /\ j.enabled = m.enabled
    BY <1>0 DEF Mgr, Chosen, Kept, Forced, Sound, Same
  <2> HIDE DEF j
  <2>3. Sound(n, pw) /\ Same(m, n) /\ n.sim = m.sim /\ n.enabled = m.enabled
    BY <1>0, <2>2, <2>t, SetEnabledSound DEF Same, Sound
  <2> HIDE DEF n
  <2>a. n \in Mgr /\ Forced(n, pw)
    BY <2>3 DEF Sound
  <2>b. /\ old \in SUBSET Sims /\ \A t \in Sims : t = m.sim => t \in old
        /\ new \in SUBSET Sims /\ \A t \in new : t = s
    BY <2>t, ConstantsAssumption
  <2> HIDE DEF old, new
  <2>4. /\ off \in Mgr /\ Same(n, off) /\ Forced(off, pw)
        /\ off.settings = n.settings /\ off.enabled = n.enabled /\ off.sim = n.sim
        /\ \A t \in Sims : off.flag[t] = IF t \in old THEN FALSE ELSE n.flag[t]
    <3>1. SetTo(n, off, old, FALSE) /\ Forced(off, pw)
      BY <2>a, <2>b, SimSetSound
    <3> QED
      BY <3>1 DEF SetTo
  <2> HIDE DEF off
  <2>5. \A t \in Sims : ~off.flag[t]
    <3>1. n.flag \in [Sims -> BOOLEAN] /\ \A t \in Sims : n.flag[t] => t = m.sim
      BY <2>3 DEF Sound, Chosen, Mgr
    <3> QED
      BY <2>4, <2>b, <3>1
  <2>6. /\ chosen \in Mgr /\ Same(off, chosen) /\ chosen.sim = s
        /\ chosen.settings.sim = s /\ chosen.settings.enabled = off.settings.enabled
        /\ chosen.flag = off.flag /\ chosen.calls = off.calls /\ chosen.enabled = off.enabled
    BY <2>4, <2>t DEF Mgr, Settings, Same
  <2>7. Forced(chosen, pw)
    BY <2>4, <2>6 DEF Forced, Same
  <2>c. chosen \in Mgr /\ v \in BOOLEAN /\ new \in SUBSET Sims
    BY <2>6, <2>b, <2>t
  <2> HIDE DEF chosen, v
  <2>8. /\ r \in Mgr /\ Same(chosen, r) /\ Forced(r, pw)
        /\ r.settings = chosen.settings /\ r.enabled = chosen.enabled /\ r.sim = chosen.sim
        /\ \A t \in Sims : r.flag[t] = IF t \in new THEN v ELSE chosen.flag[t]
    <3>1. SetTo(chosen, r, new, v) /\ Forced(r, pw)
      BY <2>7, <2>c, SimSetSound
    <3> QED
      BY <3>1 DEF SetTo
  <2> HIDE DEF r
  <2>9. Chosen(r)
    BY <2>5, <2>6, <2>8, <2>b DEF Chosen
  <2>10. Kept(r)
    BY <2>3, <2>4, <2>6, <2>8 DEF Kept, Same, Sound
  <2> QED
    BY <2>1, <2>3, <2>4, <2>6, <2>8, <2>9, <2>10 DEF Sound, Same
<1> QED
  BY <1>1, <1>2

(* The calls of SIM s are replaced by q, which ends in the SIM's own value *)
(* or is left to a SIM without a proxy; only its Powered changes.          *)
LEMMA CallsSound ==
  ASSUME NEW m, NEW pw, Sound(m, pw), NEW s \in Sims, NEW q \in Seq(Call), NEW pw2,
         \A t \in Sims \ {s} : pw2[t] = pw[t],
         m.conn[s] => \/ q # <<>> /\ q[Len(q)] = SetPowered(m.flag[s])
                      \/ q = <<>> /\ pw2[s] = m.flag[s],
         NEW n, n = [m EXCEPT !.calls = [@ EXCEPT ![s] = q]]
  PROVE  Sound(n, pw2) /\ n.conn = m.conn /\ n.settings = m.settings
<1>0. m \in Mgr /\ Chosen(m) /\ Kept(m) /\ Forced(m, pw)
  BY DEF Sound
<1>1. /\ n.conn = m.conn /\ n.settings = m.settings /\ n.flag = m.flag /\ n.sim = m.sim
      /\ n.enabled = m.enabled /\ n.calls = [m.calls EXCEPT ![s] = q] /\ n \in Mgr
  BY <1>0 DEF Mgr
<1>2. m.calls \in [Sims -> Seq(Call)]
  BY <1>0 DEF Mgr
<1>3. n.calls[s] = q /\ \A t \in Sims \ {s} : n.calls[t] = m.calls[t]
  BY <1>1, <1>2
<1>4. Chosen(n) /\ Kept(n)
  BY <1>0, <1>1 DEF Chosen, Kept
<1>5. Forced(n, pw2)
  <2> SUFFICES ASSUME NEW t \in Sims, m.conn[t]
               PROVE  /\ n.calls[t] = <<>> => pw2[t] = m.flag[t]
                      /\ n.calls[t] # <<>> => n.calls[t][Len(n.calls[t])] = SetPowered(m.flag[t])
    BY <1>1 DEF Forced
  <2>1. CASE t = s
    BY <1>3, <2>1
  <2>2. CASE t # s
    BY <1>0, <1>3, <2>2 DEF Forced
  <2> QED
    BY <2>1, <2>2
<1> QED
  BY <1>1, <1>3, <1>4, <1>5 DEF Sound

(* The SIM sends its own value. *)
LEMMA SendSound ==
  ASSUME NEW m, NEW pw, Sound(m, pw), NEW s \in Sims, NEW pw2,
         \A t \in Sims \ {s} : pw2[t] = pw[t]
  PROVE  LET n == [m EXCEPT !.calls = [@ EXCEPT ![s] = Send(m.calls[s], SetPowered(m.flag[s]))]]
         IN  Sound(n, pw2) /\ Same(m, n)
<1> DEFINE q == Send(m.calls[s], SetPowered(m.flag[s]))
           n == [m EXCEPT !.calls = [@ EXCEPT ![s] = q]]
<1>1. m.calls \in [Sims -> Seq(Call)] /\ m.flag \in [Sims -> BOOLEAN]
  BY DEF Sound, Mgr
<1>2. m.calls[s] \in Seq(Call) /\ SetPowered(m.flag[s]) \in Call
  BY <1>1, SetPoweredType
<1>3. q \in Seq(Call) /\ q # <<>> /\ q[Len(q)] = SetPowered(m.flag[s])
  BY <1>2, SendProperties
<1> HIDE DEF q
<1>4. PICK r : r = n
  OBVIOUS
<1>5. Sound(r, pw2) /\ r.conn = m.conn /\ r.settings = m.settings
  BY <1>3, <1>4, CallsSound
<1> QED
  BY <1>4, <1>5 DEF Same, q

(* Sim::Private::update() answers a change of Powered. *)
LEMMA UpdateSound ==
  ASSUME NEW m, NEW pw, Sound(m, pw), NEW s \in Sims, NEW v \in BOOLEAN
  PROVE  /\ Sound(Update(m, s, v), pw) /\ Same(m, Update(m, s, v))
         /\ \A pw2 : pw2[s] = v /\ (\A t \in Sims \ {s} : pw2[t] = pw[t])
                     => Sound(Update(m, s, v), pw2)
<1>1. CASE m.conn[s] /\ m.flag[s] # v
  <2> DEFINE n == [m EXCEPT !.calls = [@ EXCEPT ![s] = Send(m.calls[s], SetPowered(m.flag[s]))]]
  <2>1. Update(m, s, v) = n
    BY <1>1 DEF Update
  <2>2. Sound(n, pw) /\ Same(m, n)
    BY SendSound
  <2>3. ASSUME NEW pw2, \A t \in Sims \ {s} : pw2[t] = pw[t]
        PROVE  Sound(n, pw2)
    BY <2>3, SendSound
  <2> QED
    BY <2>1, <2>2, <2>3
<1>2. CASE ~(m.conn[s] /\ m.flag[s] # v)
  <2>1. Update(m, s, v) = m
    BY <1>2 DEF Update
  <2>2. ASSUME NEW pw2, pw2[s] = v, \A t \in Sims \ {s} : pw2[t] = pw[t]
        PROVE  Forced(m, pw2)
    BY <1>2, <2>2 DEF Sound, Forced
  <2> QED
    BY <2>1, <2>2 DEF Sound, Same
<1> QED
  BY <1>1, <1>2

(* A proxy comes or goes. *)
LEMMA SetConnManagerSound ==
  ASSUME NEW m, NEW pw, Sound(m, pw), NEW s \in Sims, NEW p
  PROVE  LET n == SetConnManager(m, s, p)
         IN  Sound(n, pw) /\ n.conn = [m.conn EXCEPT ![s] = (p # NoPath)]
             /\ n.settings = m.settings
<1> DEFINE o == Orphaned(m.calls[s])
           q == IF p = NoPath THEN o ELSE Append(Append(o, "get"), SetPowered(m.flag[s]))
           k == [m EXCEPT !.calls = [@ EXCEPT ![s] = q]]
           n == [m EXCEPT !.conn = [@ EXCEPT ![s] = (p # NoPath)],
                          !.calls = [@ EXCEPT ![s] = q]]
<1>0. m \in Mgr /\ Chosen(m) /\ Kept(m) /\ Forced(m, pw)
  BY DEF Sound
<1>1. /\ m.calls \in [Sims -> Seq(Call)] /\ m.flag \in [Sims -> BOOLEAN]
      /\ m.conn \in [Sims -> BOOLEAN]
  BY <1>0 DEF Mgr
<1>2. SetConnManager(m, s, p) = n
  BY <1>0 DEF SetConnManager, Mgr
<1>3. o \in Seq(Call)
  BY <1>1, OrphanedType
<1>4. SetPowered(m.flag[s]) \in Call /\ "get" \in Call
  BY <1>1, SetPoweredType DEF Call
<1> HIDE DEF o
<1>5. q \in Seq(Call) /\ (p # NoPath => q # <<>> /\ q[Len(q)] = SetPowered(m.flag[s]))
  <2> DEFINE a == Append(o, "get")
             c == SetPowered(m.flag[s])
  <2>1. a \in Seq(Call)
    BY <1>3, <1>4
  <2> HIDE DEF a, c
  <2>2. /\ Append(a, c) \in Seq(Call) /\ Len(Append(a, c)) = Len(a) + 1
        /\ Append(a, c)[Len(a) + 1] = c
    BY <1>4, <2>1 DEF c
  <2>3. Append(a, c) # <<>>
    BY <2>1, <2>2
  <2> QED
    BY <1>3, <2>2, <2>3 DEF a, c
<1> HIDE DEF q
<1>6. /\ n.conn = [m.conn EXCEPT ![s] = (p # NoPath)] /\ n.settings = m.settings
      /\ n.flag = m.flag /\ n.sim = m.sim /\ n.enabled = m.enabled
      /\ n.calls = [m.calls EXCEPT ![s] = q] /\ n \in Mgr
  BY <1>0, <1>1, <1>5 DEF Mgr
<1> HIDE DEF n
<1>7. Chosen(n) /\ Kept(n)
  BY <1>0, <1>6 DEF Chosen, Kept
<1>8. Forced(n, pw)
  <2> SUFFICES ASSUME NEW t \in Sims, n.conn[t]
               PROVE  /\ n.calls[t] = <<>> => pw[t] = m.flag[t]
                      /\ n.calls[t] # <<>> => n.calls[t][Len(n.calls[t])] = SetPowered(m.flag[t])
    BY <1>6 DEF Forced
  <2>1. CASE t = s
    <3>1. p # NoPath /\ n.calls[s] = q
      BY <1>1, <1>6, <2>1
    <3> QED
      BY <1>5, <2>1, <3>1
  <2>2. CASE t # s
    <3>1. m.conn[t] /\ n.calls[t] = m.calls[t]
      BY <1>1, <1>6, <2>2
    <3> QED
      BY <1>0, <3>1 DEF Forced
  <2> QED
    BY <2>1, <2>2
<1> QED
  BY <1>2, <1>6, <1>7, <1>8 DEF Sound

(* Calls are only lost for a SIM without a proxy. *)
LEMMA LostSound ==
  ASSUME NEW m, NEW pw, Sound(m, pw), NEW s \in Sims \cup {NoSim}, s \in Sims => ~m.conn[s]
  PROVE  LET n == Lost(m, s)
         IN  Sound(n, pw) /\ n.conn = m.conn /\ n.settings = m.settings
<1>1. CASE s = NoSim
  BY <1>1 DEF Lost
<1>2. CASE s # NoSim
  <2> DEFINE q == <<>>
             n == [m EXCEPT !.calls = [@ EXCEPT ![s] = q]]
  <2>1. Lost(m, s) = n
    BY <1>2 DEF Lost
  <2>2. q \in Seq(Call) /\ s \in Sims /\ ~m.conn[s]
    BY <1>2
  <2> HIDE DEF q
  <2>3. Sound(n, pw) /\ n.conn = m.conn /\ n.settings = m.settings
    <3>1. \A t \in Sims \ {s} : pw[t] = pw[t]
      OBVIOUS
    <3>2. m.conn[s] => \/ q # <<>> /\ q[Len(q)] = SetPowered(m.flag[s])
                       \/ q = <<>> /\ pw[s] = m.flag[s]
      BY <2>2
    <3>3. n = [m EXCEPT !.calls = [@ EXCEPT ![s] = q]]
      OBVIOUS
    <3> HIDE DEF n
    <3> QED
      BY <2>2, <3>1, <3>2, <3>3, CallsSound
  <2> QED
    BY <2>1, <2>3
<1> QED
  BY <1>1, <1>2

(* The first run takes over what a modem says. *)
LEMMA InitialDataOnSetSound ==
  ASSUME NEW m, NEW pw, Sound(m, pw), NEW carried \in SUBSET Sims, NEW s \in m.settings.known
  PROVE  LET n == InitialDataOnSet(m, carried, s)
         IN  Sound(n, pw) /\ Same(m, n)
<1> DEFINE k == SetMobileDataEnabled(m, carried, TRUE)
           n == SetSimForMobileData(k, carried, s)
<1>1. Sound(k, pw) /\ Same(m, k)
  BY SetEnabledSound
<1> HIDE DEF k
<1>2. s \in k.settings.known \cup {NoSim}
  BY <1>1 DEF Same
<1>3. Sound(n, pw) /\ Same(k, n)
  BY <1>1, <1>2, SetSimSound
<1> HIDE DEF n
<1>4. InitialDataOnSet(m, carried, s) = n \/ InitialDataOnSet(m, carried, s) = m
  BY DEF InitialDataOnSet, n, k
<1> QED
  BY <1>1, <1>3, <1>4 DEF Same

----------------------------------------------------------------------------
(* Matching. *)

(* SimAt finds the SIM at a place, if there is one. *)
LEMMA SimAtProperties ==
  ASSUME NEW f, NEW p
  PROVE  /\ SimAt(f, p) \in Sims \cup {NoSim}
         /\ SimAt(f, p) # NoSim => f[SimAt(f, p)] = p
         /\ \A s \in Sims : f[s] = p => SimAt(f, p) # NoSim
<1>1. CASE \E s \in Sims : f[s] = p
  <2> DEFINE c == CHOOSE s \in Sims : f[s] = p
  <2>1. c \in Sims /\ f[c] = p
    BY <1>1
  <2>2. SimAt(f, p) = c
    BY <1>1 DEF SimAt
  <2> QED
    BY <2>1, <2>2, ConstantsAssumption
<1>2. CASE ~\E s \in Sims : f[s] = p
  BY <1>2 DEF SimAt
<1> QED
  BY <1>1, <1>2

(* No two members of Sims are at the same place. *)
Apart(f) == \A s, t \in Sims : f[s] = f[t] => s = t \/ f[s] = NoPath

(* The modems that m_ofonoLinks has show their SIMs, the others none. *)
LEMMA MatchedProperties ==
  ASSUME NEW f \in [Sims -> Paths \cup {NoPath}], Apart(f),
         \A s \in Sims : f[s] # NoPath => f[s] \in links, links \subseteq Paths
  PROVE  /\ Matched(f) \in [Paths -> Sims \cup {NoSim}]
         /\ \A p \in links : Matched(f)[p] = SimAt(f, p)
         /\ \A p \in Paths \ links : Matched(f)[p] = NoSim
         /\ \A s \in Sims : f[s] # NoPath => Matched(f)[f[s]] = s
<1> DEFINE g == [p \in Paths |-> IF p \in links THEN SimAt(f, p) ELSE NoSim]
<1>1. Matched(f) = g
  BY DEF Matched
<1>2. \A p \in Paths : SimAt(f, p) \in Sims \cup {NoSim}
  BY SimAtProperties
<1>3. /\ g \in [Paths -> Sims \cup {NoSim}]
      /\ \A p \in links : g[p] = SimAt(f, p)
      /\ \A p \in Paths \ links : g[p] = NoSim
  BY <1>2
<1> HIDE DEF g
<1>4. ASSUME NEW s \in Sims, f[s] # NoPath PROVE g[f[s]] = s
  <2> DEFINE p == f[s]
             t == SimAt(f, p)
  <2>1. p \in links /\ g[p] = t
    BY <1>3, <1>4
  <2>2. t \in Sims /\ f[t] = p
    BY SimAtProperties
  <2> HIDE DEF t
  <2> QED
    BY <1>4, <2>1, <2>2 DEF Apart
<1> QED
  BY <1>1, <1>3, <1>4

(* A SIM that is matched late is one of the known ones. *)
LEMMA AnnouncedSound ==
  ASSUME NEW m, NEW pw, Sound(m, pw), NEW f \in [Paths -> Sims \cup {NoSim}],
         ready \subseteq Paths,
         \A p \in links : f[p] \in m.settings.known \cup {NoSim}
  PROVE  Sound(Announced(m, f), pw) /\ Same(m, Announced(m, f))
<1> DEFINE on == {s \in Sims : initial[s] = "on" /\ \E p \in links : f[p] = s}
           c == CHOOSE s \in on : TRUE
           carried == Carried(f, ready)
           n == InitialDataOnSet(m, carried, c)
<1>1. Announced(m, f) = IF on # {} THEN n ELSE m
  BY DEF Announced
<1>2. carried \in SUBSET Sims
  BY DEF Carried
<1>3. CASE on # {}
  <2>1. c \in on
    BY <1>3
  <2>2. c \in m.settings.known
    BY <2>1, ConstantsAssumption
  <2> HIDE DEF on, c, carried
  <2>3. Sound(n, pw) /\ Same(m, n)
    BY <1>2, <2>2, InitialDataOnSetSound
  <2> QED
    BY <1>1, <1>3, <2>3
<1>4. CASE on = {}
  BY <1>1, <1>4 DEF Same
<1> QED
  BY <1>3, <1>4

(* However a SIM hears of Powered, its own value is the last word. *)
LEMMA PoweredChangedSound ==
  ASSUME NEW m, NEW pw, Sound(m, pw), NEW s \in m.settings.known, NEW v \in BOOLEAN,
         NEW pw2, pw2[s] = v, \A t \in Sims \ {s} : pw2[t] = pw[t],
         modemSim \in [Paths -> Sims \cup {NoSim}], ready \subseteq Paths
  PROVE  Sound(PoweredChanged(m, s, v), pw2) /\ Same(m, PoweredChanged(m, s, v))
<1> DEFINE carried == Carried(modemSim, ready)
           first == InitialDataOnSet(m, carried, s)
           told == IF v THEN first ELSE m
           k == [told EXCEPT !.calls = [@ EXCEPT ![s] = Send(told.calls[s], SetPowered(told.flag[s]))]]
<1>1. PoweredChanged(m, s, v) = IF initial[s] = "unset" THEN Update(k, s, v) ELSE Update(m, s, v)
  BY DEF PoweredChanged
<1>2. carried \in SUBSET Sims
  BY DEF Carried
<1>3. s \in Sims
  BY DEF Sound, Mgr, Settings
<1> HIDE DEF carried
<1>4. Sound(first, pw) /\ Same(m, first)
  BY <1>2, InitialDataOnSetSound
<1> HIDE DEF first
<1>5. Sound(told, pw) /\ Same(m, told)
  BY <1>4 DEF Same
<1> HIDE DEF told
<1>6. Sound(k, pw) /\ Same(told, k)
  BY <1>3, <1>5, SendSound
<1> HIDE DEF k
<1>7. Sound(Update(k, s, v), pw2) /\ Same(k, Update(k, s, v))
  BY <1>3, <1>6, UpdateSound
<1>8. Sound(Update(m, s, v), pw2) /\ Same(m, Update(m, s, v))
  BY <1>3, UpdateSound
<1> QED
  BY <1>1, <1>5, <1>6, <1>7, <1>8 DEF Same

(* The settings name a known SIM. *)
SettingsOK(d) == d \in Settings /\ d.sim \in d.known \cup {NoSim}

(* loadSettings() brings back the switch and the SIM. *)
LEMMA LoadSettingsSound ==
  ASSUME NEW d, d = Unset \/ SettingsOK(d), NEW q \in [Sims -> Seq(Call)], NEW pw
  PROVE  LET n == LoadSettings(d, q)
         IN  /\ Sound(n, pw)
             /\ n.conn = [s \in Sims |-> FALSE]
             /\ d # Unset => /\ n.enabled = d.enabled /\ n.sim = d.sim
                             /\ \A s \in Sims : n.flag[s] <=> s = d.sim /\ d.enabled
<1> DEFINE no == [s \in Sims |-> FALSE]
<1>0. no \in [Sims -> BOOLEAN] /\ \A s \in Sims : ~no[s]
  OBVIOUS
<1>1. CASE d = Unset
  <2> DEFINE e == [enabled |-> FALSE, sim |-> NoSim, known |-> {}]
             n == NewMgr(e, TRUE, q)
  <2>1. LoadSettings(d, q) = n
    BY <1>1 DEF LoadSettings
  <2>2. e \in Settings /\ e.enabled = FALSE /\ e.sim = NoSim
    BY DEF Settings
  <2> HIDE DEF e
  <2>3. /\ n \in Mgr /\ n.conn = no /\ n.flag = no /\ n.settings = e
        /\ n.enabled = FALSE /\ n.sim = NoSim
    BY <1>0, <2>2 DEF NewMgr, Mgr
  <2> HIDE DEF n, no
  <2>4. Chosen(n) /\ Kept(n) /\ Forced(n, pw)
    BY <1>0, <2>2, <2>3 DEF Chosen, Kept, Forced
  <2> QED
    BY <1>1, <2>1, <2>3, <2>4 DEF Sound, no
<1>2. CASE d # Unset
  <2> DEFINE a == NewMgr(d, FALSE, q)
             e == d.enabled
             none == {}
             k == [a EXCEPT !.enabled = e, !.enabledPending = FALSE,
                            !.settings = [@ EXCEPT !.enabled = e]]
             S == IF e THEN none \cap {a.sim} ELSE none
             b == SimSetMobileDataEnabled(k, S, e)
             c == SetMobileDataEnabled(a, none, e)
  <2>0. SettingsOK(d) /\ d \in Settings /\ e \in BOOLEAN /\ d.sim \in Sims \cup {NoSim}
    BY <1>2 DEF SettingsOK, Settings
  <2>1. LoadedSim(d) = d.sim
    BY <2>0 DEF LoadedSim, SettingsOK
  <2>2. LoadSettings(d, q) = SetSimForMobileData(c, {}, d.sim)
    BY <1>2, <2>1 DEF LoadSettings
  <2>3. /\ a \in Mgr /\ a.conn = no /\ a.flag = no /\ a.settings = d /\ a.enabled = FALSE
        /\ a.sim = NoSim /\ a.simPending = FALSE /\ a.enabledPending = FALSE
    BY <1>0, <2>0 DEF NewMgr, Mgr
  <2> HIDE DEF a, no
  <2>4. k \in Mgr /\ k.conn = no /\ k.flag = no /\ k.enabled = e /\ k.settings.enabled = e
        /\ k.settings.sim = d.sim /\ k.settings.known = d.known /\ k.sim = NoSim
        /\ k.simPending = FALSE
    BY <2>0, <2>3 DEF Mgr, Settings
  <2>5. Forced(k, pw)
    BY <1>0, <2>4 DEF Forced
  <2>6. S \in SUBSET Sims /\ \A s \in Sims : s \notin S
    OBVIOUS
  <2>7. c = IF e = FALSE THEN a ELSE b
    BY <2>0, <2>3 DEF SetMobileDataEnabled
  <2> HIDE DEF k, S, e
  <2>8. /\ b \in Mgr /\ Same(k, b) /\ b.settings = k.settings /\ b.enabled = k.enabled
        /\ b.sim = k.sim /\ b.simPending = k.simPending
        /\ \A s \in Sims : b.flag[s] = IF s \in S THEN e ELSE k.flag[s]
    <3>1. k \in Mgr /\ S \in SUBSET Sims /\ e \in BOOLEAN
      BY <2>0, <2>4, <2>6
    <3>2. SetTo(k, b, S, e)
      BY <2>5, <3>1, SimSetSound
    <3> QED
      BY <3>2 DEF SetTo
  <2> HIDE DEF b, c
  <2>9. /\ c \in Mgr /\ c.conn = no /\ c.enabled = e /\ c.settings.enabled = e
        /\ c.settings.sim = d.sim /\ c.settings.known = d.known /\ c.sim = NoSim
        /\ c.simPending = FALSE /\ \A s \in Sims : ~c.flag[s]
    BY <1>0, <2>0, <2>3, <2>4, <2>6, <2>7, <2>8 DEF Same, e
  <2>10. Forced(c, pw)
    BY <1>0, <2>9 DEF Forced
  <2>11. CASE d.sim = NoSim
    <3>1. LoadSettings(d, q) = c
      BY <2>2, <2>9, <2>11 DEF SetSimForMobileData
    <3>2. Chosen(c) /\ Kept(c)
      BY <2>9, <2>11 DEF Chosen, Kept
    <3> QED
      BY <2>9, <2>10, <2>11, <3>1, <3>2, ConstantsAssumption DEF Sound, no, e
  <2>12. CASE d.sim # NoSim
    <3> DEFINE s == d.sim
               old == {c.sim} \ {NoSim}
               new == {s} \ {NoSim}
               off == SimSetMobileDataEnabled(c, old, FALSE)
               chosen == [off EXCEPT !.sim = s, !.settings = [@ EXCEPT !.sim = s]]
               r == SimSetMobileDataEnabled(chosen, new, e)
    <3>1. LoadSettings(d, q) = r
      BY <2>2, <2>9, <2>12 DEF SetSimForMobileData
    <3>2. old \in SUBSET Sims /\ new \in SUBSET Sims /\ \A t \in Sims : t \notin old /\ (t \in new <=> t = s)
      BY <2>0, <2>9, <2>12
    <3>3. s \in Sims /\ s \in d.known
      BY <2>0, <2>12 DEF SettingsOK
    <3> HIDE DEF old, new, s
    <3>4. /\ off \in Mgr /\ Same(c, off) /\ Forced(off, pw) /\ off.settings = c.settings
          /\ off.enabled = c.enabled /\ off.sim = c.sim
          /\ \A t \in Sims : off.flag[t] = IF t \in old THEN FALSE ELSE c.flag[t]
      <4>1. c \in Mgr /\ old \in SUBSET Sims /\ FALSE \in BOOLEAN
        BY <2>9, <3>2
      <4>2. SetTo(c, off, old, FALSE) /\ Forced(off, pw)
        BY <2>10, <4>1, SimSetSound
      <4> QED
        BY <4>2 DEF SetTo
    <3> HIDE DEF off
    <3>5. /\ chosen \in Mgr /\ Same(off, chosen) /\ chosen.sim = s
          /\ chosen.settings.sim = s /\ chosen.settings.enabled = off.settings.enabled
          /\ chosen.flag = off.flag /\ chosen.calls = off.calls /\ chosen.enabled = off.enabled
      BY <3>3, <3>4 DEF Mgr, Settings, Same
    <3>6. Forced(chosen, pw)
      BY <3>4, <3>5 DEF Forced, Same
    <3>7. chosen \in Mgr /\ new \in SUBSET Sims /\ e \in BOOLEAN
      BY <2>0, <3>2, <3>5
    <3> HIDE DEF chosen
    <3>8. /\ r \in Mgr /\ Same(chosen, r) /\ Forced(r, pw)
          /\ r.settings = chosen.settings /\ r.enabled = chosen.enabled /\ r.sim = chosen.sim
          /\ \A t \in Sims : r.flag[t] = IF t \in new THEN e ELSE chosen.flag[t]
      <4>1. SetTo(chosen, r, new, e) /\ Forced(r, pw)
        BY <3>6, <3>7, SimSetSound
      <4> QED
        BY <4>1 DEF SetTo
    <3> HIDE DEF r
    <3>9. \A t \in Sims : r.flag[t] <=> t = s /\ e
      BY <2>9, <3>2, <3>4, <3>5, <3>8
    <3>10. Chosen(r) /\ Kept(r)
      BY <2>9, <3>3, <3>4, <3>5, <3>8, <3>9 DEF Chosen, Kept, Same
    <3>11. r.conn = no /\ r.enabled = e /\ r.sim = s
      BY <2>9, <3>4, <3>5, <3>8 DEF Same
    <3> QED
      BY <3>1, <3>8, <3>9, <3>10, <3>11 DEF Sound, no, e, s
  <2> QED
    BY <2>11, <2>12
<1> QED
  BY <1>1, <1>2

----------------------------------------------------------------------------
(* The inductive invariant: modems, slots, wrappers and cards agree, the   *)
(* manager is sound, and every settings file names a known SIM.            *)

Placed ==
    /\ ModemsMatched
    /\ Attached
    /\ Apart(cardAt)
    /\ \A s \in Sims : slot[s] # NoPath => Known(s)
    /\ \A p \in Paths \ links : modemSim[p] = NoSim
    /\ \A p \in Paths : wrapper[p].there => p \in links

DiskOK == disk = Unset \/ SettingsOK(disk)

IInv == TypeOK /\ Sound(mgr, powered) /\ DiskOK /\ Placed

(* The SIMs of the modems in m_modems are SIMs. *)
LEMMA CarriedType ==
  ASSUME TypeOK
  PROVE  Carried(modemSim, ready) \in SUBSET Sims
BY DEF TypeOK, Carried

(* No two SIMs are on one modem. *)
LEMMA SlotsApart ==
  ASSUME ModemsMatched
  PROVE  Apart(slot)
BY DEF ModemsMatched, Apart

(* Only the manager's own values change. *)
LEMMA PlacedSame ==
  ASSUME Placed, Same(mgr, mgr'), UNCHANGED <<links, modemSim, slot, wrapper, cardAt>>
  PROVE  Placed'
BY DEF Placed, Same, ModemsMatched, Attached, Apart, Known, SimAt, CardIn

(* The initial states satisfy the invariant. *)
LEMMA InitIInv == Init => IInv
<1> SUFFICES ASSUME Init PROVE IInv
  OBVIOUS
<1> DEFINE q == [s \in Sims |-> <<>>]
<1>1. q \in [Sims -> Seq(Call)]
  OBVIOUS
<1> HIDE DEF q
<1>2. Sound(mgr, powered) /\ mgr.conn = [s \in Sims |-> FALSE]
  BY <1>1, LoadSettingsSound DEF Init, q
<1>3. TypeOK
  BY <1>2 DEF Init, TypeOK, Sound, NoWrapper, Wrapper
<1>4. \A p \in Paths : SimAt(slot, p) = NoSim
  BY ConstantsAssumption DEF Init, SimAt
<1>5. ModemsMatched
  BY <1>2, <1>4 DEF Init, ModemsMatched
<1>6. Attached
  BY <1>2 DEF Init, Attached, NoWrapper
<1>7. Placed
  BY <1>5, <1>6 DEF Init, Placed, Apart, NoWrapper
<1> QED
  BY <1>2, <1>3, <1>7 DEF Init, IInv, DiskOK

(* A restart brings the initial state back, with the settings on disk. *)
LEMMA RestartIInv == IInv /\ Restart => IInv'
<1> SUFFICES ASSUME IInv, Restart PROVE IInv'
  OBVIOUS
<1> DEFINE q == [s \in Sims |-> Orphaned(mgr.calls[s])]
<1>1. q \in [Sims -> Seq(Call)]
  <2> SUFFICES ASSUME NEW s \in Sims PROVE Orphaned(mgr.calls[s]) \in Seq(Call)
    OBVIOUS
  <2>1. mgr.calls[s] \in Seq(Call)
    BY DEF IInv, TypeOK, Mgr
  <2> QED
    BY <2>1, OrphanedType
<1>2. mgr' = LoadSettings(disk, q)
  BY DEF Restart
<1> HIDE DEF q
<1>3. Sound(mgr', powered') /\ mgr'.conn = [s \in Sims |-> FALSE]
  BY <1>1, <1>2, LoadSettingsSound DEF IInv, DiskOK
<1>4. TypeOK'
  BY <1>3 DEF IInv, Restart, TypeOK, Sound, NoWrapper, Wrapper
<1>5. \A p \in Paths : SimAt(slot', p) = NoSim
  BY ConstantsAssumption DEF Restart, SimAt
<1>6. ModemsMatched'
  BY <1>3, <1>5 DEF Restart, ModemsMatched
<1>7. Attached'
  BY <1>3 DEF Restart, Attached, NoWrapper
<1>8. Placed'
  BY <1>6, <1>7 DEF IInv, Restart, Placed, Apart, NoWrapper
<1> QED
  BY <1>3, <1>4, <1>8 DEF Restart, IInv, DiskOK

(* The requests of clients, the check of the timer and the settings file. *)
LEMMA RequestIInv ==
  IInv /\ (\/ CheckSimForMobileData \/ Sync \/ (\E v \in Switches : ClientSetsEnabled(v))
           \/ (\E s \in SimChoices : ClientSetsSim(s))) => IInv'
<1> DEFINE carried == Carried(modemSim, ready)
<1>0. ASSUME IInv PROVE carried \in SUBSET Sims
  BY <1>0, CarriedType DEF IInv
<1> HIDE DEF carried
<1>s. ASSUME IInv, Sound(mgr', powered), Same(mgr, mgr'), timer' \in BOOLEAN,
             UNCHANGED <<links, ready, modemSim, simVars, wrapper, cardAt, powered, disk, restarts>>
      PROVE  IInv'
  <2>1. Placed'
    BY <1>s, PlacedSame DEF IInv, simVars
  <2>2. TypeOK'
    BY <1>s DEF IInv, TypeOK, simVars, Sound
  <2> QED
    BY <1>s, <2>1, <2>2 DEF IInv, DiskOK
<1>1. ASSUME IInv, NEW v \in Switches, ClientSetsEnabled(v) PROVE IInv'
  <2>1. v \in BOOLEAN /\ Sound(mgr, powered)
    BY <1>1, ConstantsAssumption DEF IInv
  <2>2. Sound(mgr', powered) /\ Same(mgr, mgr')
    BY <1>0, <1>1, <2>1, SetEnabledSound DEF ClientSetsEnabled, carried
  <2> QED
    BY <1>1, <1>s, <2>2 DEF ClientSetsEnabled, IInv, TypeOK
<1>2. ASSUME IInv, NEW s \in SimChoices, ClientSetsSim(s) PROVE IInv'
  <2>1. s \in mgr.settings.known \cup {NoSim} /\ Sound(mgr, powered)
    BY <1>2 DEF IInv, ClientSetsSim, Known
  <2>2. Sound(mgr', powered) /\ Same(mgr, mgr')
    BY <1>0, <1>2, <2>1, SetSimSound DEF ClientSetsSim, carried
  <2> QED
    BY <1>2, <1>s, <2>2 DEF ClientSetsSim, IInv, TypeOK
<1>3. ASSUME IInv, CheckSimForMobileData PROVE IInv'
  <2> DEFINE there == {p \in ready : modemSim[p] # NoSim}
             c == CHOOSE p \in there : TRUE
             s == modemSim[c]
  <2>1. \/ mgr' = mgr
        \/ Cardinality(there) = 1 /\ mgr' = SetSimForMobileData(mgr, carried, s)
    BY <1>3 DEF CheckSimForMobileData, carried
  <2>2. CASE mgr' = mgr
    BY <1>3, <1>s, <2>2 DEF CheckSimForMobileData, IInv, TypeOK, Same
  <2>3. CASE Cardinality(there) = 1 /\ mgr' = SetSimForMobileData(mgr, carried, s)
    <3>1. there # {}
      BY <2>3, FS_EmptySet
    <3>2. c \in ready /\ s # NoSim
      BY <3>1
    <3> HIDE DEF c, s
    <3>3. c \in links /\ s = SimAt(slot, c)
      BY <1>3, <3>2 DEF IInv, TypeOK, Placed, ModemsMatched, s
    <3>4. s \in Sims /\ slot[s] = c
      BY <3>2, <3>3, SimAtProperties
    <3>5. s \in mgr.settings.known \cup {NoSim} /\ Sound(mgr, powered)
      BY <1>3, <3>3, <3>4, ConstantsAssumption DEF IInv, TypeOK, Placed, Known
    <3>6. Sound(mgr', powered) /\ Same(mgr, mgr')
      BY <1>0, <1>3, <2>3, <3>5, SetSimSound
    <3> QED
      BY <1>3, <1>s, <3>6 DEF CheckSimForMobileData
  <2> QED
    BY <2>1, <2>2, <2>3
<1>4. ASSUME IInv, Sync PROVE IInv'
  <2>1. Placed' /\ Sound(mgr', powered')
    BY <1>4, PlacedSame DEF IInv, Sync, simVars, Same
  <2>2. mgr.settings \in Settings /\ SettingsOK(mgr.settings)
    BY <1>4 DEF IInv, Sound, Mgr, Kept, SettingsOK
  <2>3. TypeOK'
    BY <1>4, <2>2 DEF IInv, TypeOK, Sync, simVars
  <2> QED
    BY <1>4, <2>1, <2>2, <2>3 DEF IInv, Sync, DiskOK
<1> QED
  BY <1>1, <1>2, <1>3, <1>4

(* The card of a modem is the one that is there. *)
LEMMA CardInProperties ==
  ASSUME TypeOK, Apart(cardAt), NEW p \in Paths
  PROVE  /\ CardIn(p) \in Sims \cup {NoSim}
         /\ CardIn(p) # NoSim => cardAt[CardIn(p)] = p
         /\ \A s \in Sims : cardAt[s] = p => CardIn(p) = s
<1>1. /\ CardIn(p) \in Sims \cup {NoSim}
      /\ CardIn(p) # NoSim => cardAt[CardIn(p)] = p
      /\ \A s \in Sims : cardAt[s] = p => CardIn(p) # NoSim
  BY SimAtProperties DEF CardIn
<1> QED
  BY <1>1, ConstantsAssumption DEF Apart

(* What ofono tells. *)
LEMMA OfonoIInv ==
  ASSUME IInv, NEW s \in Sims, OfonoAnswers(s) \/ PoweredByOther(s)
  PROVE  IInv'
<1>0. TypeOK /\ Sound(mgr, powered) /\ DiskOK /\ Placed /\ mgr \in Mgr
  BY DEF IInv, TypeOK
<1>1. mgr.conn[s] => s \in mgr.settings.known
  BY <1>0 DEF Placed, ModemsMatched, Known
<1>2. powered \in [Sims -> BOOLEAN]
  BY <1>0 DEF TypeOK
<1>h. ASSUME NEW m, NEW pw, Sound(m, pw), NEW v \in BOOLEAN, mgr.conn[s], Same(mgr, m),
             Heard(m, s, v), powered' = [powered EXCEPT ![s] = v],
             \A t \in Sims \ {s} : pw[t] = powered[t]
      PROVE  /\ Sound(mgr', powered') /\ Same(mgr, mgr')
             /\ proxy' \in [Sims -> BOOLEAN] /\ initial' \in [Sims -> {"unset", "on", "off"}]
  <2>1. s \in m.settings.known /\ mgr' = PoweredChanged(m, s, v)
    BY <1>1, <1>h DEF Same, Heard
  <2>2. powered'[s] = v /\ \A t \in Sims \ {s} : powered'[t] = pw[t]
    BY <1>2, <1>h
  <2>3. modemSim \in [Paths -> Sims \cup {NoSim}] /\ ready \subseteq Paths
    BY <1>0 DEF TypeOK
  <2>4. Sound(mgr', powered') /\ Same(m, mgr')
    <3>1. Sound(m, pw) /\ v \in BOOLEAN
      BY <1>h
    <3> QED
      BY <2>1, <2>2, <2>3, <3>1, PoweredChangedSound
  <2>5. proxy' \in [Sims -> BOOLEAN] /\ initial' \in [Sims -> {"unset", "on", "off"}]
    <3>1. proxy' = [proxy EXCEPT ![s] = v]
          /\ initial' \in {initial, [initial EXCEPT ![s] = SetPowered(v)]}
      BY <1>h DEF Heard
    <3>2. SetPowered(v) \in {"on", "off"}
      BY DEF SetPowered
    <3>3. proxy \in [Sims -> BOOLEAN] /\ initial \in [Sims -> {"unset", "on", "off"}]
      BY <1>0 DEF TypeOK
    <3>4. proxy' \in [Sims -> BOOLEAN]
      BY <1>h, <3>1, <3>3
    <3>5. initial' \in [Sims -> {"unset", "on", "off"}]
      BY <3>1, <3>2, <3>3
    <3> QED
      BY <3>4, <3>5
  <2> QED
    BY <1>h, <2>4, <2>5 DEF Same
<1>3. CASE OfonoAnswers(s)
  <2> DEFINE q == mgr.calls[s]
             call == q[1]
             v == IF call = "get" THEN powered[s] ELSE call = "on"
             tail == Tail(q)
             m == [mgr EXCEPT !.calls = [@ EXCEPT ![s] = tail]]
  <2>1. /\ q \in Seq(Call) /\ q # <<>> /\ v \in BOOLEAN /\ powered' = [powered EXCEPT ![s] = v]
        /\ Heard(m, s, v) \/ Unheard(m)
        /\ mgr.conn[s] \/ Unheard(m)
    BY <1>0, <1>2, <1>3 DEF OfonoAnswers, Mgr
  <2> HIDE DEF q
  <2>2. /\ tail \in Seq(Call) /\ (tail # <<>> => tail[Len(tail)] = q[Len(q)])
        /\ Len(tail) = Len(q) - 1 /\ Len(q) \in Nat
    BY <2>1
  <2>3. mgr.conn[s] => q[Len(q)] = SetPowered(mgr.flag[s])
    BY <1>0, <2>1 DEF Sound, Forced, q
  <2>4. mgr.conn[s] /\ tail = <<>> => powered'[s] = mgr.flag[s]
    <3> SUFFICES ASSUME mgr.conn[s], Len(tail) = 0 PROVE v = mgr.flag[s]
      BY <1>2, <2>1
    <3>1. Len(q) = 1
      BY <2>2
    <3>2. call = SetPowered(mgr.flag[s])
      BY <2>3, <3>1
    <3>3. mgr.flag[s] \in BOOLEAN
      BY <1>0 DEF Mgr
    <3> QED
      BY <3>2, <3>3, SetPoweredType
  <2>5. \A t \in Sims \ {s} : powered'[t] = powered[t]
    BY <1>2, <2>1
  <2> HIDE DEF v, tail
  <2>6. Sound(m, powered') /\ m.conn = mgr.conn /\ m.settings = mgr.settings
    <3>1. Sound(mgr, powered) /\ tail \in Seq(Call)
      BY <1>0, <2>2
    <3>2. mgr.conn[s] => \/ tail # <<>> /\ tail[Len(tail)] = SetPowered(mgr.flag[s])
                         \/ tail = <<>> /\ powered'[s] = mgr.flag[s]
      BY <2>2, <2>3, <2>4
    <3> QED
      <4>1. m = [mgr EXCEPT !.calls = [@ EXCEPT ![s] = tail]]
        OBVIOUS
      <4> HIDE DEF m
      <4> QED
        <5>1. PICK a : a = powered'
          OBVIOUS
        <5>2. PICK k : k = mgr
          OBVIOUS
        <5>3. /\ Sound(k, powered) /\ m = [k EXCEPT !.calls = [@ EXCEPT ![s] = tail]]
              /\ \A t \in Sims \ {s} : a[t] = powered[t]
              /\ k.conn[s] => \/ tail # <<>> /\ tail[Len(tail)] = SetPowered(k.flag[s])
                              \/ tail = <<>> /\ a[s] = k.flag[s]
          BY <2>5, <3>1, <3>2, <4>1, <5>1, <5>2
        <5> QED
          BY <3>1, <5>1, <5>2, <5>3, CallsSound
  <2> HIDE DEF m
  <2>7. /\ Sound(mgr', powered') /\ Same(mgr, mgr')
        /\ proxy' \in [Sims -> BOOLEAN] /\ initial' \in [Sims -> {"unset", "on", "off"}]
    <3>1. CASE Unheard(m)
      BY <1>0, <2>6, <3>1 DEF Unheard, Same, TypeOK
    <3>2. CASE Heard(m, s, v) /\ mgr.conn[s]
      <4>1. Same(mgr, m)
        BY <2>6 DEF Same
      <4> QED
        BY <1>h, <2>1, <2>5, <2>6, <3>2, <4>1
    <3> QED
      BY <2>1, <3>1, <3>2
  <2>8. TypeOK'
    <3>1. mgr' \in Mgr /\ powered' \in [Sims -> BOOLEAN]
      BY <1>0, <2>1, <2>7 DEF Sound, TypeOK
    <3>2. UNCHANGED <<links, ready, modemSim, slot, wrapper, timer, cardAt, disk, restarts>>
      BY <1>3 DEF OfonoAnswers
    <3> QED
      BY <1>0, <2>7, <3>1, <3>2 DEF TypeOK
  <2>9. Placed'
    BY <1>0, <1>3, <2>7, PlacedSame DEF OfonoAnswers
  <2> QED
    BY <1>0, <1>3, <2>7, <2>8, <2>9 DEF OfonoAnswers, IInv, DiskOK
<1>4. CASE PoweredByOther(s)
  <2> DEFINE v == ~powered[s]
  <2>1. /\ v \in BOOLEAN /\ powered' = [powered EXCEPT ![s] = v]
        /\ IF mgr.conn[s] THEN Heard(mgr, s, v) ELSE Unheard(mgr)
    BY <1>2, <1>4 DEF PoweredByOther
  <2> HIDE DEF v
  <2>2. /\ Sound(mgr', powered') /\ Same(mgr, mgr')
        /\ proxy' \in [Sims -> BOOLEAN] /\ initial' \in [Sims -> {"unset", "on", "off"}]
    <3>1. CASE mgr.conn[s]
      <4>1. Heard(mgr, s, v) /\ Same(mgr, mgr)
        BY <2>1, <3>1 DEF Same
      <4> QED
        BY <1>0, <1>h, <2>1, <3>1, <4>1
    <3>2. CASE ~mgr.conn[s]
      <4>1. mgr' = mgr /\ \A t \in Sims \ {s} : powered'[t] = powered[t]
        BY <1>2, <2>1, <3>2 DEF Unheard
      <4>2. Forced(mgr, powered')
        BY <1>0, <3>2, <4>1 DEF Sound, Forced
      <4> QED
        BY <1>0, <2>1, <3>2, <4>1, <4>2 DEF Unheard, Sound, Same, TypeOK
    <3> QED
      BY <3>1, <3>2
  <2>3. TypeOK'
    BY <1>0, <1>2, <1>4, <2>1, <2>2 DEF PoweredByOther, TypeOK, Sound
  <2>4. Placed'
    BY <1>0, <1>4, <2>2, PlacedSame DEF PoweredByOther
  <2> QED
    BY <1>0, <1>4, <2>2, <2>3, <2>4 DEF PoweredByOther, IInv, DiskOK
<1> QED
  BY <1>3, <1>4

(* The steps that only change modems, wrappers or cards. *)
LEMMA SurroundingsIInv ==
  ASSUME IInv, NEW p \in Paths,
         \/ ModemAdded(p) \/ SimManagerAdded(p) \/ CardSeen(p)
         \/ \E s \in Sims : CardInserted(s, p)
  PROVE  IInv'
<1>0. TypeOK /\ Sound(mgr, powered) /\ DiskOK /\ Placed
  BY DEF IInv
<1>1. wrapper \in [Paths -> Wrapper] /\ cardAt \in [Sims -> Paths \cup {NoPath}]
  BY <1>0 DEF TypeOK
<1>2. CASE ModemAdded(p)
  <2>1. SimAt(slot, p) = NoSim /\ modemSim[p] = NoSim
    <3>1. \A s \in Sims : slot[s] # p
      BY <1>0, <1>2, ConstantsAssumption DEF ModemAdded, Placed, ModemsMatched
    <3> QED
      BY <1>0, <1>2, <3>1 DEF SimAt, ModemAdded, Placed
  <2>2. TypeOK'
    BY <1>0, <1>2 DEF ModemAdded, TypeOK, simVars
  <2>3. ModemsMatched'
    <3>1. slot' = slot /\ modemSim' = modemSim /\ mgr' = mgr /\ links' = links \cup {p}
      BY <1>2 DEF ModemAdded, simVars
    <3>2. \A r \in links' : modemSim'[r] = SimAt(slot', r)
      BY <1>0, <2>1, <3>1 DEF Placed, ModemsMatched
    <3> QED
      BY <1>0, <3>1, <3>2 DEF Placed, ModemsMatched
  <2>4. Attached'
    BY <1>0, <1>2 DEF ModemAdded, simVars, Placed, Attached, CardIn, SimAt
  <2>5. Placed'
    BY <1>0, <1>2, <2>3, <2>4 DEF ModemAdded, simVars, Placed, Apart, Known
  <2> QED
    BY <1>0, <1>2, <2>2, <2>5 DEF ModemAdded, IInv, DiskOK
<1>3. CASE SimManagerAdded(p)
  <2>a. /\ FreshWrapper \in Wrapper
        /\ ~FreshWrapper.present /\ ~FreshWrapper.iccidSet
    BY DEF FreshWrapper, NoWrapper, Wrapper
  <2>1. /\ wrapper'[p] = FreshWrapper /\ \A r \in Paths \ {p} : wrapper'[r] = wrapper[r]
        /\ wrapper' \in [Paths -> Wrapper]
        /\ ~FreshWrapper.present /\ ~FreshWrapper.iccidSet
    BY <1>1, <1>3, <2>a DEF SimManagerAdded
  <2>2. TypeOK'
    BY <1>0, <1>3, <2>1 DEF SimManagerAdded, TypeOK, simVars
  <2>3. ~wrapper[p].iccidSet
    BY <1>0, <1>3 DEF SimManagerAdded, Placed, Attached
  <2>4. Attached'
    <3>1. \A s \in Sims : mgr.conn[s] => slot[s] # p /\ slot[s] \in Paths
      BY <1>0, <2>3 DEF Placed, Attached, TypeOK
    <3>2. \A s \in Sims : mgr'.conn[s] => /\ slot'[s] \in links' /\ cardAt'[s] = slot'[s]
                                          /\ wrapper'[slot'[s]].iccidSet
                                          /\ wrapper'[slot'[s]].iccid = s
      BY <1>0, <1>3, <2>1, <3>1 DEF SimManagerAdded, simVars, Placed, Attached
    <3>3. \A r \in Paths : wrapper'[r].iccidSet => wrapper'[r].present
      BY <1>0, <2>1 DEF Placed, Attached
    <3>4. \A r \in Paths : wrapper'[r].present => wrapper'[r].there /\ SimAt(cardAt', r) # NoSim
      BY <1>0, <1>3, <2>1 DEF SimManagerAdded, simVars, Placed, Attached, CardIn
    <3> QED
      BY <3>2, <3>3, <3>4 DEF Attached, CardIn
  <2>5. Placed'
    BY <1>0, <1>3, <2>1, <2>4 DEF SimManagerAdded, simVars, Placed, ModemsMatched, SimAt, Apart, Known
  <2> QED
    BY <1>0, <1>3, <2>2, <2>5 DEF SimManagerAdded, IInv, DiskOK
<1>4. CASE CardSeen(p)
  <2>1. /\ \A r \in Paths \ {p} : wrapper'[r] = wrapper[r]
        /\ wrapper' \in [Paths -> Wrapper]
        /\ wrapper'[p].there /\ wrapper'[p].iccid = wrapper[p].iccid
        /\ wrapper'[p].iccidSet = wrapper[p].iccidSet
        /\ \A r \in Paths : wrapper'[r].there = wrapper[r].there
    BY <1>1, <1>4 DEF CardSeen, Wrapper
  <2>2. TypeOK'
    BY <1>0, <1>4, <2>1 DEF CardSeen, TypeOK, simVars
  <2>3. ~wrapper[p].iccidSet
    BY <1>0, <1>4 DEF CardSeen, Placed, Attached
  <2>4. Attached'
    <3>1. \A s \in Sims : mgr.conn[s] => slot[s] # p /\ slot[s] \in Paths
      BY <1>0, <2>3 DEF Placed, Attached, TypeOK
    <3>2. \A s \in Sims : mgr'.conn[s] => /\ slot'[s] \in links' /\ cardAt'[s] = slot'[s]
                                          /\ wrapper'[slot'[s]].iccidSet
                                          /\ wrapper'[slot'[s]].iccid = s
      BY <1>0, <1>4, <2>1, <3>1 DEF CardSeen, simVars, Placed, Attached
    <3>3. \A r \in Paths : wrapper'[r].iccidSet => wrapper'[r].present
      BY <1>0, <2>1, <2>3 DEF Placed, Attached
    <3>4. \A r \in Paths : wrapper'[r].present => wrapper'[r].there /\ SimAt(cardAt', r) # NoSim
      BY <1>0, <1>4, <2>1 DEF CardSeen, simVars, Placed, Attached, CardIn
    <3> QED
      BY <3>2, <3>3, <3>4 DEF Attached, CardIn
  <2>5. Placed'
    BY <1>0, <1>4, <2>1, <2>4 DEF CardSeen, simVars, Placed, ModemsMatched, SimAt, Apart, Known
  <2> QED
    BY <1>0, <1>4, <2>2, <2>5 DEF CardSeen, IInv, DiskOK
<1>5. ASSUME NEW s \in Sims, CardInserted(s, p) PROVE IInv'
  <2>1. /\ \A r \in Paths \ {p} : wrapper'[r] = wrapper[r]
        /\ wrapper' \in [Paths -> Wrapper]
        /\ wrapper'[p].present = wrapper[p].there
        /\ \A r \in Paths : /\ wrapper'[r].there = wrapper[r].there
                            /\ wrapper'[r].iccid = wrapper[r].iccid
                            /\ wrapper'[r].iccidSet = wrapper[r].iccidSet
    BY <1>1, <1>5 DEF CardInserted, Wrapper
  <2>2. /\ cardAt' \in [Sims -> Paths \cup {NoPath}]
        /\ cardAt'[s] = p /\ \A t \in Sims \ {s} : cardAt'[t] = cardAt[t]
        /\ cardAt[s] = NoPath
    BY <1>1, <1>5 DEF CardInserted
  <2>3. TypeOK'
    BY <1>0, <1>5, <2>1, <2>2 DEF CardInserted, TypeOK, simVars
  <2>4. \A t \in Sims : cardAt[t] # p
    BY <1>5, SimAtProperties DEF CardInserted, CardIn
  <2>5. Apart(cardAt')
    BY <1>0, <2>2, <2>4 DEF Placed, Apart
  <2>6. Attached'
    <3>1. \A t \in Sims : mgr.conn[t] => t # s
      BY <1>0, <2>2, ConstantsAssumption DEF Placed, Attached, TypeOK
    <3>2. \A t \in Sims : mgr'.conn[t] => /\ slot'[t] \in links' /\ cardAt'[t] = slot'[t]
                                          /\ wrapper'[slot'[t]].iccidSet
                                          /\ wrapper'[slot'[t]].iccid = t
      BY <1>0, <1>5, <2>1, <2>2, <3>1 DEF CardInserted, simVars, Placed, Attached, TypeOK
    <3>3. \A r \in Paths : wrapper'[r].iccidSet => wrapper'[r].present
      BY <1>0, <2>1 DEF Placed, Attached
    <3>4. ASSUME NEW r \in Paths, wrapper'[r].present
          PROVE  wrapper'[r].there /\ SimAt(cardAt', r) # NoSim
      <4>1. CASE r = p
        BY <2>1, <2>2, <3>4, <4>1, SimAtProperties
      <4>2. CASE r # p
        <5>1. wrapper[r].there /\ SimAt(cardAt, r) # NoSim
          BY <1>0, <2>1, <3>4, <4>2 DEF Placed, Attached, CardIn
        <5>2. PICK t \in Sims : cardAt[t] = r
          BY <5>1, SimAtProperties
        <5>3. cardAt'[t] = r
          BY <2>2, <5>2, ConstantsAssumption
        <5> QED
          BY <2>1, <5>1, <5>3, SimAtProperties
      <4> QED
        BY <4>1, <4>2
    <3> QED
      BY <3>2, <3>3, <3>4 DEF Attached, CardIn
  <2>7. Placed'
    BY <1>0, <1>5, <2>1, <2>5, <2>6 DEF CardInserted, simVars, Placed, ModemsMatched, SimAt, Apart, Known
  <2> QED
    BY <1>0, <1>5, <2>3, <2>7 DEF CardInserted, IInv, DiskOK
<1> QED
  BY <1>2, <1>3, <1>4, <1>5

(* setOfonoSimManager(): the SIM object has the place, or none, and the    *)
(* modems are matched again.                                               *)
LEMMA SetOfonoSound ==
  ASSUME IInv, NEW s \in mgr.settings.known, NEW p \in links \cup {NoPath},
         NEW lost \in Sims \cup {NoSim}, lost \in Sims => p = NoPath /\ (lost = s \/ ~mgr.conn[lost]),
         Apart([slot EXCEPT ![s] = p]), SetOfono(s, p, lost)
  PROVE  /\ Sound(mgr', powered) /\ mgr'.settings.known = mgr.settings.known
         /\ mgr'.conn = [mgr.conn EXCEPT ![s] = (p # NoPath)]
         /\ slot' = [slot EXCEPT ![s] = p] /\ slot' \in [Sims -> Paths \cup {NoPath}]
         /\ modemSim' = Matched(slot') /\ timer' = TRUE /\ proxy' \in [Sims -> BOOLEAN]
<1>0. TypeOK /\ Sound(mgr, powered) /\ Placed
  BY DEF IInv
<1>1. /\ s \in Sims /\ slot \in [Sims -> Paths \cup {NoPath}] /\ proxy \in [Sims -> BOOLEAN]
      /\ links \subseteq Paths /\ ready \subseteq Paths /\ mgr.conn \in [Sims -> BOOLEAN]
  BY <1>0 DEF TypeOK, Mgr, Settings
<1> DEFINE slots == [slot EXCEPT ![s] = p]
           u == Update(mgr, s, proxy[s])
           a == Announced(u, Matched(slots))
           c == SetConnManager(a, s, p)
<1>2. /\ slot' = slots /\ modemSim' = Matched(slots) /\ timer' = TRUE
      /\ proxy' = [proxy EXCEPT ![s] = FALSE] /\ mgr' = Lost(c, lost)
  BY DEF SetOfono
<1>3. /\ slots \in [Sims -> Paths \cup {NoPath}] /\ Apart(slots)
      /\ \A t \in Sims : slots[t] # NoPath => slots[t] \in links
      /\ \A t \in Sims : slots[t] # NoPath => t \in mgr.settings.known
  BY <1>0, <1>1 DEF Placed, ModemsMatched, Known
<1> HIDE DEF slots
<1>4. /\ Matched(slots) \in [Paths -> Sims \cup {NoSim}]
      /\ \A r \in links : Matched(slots)[r] = SimAt(slots, r)
  BY <1>1, <1>3, MatchedProperties
<1>5. proxy[s] \in BOOLEAN
  BY <1>1
<1>6. Sound(u, powered) /\ Same(mgr, u)
  BY <1>0, <1>1, <1>5, UpdateSound
<1> HIDE DEF u
<1>7. \A r \in links : Matched(slots)[r] \in u.settings.known \cup {NoSim}
  <2> SUFFICES ASSUME NEW r \in links, SimAt(slots, r) # NoSim
               PROVE  SimAt(slots, r) \in mgr.settings.known
    BY <1>4, <1>6 DEF Same
  <2>1. SimAt(slots, r) \in Sims /\ slots[SimAt(slots, r)] = r
    BY SimAtProperties
  <2> QED
    BY <1>1, <1>3, <2>1, ConstantsAssumption
<1>8. Sound(a, powered) /\ Same(u, a)
  BY <1>1, <1>4, <1>6, <1>7, AnnouncedSound
<1> HIDE DEF a
<1>9. /\ Sound(c, powered) /\ c.conn = [a.conn EXCEPT ![s] = (p # NoPath)]
      /\ c.settings = a.settings
  BY <1>1, <1>8, SetConnManagerSound
<1> HIDE DEF c
<1>10. c.conn = [mgr.conn EXCEPT ![s] = (p # NoPath)] /\ c.settings.known = mgr.settings.known
  BY <1>6, <1>8, <1>9 DEF Same
<1>11. lost \in Sims => ~c.conn[lost]
  BY <1>1, <1>10
<1>12. Sound(mgr', powered) /\ mgr'.conn = c.conn /\ mgr'.settings = c.settings
  BY <1>2, <1>9, <1>11, LostSound
<1> QED
  BY <1>1, <1>2, <1>3, <1>10, <1>12 DEF slots

(* What is true after modem p has lost its SIM, if it had one. *)
Vacated(p) ==
    /\ Sound(mgr', powered)
    /\ mgr'.settings.known = mgr.settings.known
    /\ slot' \in [Sims -> Paths \cup {NoPath}]
    /\ modemSim' \in [Paths -> Sims \cup {NoSim}]
    /\ proxy' \in [Sims -> BOOLEAN]
    /\ timer' \in BOOLEAN
    /\ \A s \in Sims : slot'[s] # p /\ slot'[s] \in {slot[s], NoPath}
    /\ \A s \in Sims : mgr'.conn[s] <=> slot'[s] # NoPath
    /\ \A r \in links : modemSim'[r] = SimAt(slot', r)
    /\ \A s \in Sims : slot'[s] # NoPath => modemSim'[slot'[s]] = s
    /\ \A r \in Paths \ links : modemSim'[r] = NoSim

(* A SIM that is at a modem is the one that the modem's wrapper names. *)
LEMMA AtModem ==
  ASSUME IInv, NEW p \in Paths, NEW s \in Sims, slot[s] = p \/ (mgr.conn[s] /\ cardAt[s] = p)
  PROVE  /\ slot[s] = p /\ cardAt[s] = p /\ Known(s)
         /\ wrapper[p].iccid = s /\ wrapper[p].iccidSet /\ wrapper[p].present
BY ConstantsAssumption DEF IInv, Placed, ModemsMatched, Attached

(* Nothing is done for a modem without a SIM, or whose SIM is absent. *)
LEMMA NothingVacated ==
  ASSUME IInv, NEW p \in Paths, \A s \in Sims : slot[s] # p,
         NEW lost \in Sims \cup {NoSim}, lost \in Sims => cardAt[lost] = p,
         mgr' = Lost(mgr, lost), UNCHANGED <<slot, modemSim, timer, proxy>>
  PROVE  Vacated(p)
<1>0. TypeOK /\ Sound(mgr, powered) /\ Placed
  BY DEF IInv
<1>1. lost \in Sims => ~mgr.conn[lost]
  BY AtModem
<1>2. Sound(mgr', powered) /\ mgr'.conn = mgr.conn /\ mgr'.settings = mgr.settings
  BY <1>0, <1>1, LostSound
<1>3. \A r \in links : modemSim'[r] = SimAt(slot', r)
  BY <1>0 DEF Placed, ModemsMatched
<1> QED
  BY <1>0, <1>2, <1>3 DEF Vacated, TypeOK, Placed, ModemsMatched

(* Detaching empties the modem. *)
LEMMA DetachVacates ==
  ASSUME IInv, NEW p \in Paths, NEW lost \in Sims \cup {NoSim},
         lost \in Sims => cardAt[lost] = p, Detach(wrapper[p], lost)
  PROVE  Vacated(p)
<1>0. TypeOK /\ Sound(mgr, powered) /\ Placed
  BY DEF IInv
<1>1. CASE ~Detached(wrapper[p])
  <2>1. \A s \in Sims : slot[s] # p
    <3> SUFFICES ASSUME NEW s \in Sims, slot[s] = p PROVE FALSE
      OBVIOUS
    <3>1. Known(s) /\ wrapper[p].iccid = s
      BY AtModem
    <3> QED
      BY <1>1, <3>1, ConstantsAssumption DEF Detached
  <2>2. mgr' = Lost(mgr, lost) /\ UNCHANGED <<slot, modemSim, timer, proxy>>
    BY <1>1 DEF Detach
  <2> QED
    BY <2>1, <2>2, NothingVacated
<1>2. CASE Detached(wrapper[p])
  <2> DEFINE s == wrapper[p].iccid
             slots == [slot EXCEPT ![s] = NoPath]
  <2>1. s \in mgr.settings.known /\ SetOfono(s, NoPath, lost)
    BY <1>2 DEF Detached, Detach, Known
  <2>2. \A t \in Sims : slot[t] = p \/ (mgr.conn[t] /\ cardAt[t] = p) => t = s
    BY AtModem
  <2> HIDE DEF s
  <2>3. s \in Sims /\ slot \in [Sims -> Paths \cup {NoPath}] /\ links \subseteq Paths
        /\ mgr.conn \in [Sims -> BOOLEAN]
    BY <1>0, <2>1 DEF TypeOK, Mgr, Settings
  <2>4. /\ slots \in [Sims -> Paths \cup {NoPath}] /\ slots[s] = NoPath
        /\ \A t \in Sims \ {s} : slots[t] = slot[t]
    BY <2>3
  <2> HIDE DEF slots
  <2>5. Apart(slots)
    BY <1>0, <2>4, SlotsApart DEF Placed, Apart
  <2>6. lost \in Sims => NoPath = NoPath /\ (lost = s \/ ~mgr.conn[lost])
    BY <2>2
  <2>7. NoPath \in links \cup {NoPath}
    OBVIOUS
  <2>8. /\ Sound(mgr', powered) /\ mgr'.settings.known = mgr.settings.known
        /\ mgr'.conn = [mgr.conn EXCEPT ![s] = (NoPath # NoPath)]
        /\ slot' = slots /\ modemSim' = Matched(slots) /\ timer' = TRUE
        /\ proxy' \in [Sims -> BOOLEAN]
    BY <2>1, <2>5, <2>6, <2>7, SetOfonoSound DEF slots
  <2>9. \A t \in Sims : slots[t] # NoPath => slots[t] \in links
    BY <1>0, <2>4 DEF Placed, ModemsMatched
  <2>10. /\ Matched(slots) \in [Paths -> Sims \cup {NoSim}]
         /\ \A r \in links : Matched(slots)[r] = SimAt(slots, r)
         /\ \A r \in Paths \ links : Matched(slots)[r] = NoSim
         /\ \A t \in Sims : slots[t] # NoPath => Matched(slots)[slots[t]] = t
    BY <2>3, <2>4, <2>5, <2>9, MatchedProperties
  <2>11. \A t \in Sims : slots[t] # p /\ slots[t] \in {slot[t], NoPath}
    BY <2>2, <2>4, ConstantsAssumption
  <2>12. \A t \in Sims : mgr'.conn[t] <=> slots[t] # NoPath
    <3>1. ~mgr'.conn[s] /\ \A t \in Sims \ {s} : mgr'.conn[t] = mgr.conn[t]
      BY <2>3, <2>8
    <3> QED
      BY <1>0, <2>4, <3>1 DEF Placed, ModemsMatched
  <2> QED
    BY <2>4, <2>8, <2>10, <2>11, <2>12 DEF Vacated
<1> QED
  BY <1>1, <1>2

(* A modem that is emptied, with its wrapper reset or without a card.      *)
LEMMA VacatedIInv ==
  ASSUME IInv, NEW p \in Paths, Vacated(p),
         links' \in {links, links \ {p}}, ready' \in {ready \ {p}, ready}, ready' \subseteq links',
         NEW w \in Wrapper, wrapper' = [wrapper EXCEPT ![p] = w],
         ~w.iccidSet, ~w.present, w.there => p \in links',
         cardAt' \in [Sims -> Paths \cup {NoPath}],
         \A s \in Sims : cardAt'[s] = cardAt[s] \/ (cardAt[s] = p /\ cardAt'[s] = NoPath),
         UNCHANGED <<initial, powered, disk, restarts>>
  PROVE  IInv'
<1>0. TypeOK /\ DiskOK /\ Placed
  BY DEF IInv
<1>1. links \subseteq Paths /\ wrapper \in [Paths -> Wrapper]
  BY <1>0 DEF TypeOK
<1>2. /\ wrapper' \in [Paths -> Wrapper] /\ wrapper'[p] = w
      /\ \A r \in Paths \ {p} : wrapper'[r] = wrapper[r]
  BY <1>1
<1>3. TypeOK'
  BY <1>0, <1>2 DEF TypeOK, Vacated, Sound
<1>4. ModemsMatched'
  <2>1. \A r \in links' : modemSim'[r] = SimAt(slot', r)
    BY DEF Vacated
  <2>2. \A s \in Sims : slot'[s] # NoPath => slot'[s] \in links' /\ modemSim'[slot'[s]] = s
    BY <1>0 DEF Vacated, Placed, ModemsMatched
  <2> QED
    BY <2>1, <2>2 DEF ModemsMatched, Vacated
<1>5. Attached'
  <2>1. ASSUME NEW s \in Sims, mgr'.conn[s]
        PROVE  /\ slot'[s] \in links' /\ cardAt'[s] = slot'[s]
               /\ wrapper'[slot'[s]].iccidSet /\ wrapper'[slot'[s]].iccid = s
    <3>1. slot'[s] = slot[s] /\ slot[s] # NoPath /\ slot[s] # p
      BY <2>1 DEF Vacated
    <3>2. /\ slot[s] \in links /\ cardAt[s] = slot[s]
          /\ wrapper[slot[s]].iccidSet /\ wrapper[slot[s]].iccid = s
      BY <1>0, <3>1 DEF Placed, ModemsMatched, Attached
    <3> QED
      BY <1>1, <1>2, <3>1, <3>2
  <2>2. \A r \in Paths : wrapper'[r].iccidSet => wrapper'[r].present
    BY <1>0, <1>2 DEF Placed, Attached
  <2>3. ASSUME NEW r \in Paths, wrapper'[r].present
        PROVE  wrapper'[r].there /\ SimAt(cardAt', r) # NoSim
    <3>1. r # p /\ wrapper[r].there /\ SimAt(cardAt, r) # NoSim /\ wrapper'[r] = wrapper[r]
      BY <1>0, <1>2, <2>3 DEF Placed, Attached, CardIn
    <3>2. SimAt(cardAt, r) \in Sims /\ cardAt[SimAt(cardAt, r)] = r
      BY <3>1, SimAtProperties
    <3>3. cardAt'[SimAt(cardAt, r)] = r
      BY <3>1, <3>2
    <3> QED
      BY <3>1, <3>2, <3>3, SimAtProperties
  <2> QED
    BY <2>1, <2>2, <2>3 DEF Attached, CardIn
<1>6. Apart(cardAt')
  BY <1>0 DEF Placed, Apart
<1>7. \A s \in Sims : slot'[s] # NoPath => s \in mgr'.settings.known
  BY <1>0 DEF Placed, Known, Vacated
<1>8. \A r \in Paths \ links' : modemSim'[r] = NoSim
  <2> SUFFICES ASSUME p \in links PROVE modemSim'[p] = NoSim
    BY DEF Vacated
  <2>1. modemSim'[p] = SimAt(slot', p) /\ \A s \in Sims : slot'[s] # p
    BY DEF Vacated
  <2> QED
    BY <2>1 DEF SimAt
<1>9. \A r \in Paths : wrapper'[r].there => r \in links'
  BY <1>0, <1>2 DEF Placed
<1>10. Placed'
  BY <1>4, <1>5, <1>6, <1>7, <1>8, <1>9 DEF Placed, Apart, Known
<1> QED
  BY <1>0, <1>3, <1>10 DEF IInv, DiskOK, Vacated

(* A modem goes, or its SIM interface, or its card. *)
LEMMA RemovalIInv ==
  ASSUME IInv, NEW p \in Paths, ModemRemoved(p) \/ SimManagerRemoved(p) \/ CardRemoved(p)
  PROVE  IInv'
<1>0. TypeOK /\ Placed /\ Apart(cardAt)
  BY DEF IInv, Placed
<1> DEFINE c == CardIn(p)
<1>1. c \in Sims \cup {NoSim} /\ (c # NoSim => cardAt[c] = p)
  BY <1>0, CardInProperties
<1> HIDE DEF c
<1>2. c \in Sims => cardAt[c] = p
  BY <1>1, ConstantsAssumption
<1>3. /\ NoWrapper \in Wrapper /\ ~NoWrapper.iccidSet /\ ~NoWrapper.present /\ ~NoWrapper.there
  BY DEF NoWrapper, Wrapper
<1>4. CASE ModemRemoved(p)
  <2>1. Vacated(p)
    BY <1>1, <1>2, <1>4, DetachVacates DEF ModemRemoved, c
  <2>2. /\ links' = links \ {p} /\ ready' = ready \ {p} /\ ready' \subseteq links'
        /\ wrapper' = [wrapper EXCEPT ![p] = NoWrapper]
        /\ UNCHANGED <<initial, cardAt, powered, disk, restarts>>
    BY <1>0, <1>4 DEF ModemRemoved, RemainingModems, TypeOK
  <2> QED
    BY <1>0, <1>3, <2>1, <2>2, VacatedIInv DEF TypeOK
<1>5. CASE SimManagerRemoved(p)
  <2>1. Vacated(p)
    BY <1>1, <1>2, <1>5, DetachVacates DEF SimManagerRemoved, c
  <2>2. /\ links' = links /\ ready' = ready /\ ready' \subseteq links'
        /\ wrapper' = [wrapper EXCEPT ![p] = NoWrapper]
        /\ UNCHANGED <<initial, cardAt, powered, disk, restarts>>
    BY <1>0, <1>5 DEF SimManagerRemoved, TypeOK
  <2> QED
    BY <1>0, <1>3, <2>1, <2>2, VacatedIInv DEF TypeOK
<1>6. CASE CardRemoved(p)
  <2> DEFINE w == [wrapper[p] EXCEPT !.present = FALSE, !.iccidSet = FALSE]
  <2>1. c \in Sims /\ cardAt' = [cardAt EXCEPT ![c] = NoPath]
    BY <1>1, <1>6 DEF CardRemoved, c
  <2>2. Vacated(p)
    <3>1. CASE wrapper[p].present
      BY <1>1, <1>2, <1>6, <3>1, DetachVacates DEF CardRemoved, c
    <3>2. CASE ~wrapper[p].present
      <4>1. \A s \in Sims : slot[s] # p
        BY <3>2, AtModem
      <4>2. mgr' = Lost(mgr, c) /\ UNCHANGED <<slot, modemSim, timer, proxy>>
        BY <1>6, <3>2 DEF CardRemoved, c
      <4> QED
        BY <1>1, <1>2, <4>1, <4>2, NothingVacated
    <3> QED
      BY <3>1, <3>2
  <2>3. w \in Wrapper /\ ~w.present /\ ~w.iccidSet /\ w.there = wrapper[p].there
    <3>1. PICK x : x = wrapper[p]
      OBVIOUS
    <3>2. x \in Wrapper
      BY <1>0, <3>1 DEF TypeOK
    <3> QED
      BY <3>1, <3>2 DEF Wrapper
  <2>4. /\ links' = links /\ ready' = ready /\ ready' \subseteq links'
        /\ wrapper' = [wrapper EXCEPT ![p] = w]
        /\ UNCHANGED <<initial, powered, disk, restarts>>
    BY <1>0, <1>6 DEF CardRemoved, TypeOK
  <2> HIDE DEF w
  <2>5. w.there => p \in links'
    BY <1>0, <2>3, <2>4 DEF Placed
  <2>6. /\ cardAt' \in [Sims -> Paths \cup {NoPath}]
        /\ \A s \in Sims : cardAt'[s] = cardAt[s] \/ (cardAt[s] = p /\ cardAt'[s] = NoPath)
    BY <1>0, <1>2, <2>1 DEF TypeOK
  <2> QED
    BY <2>2, <2>3, <2>4, <2>5, <2>6, VacatedIInv
<1> QED
  BY <1>4, <1>5, <1>6

(* A card has been read: its SIM comes to the modem. *)
LEMMA CardReadIInv ==
  ASSUME IInv, NEW p \in Paths, CardRead(p)
  PROVE  IInv'
<1>0. TypeOK /\ Sound(mgr, powered) /\ DiskOK /\ Placed /\ Apart(cardAt)
  BY DEF IInv, Placed
<1> DEFINE s == CardIn(p)
           slots == [slot EXCEPT ![s] = p]
           w == [wrapper[p] EXCEPT !.iccid = s, !.iccidSet = TRUE]
<1>1. /\ wrapper[p].present /\ ~wrapper[p].iccidSet
      /\ KnownSimReady(s, p) \/ NewSimReady(s, p)
      /\ wrapper' = [wrapper EXCEPT ![p] = w]
      /\ UNCHANGED <<links, ready, initial, cardAt, powered, disk, restarts>>
  BY DEF CardRead
<1>2. wrapper[p].there /\ p \in links /\ s # NoSim
  BY <1>0, <1>1 DEF Placed, Attached
<1>3. s \in Sims /\ cardAt[s] = p
  BY <1>0, <1>2, CardInProperties
<1>4. \A t \in Sims : slot[t] # p /\ (mgr.conn[t] => cardAt[t] # p)
  BY <1>1, AtModem
<1>5. slot[s] = NoPath /\ ~mgr.conn[s]
  BY <1>0, <1>3, <1>4 DEF Placed, ModemsMatched, Attached
<1>t. /\ slot \in [Sims -> Paths \cup {NoPath}] /\ links \subseteq Paths /\ ready \subseteq Paths
      /\ mgr.conn \in [Sims -> BOOLEAN] /\ wrapper \in [Paths -> Wrapper] /\ p # NoPath
      /\ proxy \in [Sims -> BOOLEAN] /\ modemSim \in [Paths -> Sims \cup {NoSim}]
  BY <1>0, ConstantsAssumption DEF TypeOK, Mgr
<1>w. w \in Wrapper /\ w.present /\ w.there /\ w.iccidSet /\ w.iccid = s
  BY <1>1, <1>2, <1>3, <1>t DEF Wrapper
<1> HIDE DEF s, w
<1>6. /\ slots \in [Sims -> Paths \cup {NoPath}] /\ slots[s] = p
      /\ \A t \in Sims \ {s} : slots[t] = slot[t]
  BY <1>3, <1>t
<1> HIDE DEF slots
<1>7. Apart(slots) /\ \A t \in Sims : slots[t] # NoPath => slots[t] \in links
  BY <1>0, <1>2, <1>4, <1>6, SlotsApart DEF Placed, ModemsMatched, Apart
<1>8. /\ Matched(slots) \in [Paths -> Sims \cup {NoSim}]
      /\ \A r \in links : Matched(slots)[r] = SimAt(slots, r)
      /\ \A r \in Paths \ links : Matched(slots)[r] = NoSim
      /\ \A t \in Sims : slots[t] # NoPath => Matched(slots)[slots[t]] = t
  BY <1>6, <1>7, <1>t, MatchedProperties
<1>9. /\ Sound(mgr', powered) /\ mgr'.settings.known = mgr.settings.known \cup {s}
      /\ mgr'.conn = [mgr.conn EXCEPT ![s] = (p # NoPath)]
      /\ slot' = slots /\ modemSim' = Matched(slots) /\ timer' = TRUE
      /\ proxy' \in [Sims -> BOOLEAN]
  <2>1. CASE KnownSimReady(s, p)
    <3>1. s \in mgr.settings.known /\ SetOfono(s, p, NoSim)
      BY <2>1 DEF KnownSimReady, Known
    <3>2. p \in links \cup {NoPath} /\ NoSim \in Sims \cup {NoSim} /\ NoSim \notin Sims
      BY <1>2, ConstantsAssumption
    <3>3. /\ Sound(mgr', powered) /\ mgr'.settings.known = mgr.settings.known
          /\ mgr'.conn = [mgr.conn EXCEPT ![s] = (p # NoPath)]
          /\ slot' = slots /\ modemSim' = Matched(slots) /\ timer' = TRUE
          /\ proxy' \in [Sims -> BOOLEAN]
      BY <1>7, <3>1, <3>2, SetOfonoSound DEF slots
    <3> QED
      BY <3>1, <3>3
  <2>2. CASE NewSimReady(s, p)
    <3> DEFINE n == SetConnManager(mgr, s, p)
               known == mgr.settings.known \cup {s}
               added == [n EXCEPT !.settings = [@ EXCEPT !.known = known]]
               carried == Carried(modemSim, ready)
               set == SetSimForMobileData(added, carried, s)
               m == IF mgr.settings.sim = s THEN set ELSE added
    <3>1. /\ slot' = slots /\ modemSim' = Matched(slots) /\ timer' = TRUE
          /\ proxy' = [proxy EXCEPT ![s] = FALSE] /\ mgr' = Announced(m, Matched(slots))
      BY <2>2 DEF NewSimReady, slots
    <3>2. /\ Sound(n, powered) /\ n.conn = [mgr.conn EXCEPT ![s] = (p # NoPath)]
          /\ n.settings = mgr.settings
      BY <1>0, <1>3, SetConnManagerSound
    <3>3. known \in SUBSET Sims /\ mgr.settings.known \subseteq known /\ s \in known
      BY <1>0, <1>3 DEF TypeOK, Mgr, Settings
    <3>4. carried \in SUBSET Sims
      BY <1>0, CarriedType
    <3> HIDE DEF n, known, carried
    <3>5. /\ added \in Mgr /\ added.conn = n.conn /\ added.settings.known = known
          /\ added.flag = n.flag /\ added.calls = n.calls /\ added.sim = n.sim
          /\ added.enabled = n.enabled /\ added.settings.enabled = n.settings.enabled
          /\ added.settings.sim = n.settings.sim
      BY <3>2, <3>3 DEF Sound, Mgr, Settings
    <3> HIDE DEF added
    <3>6. Sound(added, powered)
      BY <3>2, <3>3, <3>5 DEF Sound, Chosen, Kept, Forced
    <3>7. s \in added.settings.known \cup {NoSim}
      BY <3>3, <3>5
    <3>8. Sound(set, powered) /\ Same(added, set)
      BY <3>4, <3>6, <3>7, SetSimSound
    <3> HIDE DEF set
    <3>9. Sound(m, powered) /\ Same(added, m)
      BY <3>6, <3>8 DEF Same
    <3> HIDE DEF m
    <3>10. \A r \in links : Matched(slots)[r] \in m.settings.known \cup {NoSim}
      <4> SUFFICES ASSUME NEW r \in links, SimAt(slots, r) # NoSim
                   PROVE  SimAt(slots, r) \in known
        BY <1>8, <3>5, <3>9 DEF Same
      <4>1. SimAt(slots, r) \in Sims /\ slots[SimAt(slots, r)] = r /\ r # NoPath
        BY <1>t, SimAtProperties, ConstantsAssumption
      <4> QED
        BY <1>0, <1>6, <3>3, <4>1 DEF Placed, Known
    <3>11. Sound(mgr', powered) /\ Same(m, mgr')
      BY <1>8, <1>t, <3>1, <3>9, <3>10, AnnouncedSound
    <3>12. proxy' \in [Sims -> BOOLEAN]
      BY <1>3, <1>t, <3>1
    <3> QED
      BY <3>1, <3>2, <3>5, <3>9, <3>11, <3>12 DEF Same, known
  <2> QED
    BY <1>1, <2>1, <2>2
<1>10. mgr'.conn[s] /\ \A t \in Sims \ {s} : mgr'.conn[t] = mgr.conn[t]
  BY <1>3, <1>9, <1>t
<1>11. /\ wrapper' \in [Paths -> Wrapper] /\ wrapper'[p] = w
       /\ \A r \in Paths \ {p} : wrapper'[r] = wrapper[r]
  BY <1>1, <1>t, <1>w
<1>12. TypeOK'
  BY <1>0, <1>1, <1>6, <1>8, <1>9, <1>11 DEF TypeOK, Sound
<1>13. ModemsMatched'
  <2>1. \A t \in Sims : mgr'.conn[t] <=> slot'[t] # NoPath
    BY <1>0, <1>6, <1>9, <1>10, <1>t DEF Placed, ModemsMatched
  <2>2. \A r \in links' : modemSim'[r] = SimAt(slot', r)
    BY <1>1, <1>8, <1>9
  <2>3. \A t \in Sims : slot'[t] # NoPath => slot'[t] \in links' /\ modemSim'[slot'[t]] = t
    BY <1>1, <1>7, <1>8, <1>9
  <2> QED
    BY <2>1, <2>2, <2>3 DEF ModemsMatched
<1>14. Attached'
  <2>1. ASSUME NEW t \in Sims, mgr'.conn[t]
        PROVE  /\ slot'[t] \in links' /\ cardAt'[t] = slot'[t]
               /\ wrapper'[slot'[t]].iccidSet /\ wrapper'[slot'[t]].iccid = t
    <3>1. CASE t = s
      BY <1>1, <1>2, <1>3, <1>6, <1>9, <1>11, <1>w, <3>1
    <3>2. CASE t # s
      <4>1. mgr.conn[t] /\ slot'[t] = slot[t] /\ slot[t] # p
        BY <1>4, <1>6, <1>9, <1>10, <2>1, <3>2
      <4>2. /\ slot[t] \in links /\ cardAt[t] = slot[t]
            /\ wrapper[slot[t]].iccidSet /\ wrapper[slot[t]].iccid = t
        BY <1>0, <4>1 DEF Placed, Attached
      <4> QED
        BY <1>1, <1>11, <1>t, <4>1, <4>2
    <3> QED
      BY <3>1, <3>2
  <2>2. \A r \in Paths : wrapper'[r].iccidSet => wrapper'[r].present
    BY <1>0, <1>11, <1>w DEF Placed, Attached
  <2>3. \A r \in Paths : wrapper'[r].present => wrapper'[r].there /\ SimAt(cardAt', r) # NoSim
    BY <1>0, <1>1, <1>2, <1>11, <1>w DEF Placed, Attached, CardIn, s
  <2> QED
    BY <2>1, <2>2, <2>3 DEF Attached, CardIn
<1>15. Placed'
  <2>1. \A t \in Sims : slot'[t] # NoPath => t \in mgr'.settings.known
    BY <1>0, <1>6, <1>9 DEF Placed, Known
  <2>2. \A r \in Paths \ links' : modemSim'[r] = NoSim
    BY <1>1, <1>8, <1>9
  <2>3. \A r \in Paths : wrapper'[r].there => r \in links'
    BY <1>0, <1>1, <1>2, <1>11 DEF Placed
  <2>4. Apart(cardAt')
    BY <1>0, <1>1 DEF Apart
  <2> QED
    BY <1>13, <1>14, <2>1, <2>2, <2>3, <2>4 DEF Placed, Apart, Known
<1> QED
  BY <1>0, <1>1, <1>9, <1>12, <1>15 DEF IInv, DiskOK

(* modemReady() matches the modems again. *)
LEMMA ModemReadyIInv ==
  ASSUME IInv, NEW p \in Paths, ModemReady(p)
  PROVE  IInv'
<1>0. TypeOK /\ Sound(mgr, powered) /\ DiskOK /\ Placed
  BY DEF IInv
<1>1. /\ slot \in [Sims -> Paths \cup {NoPath}] /\ links \subseteq Paths /\ ready \subseteq Paths
      /\ Apart(slot) /\ \A t \in Sims : slot[t] # NoPath => slot[t] \in links
  BY <1>0, SlotsApart DEF TypeOK, Placed, ModemsMatched
<1>2. /\ Matched(slot) \in [Paths -> Sims \cup {NoSim}]
      /\ \A r \in links : Matched(slot)[r] = SimAt(slot, r)
      /\ \A r \in Paths \ links : Matched(slot)[r] = NoSim
      /\ \A t \in Sims : slot[t] # NoPath => Matched(slot)[slot[t]] = t
  BY <1>1, MatchedProperties
<1>3. \A r \in links : Matched(slot)[r] \in mgr.settings.known \cup {NoSim}
  <2> SUFFICES ASSUME NEW r \in links, SimAt(slot, r) # NoSim
               PROVE  SimAt(slot, r) \in mgr.settings.known
    BY <1>2
  <2>1. SimAt(slot, r) \in Sims /\ slot[SimAt(slot, r)] = r /\ r # NoPath
    BY <1>1, SimAtProperties, ConstantsAssumption
  <2> QED
    BY <1>0, <2>1 DEF Placed, Known
<1>4. Sound(Announced(mgr, Matched(slot)), powered) /\ Same(mgr, Announced(mgr, Matched(slot)))
  BY <1>0, <1>1, <1>2, <1>3, AnnouncedSound
<1>5. Sound(mgr', powered) /\ Same(mgr, mgr')
  BY <1>0, <1>4 DEF ModemReady, Same
<1>6. modemSim' = Matched(slot)
  <2>1. modemSim \in [Paths -> Sims \cup {NoSim}] /\ \A r \in Paths : modemSim[r] = Matched(slot)[r]
    BY <1>0, <1>2 DEF TypeOK, Placed, ModemsMatched
  <2>2. modemSim = Matched(slot)
    BY <1>2, <2>1
  <2> QED
    BY <2>2 DEF ModemReady
<1>7. UNCHANGED <<links, slot, initial, proxy, wrapper, cardAt, powered, disk, restarts>>
  BY DEF ModemReady, simVars
<1>8. TypeOK'
  BY <1>0, <1>2, <1>5, <1>6, <1>7 DEF ModemReady, TypeOK, Sound
<1>9. modemSim' = modemSim
  BY <1>0, <1>2, <1>6 DEF TypeOK, Placed, ModemsMatched
<1>10. Placed'
  BY <1>0, <1>5, <1>7, <1>9, PlacedSame
<1> QED
  BY <1>0, <1>5, <1>7, <1>8, <1>10 DEF IInv, DiskOK

----------------------------------------------------------------------------
(* Every step keeps the invariant. *)
LEMMA NextIInv == IInv /\ [Next]_vars => IInv'
<1> SUFFICES ASSUME IInv, [Next]_vars PROVE IInv'
  OBVIOUS
<1>1. CASE Regular
  <2>1. ASSUME NEW s \in Sims, OfonoAnswers(s) PROVE IInv'
    BY <2>1, OfonoIInv
  <2>2. ASSUME NEW s \in Sims, NEW p \in Paths, CardInserted(s, p) PROVE IInv'
    BY <2>2, SurroundingsIInv
  <2>3. ASSUME NEW p \in Paths, ModemAdded(p) \/ SimManagerAdded(p) \/ CardSeen(p) PROVE IInv'
    BY <2>3, SurroundingsIInv
  <2>4. ASSUME NEW p \in Paths, ModemReady(p) PROVE IInv'
    BY <2>4, ModemReadyIInv
  <2>5. ASSUME NEW p \in Paths, CardRead(p) PROVE IInv'
    BY <2>5, CardReadIInv
  <2> QED
    BY <1>1, <2>1, <2>2, <2>3, <2>4, <2>5, RequestIInv, RestartIInv DEF Regular
<1>2. ASSUME NEW kind \in FaultKinds, Fault(kind) PROVE IInv'
  <2>1. ASSUME NEW p \in Paths, ModemRemoved(p) \/ SimManagerRemoved(p) \/ CardRemoved(p)
        PROVE  IInv'
    BY <2>1, RemovalIInv
  <2>2. ASSUME NEW s \in Sims, PoweredByOther(s) PROVE IInv'
    BY <2>2, OfonoIInv
  <2> QED
    BY <1>2, <2>1, <2>2 DEF Fault
<1>3. CASE UNCHANGED vars
  <2>1. TypeOK'
    BY <1>3 DEF IInv, TypeOK, vars, simVars
  <2>2. Placed'
    BY <1>3, PlacedSame DEF IInv, vars, simVars, Same
  <2> QED
    BY <1>3, <2>1, <2>2 DEF IInv, DiskOK, vars, simVars
<1> QED
  BY <1>1, <1>2, <1>3 DEF Next

(* The inductive invariant holds in every reachable state. *)
LEMMA Invariant == Spec => []IInv
BY InitIInv, NextIInv, PTL DEF Spec

(* Every variable has its type. *)
THEOREM TypeCorrect == Spec => []TypeOK
<1>1. IInv => TypeOK
  BY DEF IInv
<1> QED
  BY <1>1, Invariant, PTL

(* setSimForMobileData() and setMobileDataEnabled() give mobile data to no *)
(* SIM but the chosen one, for any number of SIMs and modems.              *)
THEOREM DataForChosenSim == Spec => []OnlyChosenSim
<1>1. IInv => OnlyChosenSim
  BY DEF IInv, Sound, Chosen, OnlyChosenSim
<1> QED
  BY <1>1, Invariant, PTL

(* The calls under way to a present SIM's card end in the value that       *)
(* wwan::Sim has, whatever ofono had stored and others have set.           *)
THEOREM SimHasLastWord == Spec => []ForcedBack
<1>1. IInv => ForcedBack
  <2> SUFFICES ASSUME IInv, NEW s \in Sims, mgr.conn[s] PROVE LastWord(s) = mgr.flag[s]
    BY DEF ForcedBack
  <2>1. /\ mgr.calls[s] = <<>> => powered[s] = mgr.flag[s]
        /\ mgr.calls[s] # <<>> => mgr.calls[s][Len(mgr.calls[s])] = SetPowered(mgr.flag[s])
    BY DEF IInv, Sound, Forced
  <2>2. mgr.flag[s] \in BOOLEAN
    BY DEF IInv, TypeOK, Mgr
  <2> QED
    BY <2>1, <2>2, SetPoweredType DEF LastWord
<1> QED
  BY <1>1, Invariant, PTL

(* Every modem shows the SIM whose object points at it. *)
THEOREM ModemsShowTheirSims == Spec => []ModemsMatched
<1>1. IInv => ModemsMatched
  BY DEF IInv, Placed
<1> QED
  BY <1>1, Invariant, PTL

(* A SIM object has a proxy only while its card is in the modem that the   *)
(* object points at, however cards change places.                          *)
THEOREM ProxiesReachTheirCards == Spec => []Attached
<1>1. IInv => Attached
  BY DEF IInv, Placed
<1> QED
  BY <1>1, Invariant, PTL

(* The settings in force are the ones that will be written, and every      *)
(* settings file names a SIM that loadSettings() finds.                    *)
THEOREM SettingsAreKept == Spec => []SettingsKept
<1>1. IInv => SettingsKept
  BY DEF IInv, Sound, Kept, SettingsKept, DiskOK, SettingsOK, Known
<1> QED
  BY <1>1, Invariant, PTL

(* A restart brings back the switch, the chosen SIM and its data.          *)
THEOREM RestartBringsBack == Spec => RestartRestores
<1> DEFINE A == restarts' # restarts /\ disk # Unset =>
                  /\ mgr'.enabled = disk.enabled
                  /\ mgr'.sim = disk.sim
                  /\ \A s \in Sims : mgr'.flag[s] <=> s = disk.sim /\ disk.enabled
<1>1. IInv /\ [Next]_vars => [A]_vars
  <2> SUFFICES ASSUME IInv, Next, restarts' # restarts, disk # Unset PROVE A
    OBVIOUS
  <2>1. Restart
    BY DEF Next, Regular, Fault, CheckSimForMobileData, Sync, ClientSetsEnabled, ClientSetsSim,
           OfonoAnswers, CardInserted, ModemAdded, SimManagerAdded, ModemReady, CardSeen, CardRead,
           ModemRemoved, SimManagerRemoved, CardRemoved, PoweredByOther
  <2> DEFINE q == [s \in Sims |-> Orphaned(mgr.calls[s])]
  <2>2. q \in [Sims -> Seq(Call)]
    <3> SUFFICES ASSUME NEW s \in Sims PROVE Orphaned(mgr.calls[s]) \in Seq(Call)
      OBVIOUS
    <3>1. mgr.calls[s] \in Seq(Call)
      BY DEF IInv, TypeOK, Mgr
    <3> QED
      BY <3>1, OrphanedType
  <2>3. mgr' = LoadSettings(disk, q)
    BY <2>1 DEF Restart
  <2> HIDE DEF q
  <2> QED
    BY <2>2, <2>3, LoadSettingsSound DEF IInv, DiskOK
<1>2. Spec => [][A]_vars
  BY <1>1, Invariant, PTL DEF Spec
<1> QED
  BY <1>2 DEF RestartRestores

=============================================================================
